--------------------------- MODULE MCWebhookQueue ---------------------------
\* Small instances of WebhookQueue: the constants are given by the configurations.
EXTENDS WebhookQueue
=============================================================================
