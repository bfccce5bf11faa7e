----------------------------- MODULE MCIpcCalls -----------------------------
\* Small instances of IpcCalls: the constants are given by the configurations.
EXTENDS IpcCalls
=============================================================================
