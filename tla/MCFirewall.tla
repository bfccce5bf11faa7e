----------------------------- MODULE MCFirewall -----------------------------
\* Firewall for TLC: the operator has allowed sshd's port and nothing else.
EXTENDS Firewall

MCOwn == <<[mark |-> "own", deny |-> None, allow |-> Ssh]>>
=============================================================================
