---------------------------- MODULE MCCredentials ----------------------------
EXTENDS Credentials

CONSTANTS heartbeat, sender, c1, c2, c3, c4, c5, e1, e2
AllFaults == {"lost", "busy", "read", "write", "remove", "damage", "crash"}
=============================================================================
