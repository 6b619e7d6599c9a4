---------------------------- MODULE MCMessaging ----------------------------
EXTENDS Messaging

CONSTANTS e1, p1, p2

MCEvents == {e1}
MCProcesses == {p1, p2}
=============================================================================
