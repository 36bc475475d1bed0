------------------------- MODULE MCChatConnections -------------------------
(* Instances of ChatConnections small enough for TLC.                       *)
EXTENDS ChatConnections

CONSTANTS i1, i2, ann, bob, a1, a2, b1

\* ann talks to bob from two devices, bob to ann from one.
MCUserOf == [s \in Sockets |-> IF s = b1 THEN bob ELSE ann]
MCPeerOf == [s \in Sockets |-> IF s = b1 THEN ann ELSE bob]

\* ann's second socket is the one of useNotifications.ts: its peer is ann.
NotificationsPeerOf ==
    [s \in Sockets |-> IF s = a1 THEN bob ELSE ann]

OneProcess == [s \in Sockets |-> i1]

\* ann's second device is at another process than the first.
TwoProcesses == [s \in Sockets |-> IF s = a2 THEN i2 ELSE i1]
=============================================================================
