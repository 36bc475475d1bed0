--------------------------- MODULE MCRedisFanout ---------------------------
(* Two processes, one user with a socket at each.                           *)
EXTENDS RedisFanout
CONSTANTS i1, i2, s1, s2, ann
MCInstanceOf == [s \in Sockets |-> IF s = s1 THEN i1 ELSE i2]
MCAddressOf == [s \in Sockets |-> ann]
=============================================================================
