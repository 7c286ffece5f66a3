------------------------- MODULE MCUpstreamRequest -------------------------
(* An instance of UpstreamRequest for TLC.                                 *)
EXTENDS UpstreamRequest

CONSTANTS r1, r2, r3, r4, s1, s2, c1, c2, c3, p1

(* Two requests of each of two routes.                                     *)
TwoShapes == [r \in Requests |-> IF r \in {r1, r2} THEN s1 ELSE s2]

(* r1 and r3 come through one proxy; r2 and r3 are of one client.          *)
ThreeClients == [r \in Requests |-> CASE r = r1 -> c1 [] r = r4 -> c3 [] OTHER -> c2]
OneProxy == [r \in Requests |-> IF r \in {r1, r3} THEN p1 ELSE NoPeer]
=============================================================================
