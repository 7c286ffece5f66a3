-------------------------- MODULE MCPermitLimiter --------------------------
(* Small instances of PermitLimiter: three or four clients on two or three *)
(* shards.                                                                 *)
EXTENDS PermitLimiter, TLC

CONSTANTS t1, t2, t3, t4, t5, k1, k2, k3, k4

\* Two tasks of one client and one of each other client.
FourClients ==
  (t1 :> k1) @@ (t2 :> k1) @@ (t3 :> k2) @@ (t4 :> k3) @@ (t5 :> k4)
ThreeClients == (t1 :> k1) @@ (t2 :> k1) @@ (t3 :> k2) @@ (t4 :> k3)

\* k1 and k2 collide; k3 and k4 have shards of their own.
ThreeShards == (k1 :> 0) @@ (k2 :> 0) @@ (k3 :> 1) @@ (k4 :> 2)
TwoShards == (k1 :> 0) @@ (k2 :> 0) @@ (k3 :> 1)
=============================================================================
