--------------------------- MODULE MCRequestRate ---------------------------
(* Instances of RequestRate for TLC.                                       *)
EXTENDS RequestRate, TLC

CONSTANTS r1, r2, k1, k2, k3, t1, t2

(* Two clients, each with its own signature, on one route with short       *)
(* tokens; the first comes through a proxy.                                *)
MixedKeys ==
  [kd \in Kinds |->
     [d \in Dims |->
        CASE d \in {"signature", "client"} -> kd
          [] d = "proxy" /\ kd # k1       -> NoKey
          [] OTHER                        -> k3]]

TwoTokens == [kd \in Kinds |-> IF kd = k1 THEN t1 ELSE t2]

OneEach == [d \in Dims |-> 1]

(* A client alone may exceed the global rate; a signature may not, so that *)
(* one evicted too early would show in its bound within three requests.    *)
Faster == [d \in Dims |-> IF d = "client" THEN 2 ELSE 1]

ShapesOff == [Faster EXCEPT !["path_shape"] = 0]

Sym == Permutations(Requests)
=============================================================================
