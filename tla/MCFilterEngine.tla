--------------------------- MODULE MCFilterEngine ---------------------------
(* An instance of FilterEngine: one static rule, and adaptive rules for    *)
(* one signature that come, go, change and expire in the runtime file.     *)
EXTENDS FilterEngine

CONSTANTS sig, shape, prefix

R(id, priority, when, adaptive, ttl, expires) ==
  [id |-> id, priority |-> priority, when |-> when, enabled |-> TRUE,
   adaptive |-> adaptive, ttl |-> ttl, expires |-> expires]

Learned == R(1, 1, {sig}, TRUE, NoTtl, Never)
Hurried == R(1, 3, {sig, shape}, TRUE, 1, Never)
Expiring == R(2, 2, {sig}, TRUE, 2, 2)
Clash == R(3, 1, {sig}, FALSE, NoTtl, Never)

OneStatic == {R(3, 2, {prefix}, FALSE, NoTtl, Never)}
SomeContents == {{}, {Learned}, {Hurried, Expiring}, {Learned, Clash}}
AllFacts == {sig, shape, prefix}
AttackFacts == [t \in Tasks |-> {sig, shape}]
SameSignal == [t \in Tasks |-> sig]
=============================================================================
