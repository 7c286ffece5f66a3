----------------------------- MODULE PermitPool -----------------------------
(***************************************************************************)
(* What a permit limiter of src/limiter.rs promises its caller: a pool of  *)
(* permits in which a grant is possible only below the global cap and      *)
(* below the cap of the client, and a returned permit is available again.  *)
(* A limiter may refuse for other reasons; the promise is about grants.    *)
(***************************************************************************)
EXTENDS Integers, FiniteSets

CONSTANTS
  Tasks,             \* connection or request slots
  KeyOf,             \* the client of each task
  MaxConnections,    \* 0 is unlimited
  MaxPerIp           \* 0 is unlimited

VARIABLE held        \* the tasks whose ConnectionPermit or RequestPermit is live

HeldBy(k) == {t \in held : KeyOf[t] = k}

Grant(t) ==
  /\ t \notin held
  /\ MaxConnections > 0 => Cardinality(held) < MaxConnections
  /\ MaxPerIp > 0 => Cardinality(HeldBy(KeyOf[t])) < MaxPerIp
  /\ held' = held \cup {t}

Return(t) ==
  /\ t \in held
  /\ held' = held \ {t}

Init == held = {}

Next == \E t \in Tasks : Grant(t) \/ Return(t)

Spec == Init /\ [][Next]_held
=============================================================================
