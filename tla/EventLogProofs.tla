--------------------------- MODULE EventLogProofs ---------------------------
(***************************************************************************)
(* For every size of queue, buffer, log and backups: events keep their     *)
(* order through every failure and crash, and on a sound disk each one is  *)
(* stored or counted and an answered flush has reached the file            *)
(* (EventLog).                                                             *)
(***************************************************************************)
EXTENDS EventLog, FiniteSetTheorems, TLAPS

Command == [kind : {"event", "flush", "shutdown"}, id : Nat]

TypeInv ==
  /\ logged \in Nat /\ dropped \in Nat /\ calls \in Nat
  /\ queue \in Seq(Command)
  /\ worker \in {"recv", "flush", "remove", "rename", "open", "write", "stopped"}
  /\ hand \in Nat /\ shift \in Nat /\ open \in BOOLEAN
  /\ buffer \in Seq(Nat) /\ files \in [Slots -> Seq(Nat)]
  /\ caller \in [kind : {"none", "flush", "shutdown"},
                 at : {"send", "wait", "done", "acked", "gaveup"}, id : Nat, cover : Nat]
  /\ disk \in {"sound", "faulty"}

(* The thread has an event in hand only inside write_event, buffers only   *)
(* while it has the file open, and renames onto a name that is vacant.     *)
WriterInv ==
  /\ worker \in {"recv", "stopped"} => hand = 0
  /\ worker = "write" => open
  /\ ~open => buffer = << >>
  /\ worker = "rename" => shift < BackupCount /\ files[shift + 1] = << >>

LoggedInv == \A e \in OnDisk \cup InMemory : e <= logged

(* What is queued behind the command of a caller that waits was logged     *)
(* after its call; a caller that has yet to send has no command queued.    *)
CallInv ==
  /\ caller.at \in {"send", "wait"} => caller.kind # "none"
  /\ caller.cover <= logged /\ caller.id <= calls
  /\ \A i \in DOMAIN queue : queue[i].kind # "event" =>
       queue[i].id <= calls /\ (caller.at = "send" => queue[i].id < caller.id)
  /\ caller.at = "wait" =>
       \A i, j \in DOMAIN queue :
         i < j /\ queue[i].kind # "event" /\ queue[i].id = caller.id /\ queue[j].kind = "event"
           => queue[j].id > caller.cover

IInv ==
  /\ TypeInv /\ WriterInv /\ LoggedInv /\ CallInv
  /\ OrderKept /\ DropsCounted /\ FlushDurable

----------------------------------------------------------------------------
(* Sequences of lines and newlines.                                        *)

LEMMA EventsOfEmpty == EventsIn(<< >>) = {} /\ Rising(<< >>)
BY DEF EventsIn, Rising

LEMMA EventsType ==
  ASSUME NEW s \in Seq(Nat)
  PROVE  EventsIn(s) \subseteq Nat \ {0}
BY DEF EventsIn, Newline

LEMMA EventsOfConcat ==
  ASSUME NEW s \in Seq(Nat), NEW t \in Seq(Nat)
  PROVE  /\ s \o t \in Seq(Nat)
         /\ EventsIn(s \o t) = EventsIn(s) \cup EventsIn(t)
         /\ Rising(s) /\ Rising(t) /\ Precede(EventsIn(s), EventsIn(t)) => Rising(s \o t)
<1> DEFINE u == s \o t
<1>1. /\ u \in Seq(Nat) /\ Len(u) = Len(s) + Len(t) /\ Len(s) \in Nat /\ Len(t) \in Nat
      /\ \A i \in 1..Len(s) : u[i] = s[i]
      /\ \A i \in 1..Len(t) : u[Len(s) + i] = t[i]
      /\ \A i \in (Len(s) + 1)..(Len(s) + Len(t)) : u[i] = t[i - Len(s)]
  OBVIOUS
<1>2. DOMAIN u = 1..(Len(s) + Len(t)) /\ DOMAIN s = 1..Len(s) /\ DOMAIN t = 1..Len(t)
  BY <1>1
<1>3. \A i \in DOMAIN u : \/ i \in DOMAIN s /\ u[i] = s[i]
                          \/ i > Len(s) /\ i - Len(s) \in DOMAIN t /\ u[i] = t[i - Len(s)]
  BY <1>1, <1>2
<1>4. /\ \A i \in DOMAIN s : i \in DOMAIN u /\ u[i] = s[i]
      /\ \A i \in DOMAIN t : Len(s) + i \in DOMAIN u /\ u[Len(s) + i] = t[i]
  BY <1>1, <1>2
<1> HIDE DEF u
<1>5. EventsIn(u) = EventsIn(s) \cup EventsIn(t)
  <2>1. EventsIn(u) \subseteq EventsIn(s) \cup EventsIn(t) BY <1>3, Zenon DEF EventsIn
  <2>2. EventsIn(s) \subseteq EventsIn(u) BY <1>4, Zenon DEF EventsIn
  <2>3. EventsIn(t) \subseteq EventsIn(u) BY <1>4, Zenon DEF EventsIn
  <2> QED BY <2>1, <2>2, <2>3, Zenon
<1>6. ASSUME Rising(s), Rising(t), Precede(EventsIn(s), EventsIn(t))
      PROVE  Rising(u)
  <2> SUFFICES ASSUME NEW i \in DOMAIN u, NEW j \in DOMAIN u, i < j,
                      u[i] # Newline, u[j] # Newline
               PROVE  u[i] < u[j]
    BY Zenon DEF Rising
  <2>1. CASE i \in DOMAIN s /\ j \in DOMAIN s BY <1>4, <1>6, <2>1, Zenon DEF Rising
  <2>2. CASE i \in DOMAIN s /\ j \notin DOMAIN s
    <3>1. u[j] \in EventsIn(t) BY <1>3, <2>2, Zenon DEF EventsIn
    <3>2. u[i] \in EventsIn(s) BY <1>4, <2>2, Zenon DEF EventsIn
    <3> QED BY <1>6, <3>1, <3>2, Zenon DEF Precede
  <2>3. CASE i \notin DOMAIN s /\ j \notin DOMAIN s
    <3>1. /\ i - Len(s) \in DOMAIN t /\ u[i] = t[i - Len(s)]
          /\ j - Len(s) \in DOMAIN t /\ u[j] = t[j - Len(s)]
      BY <1>3, <2>3, Zenon
    <3>2. i - Len(s) < j - Len(s) BY <1>1, <1>2
    <3> QED BY <1>6, <3>1, <3>2, Zenon DEF Rising
  <2>4. i \notin DOMAIN s => j \notin DOMAIN s BY <1>1, <1>2
  <2> QED BY <2>1, <2>2, <2>3, <2>4, Zenon
<1> QED BY <1>1, <1>5, <1>6, Zenon DEF u

LEMMA EventsOfOne ==
  ASSUME NEW e \in Nat
  PROVE  /\ <<e>> \in Seq(Nat) /\ EventsIn(<<e>>) = {e} \ {0} /\ Rising(<<e>>)
<1>1. <<e>> \in Seq(Nat) /\ DOMAIN <<e>> = {1} /\ <<e>>[1] = e OBVIOUS
<1> QED BY <1>1 DEF EventsIn, Rising, Newline

LEMMA EventsOfAppend ==
  ASSUME NEW s \in Seq(Nat), NEW e \in Nat
  PROVE  /\ Append(s, e) \in Seq(Nat)
         /\ EventsIn(Append(s, e)) = EventsIn(s) \cup ({e} \ {0})
         /\ Rising(s) /\ Precede(EventsIn(s), {e} \ {0}) => Rising(Append(s, e))
<1>1. Append(s, e) = s \o <<e>> OBVIOUS
<1>2. <<e>> \in Seq(Nat) /\ EventsIn(<<e>>) = {e} \ {0} /\ Rising(<<e>>) BY EventsOfOne, Zenon
<1> QED BY <1>1, <1>2, EventsOfConcat, Zenon

(* A prefix of n items and the rest.                                       *)
LEMMA EventsOfParts ==
  ASSUME NEW s \in Seq(Nat), NEW n \in 0..Len(s)
  PROVE  LET p == SubSeq(s, 1, n)
             r == SubSeq(s, n + 1, Len(s))
         IN  /\ p \in Seq(Nat) /\ r \in Seq(Nat)
             /\ EventsIn(p) \cup EventsIn(r) = EventsIn(s)
             /\ Rising(s) => Rising(p) /\ Rising(r) /\ Precede(EventsIn(p), EventsIn(r))
             /\ n = Len(s) => p = s /\ r = << >>
<1> DEFINE p == SubSeq(s, 1, n)
           r == SubSeq(s, n + 1, Len(s))
<1>0. Len(s) \in Nat /\ n \in Nat /\ n <= Len(s) OBVIOUS
<1>1. /\ Len(s) \in Nat /\ n \in Nat /\ n <= Len(s) /\ DOMAIN s = 1..Len(s)
      /\ p \in Seq(Nat) /\ DOMAIN p = 1..n /\ \A i \in 1..n : p[i] = s[i]
  OBVIOUS
<1>2. /\ r \in Seq(Nat) /\ Len(r) = Len(s) - n /\ DOMAIN r = 1..(Len(s) - n)
      /\ \A i \in 1..(Len(s) - n) : r[i] = s[n + i]
  <2>1. \A i \in (n + 1)..Len(s) : s[i] \in Nat BY <1>1
  <2>2. /\ r \in Seq(Nat) /\ Len(r) = IF n + 1 <= Len(s) THEN Len(s) - (n + 1) + 1 ELSE 0
        /\ \A i \in 1..(Len(s) - (n + 1) + 1) : r[i] = s[n + 1 + i - 1]
    BY <1>0, <1>1, <2>1
  <2> HIDE DEF r
  <2>3. Len(r) = Len(s) - n /\ Len(s) - (n + 1) + 1 = Len(s) - n BY <1>0, <2>2
  <2>4. DOMAIN r = 1..(Len(s) - n) BY <2>2, <2>3
  <2>5. \A i \in 1..(Len(s) - n) : n + 1 + i - 1 = n + i BY <1>1
  <2> QED BY <2>2, <2>3, <2>4, <2>5, Zenon
<1>3. n = Len(s) => p = s /\ r = << >> BY <1>1, <1>2
<1> HIDE DEF p, r
<1>4. \A i \in DOMAIN s : \/ i \in DOMAIN p /\ p[i] = s[i]
                          \/ i - n \in DOMAIN r /\ r[i - n] = s[i]
  <2> SUFFICES ASSUME NEW i \in DOMAIN s, i \notin DOMAIN p
               PROVE  i - n \in DOMAIN r /\ r[i - n] = s[i]
    BY <1>1, Zenon
  <2>1. i - n \in 1..(Len(s) - n) /\ n + (i - n) = i BY <1>1
  <2>2. r[i - n] = s[n + (i - n)] BY <1>2, <2>1, Zenon
  <2> QED BY <1>2, <2>1, <2>2, Zenon
<1>5. \A i \in DOMAIN p : i \in DOMAIN s /\ p[i] = s[i] /\ i <= n BY <1>1
<1>6. \A i \in DOMAIN r : n + i \in DOMAIN s /\ r[i] = s[n + i] /\ n < n + i
  <2> SUFFICES ASSUME NEW i \in DOMAIN r PROVE n + i \in 1..Len(s) /\ r[i] = s[n + i] /\ n < n + i
    BY <1>1, Zenon
  <2>1. i \in 1..(Len(s) - n) BY <1>2, Zenon
  <2>2. n + i \in 1..Len(s) /\ n < n + i BY <1>0, <2>1
  <2> QED BY <1>2, <2>1, <2>2, Zenon
<1>7. EventsIn(p) \cup EventsIn(r) = EventsIn(s)
  <2>1. EventsIn(s) \subseteq EventsIn(p) \cup EventsIn(r) BY <1>4, Zenon DEF EventsIn
  <2>2. EventsIn(p) \subseteq EventsIn(s) BY <1>5, Zenon DEF EventsIn
  <2>3. EventsIn(r) \subseteq EventsIn(s) BY <1>6, Zenon DEF EventsIn
  <2> QED BY <2>1, <2>2, <2>3, Zenon
<1>8. ASSUME Rising(s)
      PROVE  Rising(p) /\ Rising(r) /\ Precede(EventsIn(p), EventsIn(r))
  <2>1. Rising(p) BY <1>5, <1>8, Zenon DEF Rising
  <2>2. Rising(r)
    <3>1. \A i, j \in DOMAIN r : i < j => n + i < n + j BY <1>1, <1>2
    <3> QED BY <1>6, <1>8, <3>1, Zenon DEF Rising
  <2>3. Precede(EventsIn(p), EventsIn(r))
    <3> SUFFICES ASSUME NEW i \in DOMAIN p, NEW j \in DOMAIN r, p[i] # Newline, r[j] # Newline
                 PROVE  p[i] < r[j]
      BY Zenon DEF Precede, EventsIn
    <3>1. i < n + j BY <1>1, <1>2
    <3> QED BY <1>5, <1>6, <1>8, <3>1, Zenon DEF Rising
  <2> QED BY <2>1, <2>2, <2>3, Zenon
<1> QED BY <1>1, <1>2, <1>3, <1>7, <1>8, Zenon DEF p, r

(* The queue, taken from and appended to.                                  *)
LEMMA IdsType ==
  ASSUME NEW q \in Seq(Command)
  PROVE  Ids(q) \in Seq(Nat) /\ Len(Ids(q)) = Len(q)
<1>1. DOMAIN q = 1..Len(q) /\ Len(q) \in Nat /\ \A i \in 1..Len(q) : q[i] \in Command OBVIOUS
<1>2. Ids(q) \in [1..Len(q) -> Nat] BY <1>1, Zenon DEF Ids, Command, Newline
<1> HIDE DEF Ids
<1> QED BY <1>1, <1>2

Id(c) == IF c.kind = "event" THEN c.id ELSE Newline

LEMMA IdsOfAppend ==
  ASSUME NEW q \in Seq(Command), NEW c \in Command
  PROVE  Append(q, c) \in Seq(Command) /\ Ids(Append(q, c)) = Append(Ids(q), Id(c))
<1> DEFINE u == Append(q, c)
<1>1. /\ u \in Seq(Command) /\ Len(u) = Len(q) + 1 /\ Len(q) \in Nat
      /\ \A i \in 1..Len(q) : u[i] = q[i]
      /\ u[Len(q) + 1] = c
  OBVIOUS
<1>2. DOMAIN u = 1..(Len(q) + 1) /\ DOMAIN q = 1..Len(q) BY <1>1
<1> DEFINE v == Append(Ids(q), Id(c))
<1>3. Id(c) \in Nat BY Zenon DEF Id, Command, Newline
<1>4. /\ v \in Seq(Nat) /\ Len(v) = Len(q) + 1
      /\ \A i \in 1..Len(q) : v[i] = Ids(q)[i]
      /\ v[Len(q) + 1] = Id(c)
  BY <1>3, IdsType
<1>5. Ids(u) \in Seq(Nat) /\ Len(Ids(u)) = Len(q) + 1 BY <1>1, IdsType, Zenon
<1> HIDE DEF u, v
<1>6. ASSUME NEW i \in 1..(Len(q) + 1) PROVE Ids(u)[i] = v[i]
  <2>1. CASE i \in 1..Len(q)
    <3>1. Ids(u)[i] = Id(u[i]) /\ Ids(q)[i] = Id(q[i]) BY <1>2, <2>1, Zenon DEF Ids, Id
    <3> QED BY <1>1, <1>4, <2>1, <3>1, Zenon
  <2>2. CASE i = Len(q) + 1
    <3>1. Ids(u)[i] = Id(u[i]) BY <1>2, Zenon DEF Ids, Id
    <3> QED BY <1>1, <1>4, <2>2, <3>1, Zenon
  <2> QED BY <1>1, <2>1, <2>2
<1>7. Ids(u) = v BY <1>1, <1>4, <1>5, <1>6
<1> QED BY <1>1, <1>7, Zenon DEF u, v

LEMMA IdsOfTail ==
  ASSUME NEW q \in Seq(Command), q # << >>
  PROVE  /\ Tail(q) \in Seq(Command) /\ Head(q) \in Command
         /\ EventsIn(Ids(q)) = ({Id(Head(q))} \ {0}) \cup EventsIn(Ids(Tail(q)))
         /\ Rising(Ids(q)) =>
              Rising(Ids(Tail(q))) /\ Precede({Id(Head(q))} \ {0}, EventsIn(Ids(Tail(q))))
<1> DEFINE t == Tail(q)
<1>1. /\ t \in Seq(Command) /\ Head(q) \in Command /\ Head(q) = q[1]
      /\ Len(q) \in Nat /\ Len(q) >= 1 /\ Len(t) = Len(q) - 1
      /\ \A i \in 1..(Len(q) - 1) : t[i] = q[i + 1]
  OBVIOUS
<1>2. DOMAIN t = 1..(Len(q) - 1) /\ DOMAIN q = 1..Len(q) BY <1>1
<1> HIDE DEF t
<1>3. DOMAIN Ids(q) = DOMAIN q /\ DOMAIN Ids(t) = DOMAIN t BY Zenon DEF Ids
<1>4. /\ 1 \in DOMAIN q /\ Ids(q)[1] = Id(Head(q))
      /\ \A i \in DOMAIN t : i + 1 \in DOMAIN q /\ i + 1 > 1 /\ Ids(t)[i] = Ids(q)[i + 1]
      /\ \A i \in DOMAIN q : i = 1 \/ (i - 1 \in DOMAIN t /\ Ids(q)[i] = Ids(t)[i - 1])
  <2>1. 1 \in DOMAIN q /\ Ids(q)[1] = Id(Head(q)) BY <1>1, <1>2 DEF Ids, Id
  <2>2. ASSUME NEW i \in DOMAIN t
        PROVE  i + 1 \in DOMAIN q /\ i + 1 > 1 /\ Ids(t)[i] = Ids(q)[i + 1]
    <3>1. i + 1 \in DOMAIN q /\ i + 1 > 1 /\ t[i] = q[i + 1] BY <1>1, <1>2
    <3> QED BY <3>1, Zenon DEF Ids
  <2>3. ASSUME NEW i \in DOMAIN q, i # 1
        PROVE  i - 1 \in DOMAIN t /\ Ids(q)[i] = Ids(t)[i - 1]
    <3>1. i - 1 \in DOMAIN t /\ (i - 1) + 1 = i BY <1>1, <1>2, <2>3
    <3> QED BY <2>2, <3>1, Zenon
  <2> QED BY <2>1, <2>2, <2>3, Zenon
<1>5. EventsIn(Ids(q)) = ({Id(Head(q))} \ {0}) \cup EventsIn(Ids(t))
  <2>1. EventsIn(Ids(q)) \subseteq ({Id(Head(q))} \ {0}) \cup EventsIn(Ids(t))
    BY <1>3, <1>4 DEF EventsIn, Newline
  <2>2. {Id(Head(q))} \ {0} \subseteq EventsIn(Ids(q)) BY <1>3, <1>4 DEF EventsIn, Newline
  <2>3. EventsIn(Ids(t)) \subseteq EventsIn(Ids(q)) BY <1>3, <1>4, Zenon DEF EventsIn
  <2> QED BY <2>1, <2>2, <2>3, Zenon
<1>6. ASSUME Rising(Ids(q))
      PROVE  Rising(Ids(t)) /\ Precede({Id(Head(q))} \ {0}, EventsIn(Ids(t)))
  <2>1. \A i, j \in DOMAIN t : i < j => i + 1 < j + 1 BY <1>1, <1>2
  <2>2. Rising(Ids(t)) BY <1>3, <1>4, <1>6, <2>1 DEF Rising
  <2>3. Precede({Id(Head(q))} \ {0}, EventsIn(Ids(t)))
    <3> SUFFICES ASSUME NEW j \in DOMAIN t, Id(Head(q)) # 0, Ids(t)[j] # 0
                 PROVE  Id(Head(q)) < Ids(t)[j]
      BY <1>3, Zenon DEF Precede, EventsIn, Newline
    <3>1. j + 1 \in DOMAIN Ids(q) /\ 1 \in DOMAIN Ids(q) /\ 1 < j + 1 BY <1>1, <1>2, <1>3
    <3>2. Ids(q)[1] = Id(Head(q)) /\ Ids(q)[j + 1] = Ids(t)[j] BY <1>4, Zenon
    <3> QED BY <1>6, <3>1, <3>2, Zenon DEF Rising, Newline
  <2> QED BY <2>2, <2>3, Zenon
<1> QED BY <1>1, <1>5, <1>6, Zenon DEF t

----------------------------------------------------------------------------
(* The log and the buffer behind it.                                       *)

Chain(log, b) == Rising(log) /\ Rising(b) /\ Precede(EventsIn(log), EventsIn(b))

(* Items move on from the buffer to the log, with those of X coming in.    *)
Moves(log, b, log2, b2, X) ==
  /\ log2 \in Seq(Nat) /\ b2 \in Seq(Nat) /\ Chain(log2, b2)
  /\ EventsIn(log) \subseteq EventsIn(log2)
  /\ EventsIn(b2) \subseteq EventsIn(b) \cup X
  /\ EventsIn(log2) \subseteq EventsIn(log) \cup EventsIn(b) \cup X

(* None of them is lost.                                                   *)
Keeps(log, b, log2, b2, X) ==
  EventsIn(log) \cup EventsIn(b) \cup X \subseteq EventsIn(log2) \cup EventsIn(b2)

LEMMA MovesOn ==
  ASSUME NEW l, NEW b, NEW l1, NEW b1, NEW l2, NEW b2, NEW X,
         Moves(l, b, l1, b1, X), Moves(l1, b1, l2, b2, {})
  PROVE  /\ Moves(l, b, l2, b2, X)
         /\ Keeps(l, b, l1, b1, X) /\ Keeps(l1, b1, l2, b2, {}) => Keeps(l, b, l2, b2, X)
BY Zenon DEF Moves, Keeps

(* A flush that writes n items.                                            *)
LEMMA FlushMoves ==
  ASSUME NEW log \in Seq(Nat), NEW b \in Seq(Nat), NEW n \in 0..Len(b), Chain(log, b)
  PROVE  LET l2 == log \o SubSeq(b, 1, n)
             b2 == SubSeq(b, n + 1, Len(b))
         IN  /\ Moves(log, b, l2, b2, {}) /\ Keeps(log, b, l2, b2, {})
             /\ n = Len(b) => b2 = << >> /\ l2 = log \o b
<1> DEFINE p == SubSeq(b, 1, n)
           b2 == SubSeq(b, n + 1, Len(b))
           l2 == log \o p
<1>1. /\ p \in Seq(Nat) /\ b2 \in Seq(Nat)
      /\ EventsIn(p) \cup EventsIn(b2) = EventsIn(b)
      /\ Rising(p) /\ Rising(b2) /\ Precede(EventsIn(p), EventsIn(b2))
      /\ n = Len(b) => p = b /\ b2 = << >>
  BY EventsOfParts, Zenon DEF Chain
<1> HIDE DEF p, b2
<1>2. Precede(EventsIn(log), EventsIn(p)) /\ Precede(EventsIn(log), EventsIn(b2))
  BY <1>1, Zenon DEF Chain, Precede
<1>3. /\ l2 \in Seq(Nat) /\ EventsIn(l2) = EventsIn(log) \cup EventsIn(p) /\ Rising(l2)
  BY <1>1, <1>2, EventsOfConcat, Zenon DEF Chain
<1>4. n = Len(b) => l2 = log \o b BY <1>1, Zenon
<1> HIDE DEF l2
<1>5. Chain(l2, b2) BY <1>1, <1>2, <1>3, Zenon DEF Chain, Precede
<1>6. Moves(log, b, l2, b2, {}) BY <1>1, <1>3, <1>5, Zenon DEF Moves
<1>7. Keeps(log, b, l2, b2, {}) BY <1>1, <1>3, Zenon DEF Keeps
<1> QED BY <1>1, <1>4, <1>6, <1>7, Zenon DEF p, b2, l2

(* Dropping a buffer.                                                      *)
LEMMA DropMoves ==
  ASSUME NEW l, NEW b, NEW l2, NEW b2, NEW X, Moves(l, b, l2, b2, X)
  PROVE  Moves(l, b, l2, << >>, X)
<1>1. << >> \in Seq(Nat) OBVIOUS
<1>2. Chain(l2, << >>) BY EventsOfEmpty, Zenon DEF Moves, Chain, Precede
<1> QED BY <1>1, <1>2, EventsOfEmpty, Zenon DEF Moves

(* write_all of one item that comes after all there is.                    *)
LEMMA PutMoves ==
  ASSUME NEW log \in Seq(Nat), NEW b \in Seq(Nat), NEW item \in Nat, NEW n \in 0..Len(b),
         Chain(log, b), Precede(EventsIn(log) \cup EventsIn(b), {item} \ {0})
  PROVE  LET put == Put(log, b, item, n)
         IN  /\ Moves(log, b, put.log, put.buf, {item} \ {0})
             /\ n = Len(b) => put.ok /\ Keeps(log, b, put.log, put.buf, {item} \ {0})
<1> DEFINE X == {item} \ {0}
           l2 == log \o SubSeq(b, 1, n)
           b2 == SubSeq(b, n + 1, Len(b))
<1>1. CASE Len(b) < BufCapacity
  <2> DEFINE c == Append(b, item)
  <2>1. Put(log, b, item, n) = [log |-> log, buf |-> c, ok |-> TRUE] BY <1>1, Zenon DEF Put
  <2>2. Precede(EventsIn(b), X) /\ Precede(EventsIn(log), X) BY Zenon DEF Precede
  <2>3. c \in Seq(Nat) /\ EventsIn(c) = EventsIn(b) \cup X /\ Rising(c)
    BY <2>2, EventsOfAppend, Zenon DEF Chain
  <2> HIDE DEF c, X
  <2>4. Chain(log, c) BY <2>2, <2>3, Zenon DEF Chain, Precede
  <2>5. Moves(log, b, log, c, X) /\ Keeps(log, b, log, c, X)
    BY <2>3, <2>4, Zenon DEF Moves, Keeps
  <2> QED BY <2>1, <2>5 DEF X
<1>2. CASE ~(Len(b) < BufCapacity)
  <2>1. Put(log, b, item, n) = [log |-> l2, buf |-> IF n = Len(b) THEN <<item>> ELSE b2,
                                ok |-> n = Len(b)]
    BY <1>2, Zenon DEF Put
  <2>2. /\ Moves(log, b, l2, b2, {}) /\ Keeps(log, b, l2, b2, {})
        /\ n = Len(b) => b2 = << >>
    BY FlushMoves, Zenon
  <2> HIDE DEF l2, b2
  <2>3. CASE n = Len(b)
    <3>1. /\ <<item>> \in Seq(Nat) /\ EventsIn(<<item>>) = X /\ Rising(<<item>>)
      BY EventsOfOne, Zenon
    <3> HIDE DEF X
    <3>2. EventsIn(b2) = {} BY <2>2, <2>3, EventsOfEmpty, Zenon
    <3>3. EventsIn(l2) \subseteq EventsIn(log) \cup EventsIn(b) BY <2>2, Zenon DEF Moves
    <3>4. Precede(EventsIn(l2), X) BY <3>3, Zenon DEF Precede, X
    <3>5. Chain(l2, <<item>>) BY <2>2, <3>1, <3>4, Zenon DEF Chain, Moves
    <3>6. Moves(log, b, l2, <<item>>, X) BY <2>2, <3>1, <3>3, <3>5, Zenon DEF Moves
    <3>7. Keeps(log, b, l2, <<item>>, X) BY <2>2, <3>1, <3>2, Zenon DEF Keeps
    <3>8. Put(log, b, item, n).log = l2 /\ Put(log, b, item, n).buf = <<item>>
      BY <2>1, <2>3
    <3>9. Put(log, b, item, n).ok = (n = Len(b)) BY <1>2, SMT DEF Put
    <3> QED BY <2>3, <3>6, <3>7, <3>8, <3>9, Zenon DEF X
  <2>4. CASE n # Len(b)
    <3>1. Moves(log, b, l2, b2, X) BY <2>2, Zenon DEF Moves
    <3> QED BY <2>1, <2>4, <3>1
  <2> QED BY <2>3, <2>4, Zenon
<1> QED BY <1>1, <1>2, Zenon

----------------------------------------------------------------------------
(* What a step of the writer thread does to the events.                    *)

Flow ==
  /\ OrderKept'
  /\ InMemory' \subseteq InMemory
  /\ OnDisk' \subseteq OnDisk \cup InMemory
  /\ disk = "sound" =>
       OnDisk \cup InMemory \cup retired \subseteq OnDisk' \cup InMemory' \cup retired'

LEMMA DiskParts ==
  /\ \A e : e \in OnDisk <=> \E k \in Slots : e \in EventsIn(files[k])
  /\ \A e : e \in OnDisk' <=> \E k \in Slots : e \in EventsIn(files'[k])
BY Zenon DEF OnDisk

LEMMA SlotFacts == BackupCount \in Nat \ {0} /\ 0 \in Slots /\ BackupCount \in Slots
BY EventLogAssumption DEF Slots

(* Only the end of the log, the buffer and the event in hand change.       *)
LEMMA LogStep ==
  ASSUME TypeInv, OrderKept, NEW log, NEW X \in SUBSET InHand,
         Moves(files[0], buffer, log, buffer', X),
         files' = [files EXCEPT ![0] = log],
         InHand' \subseteq InHand \ X, Queued' = Queued, Rising(Ids(queue')),
         retired' = retired,
         disk = "sound" => Keeps(files[0], buffer, log, buffer', X) /\ InHand' = InHand \ X
  PROVE  Flow
<1>1. files' = [k \in Slots |-> IF k = 0 THEN log ELSE files[k]] /\ 0 \in Slots
  BY SlotFacts, Zenon DEF TypeInv
<1>2. /\ files'[0] = log
      /\ \A k \in Slots : k # 0 => files'[k] = files[k]
  BY <1>1, Zenon
<1>3. /\ EventsIn(files[0]) \subseteq EventsIn(log) /\ Chain(log, buffer')
      /\ EventsIn(buffer') \subseteq EventsIn(buffer) \cup X
      /\ EventsIn(log) \subseteq EventsIn(files[0]) \cup EventsIn(buffer) \cup X
  BY Zenon DEF Moves
<1>4. /\ \A k, l \in Slots : l < k => Precede(EventsIn(files[k]), EventsIn(files[l]))
      /\ Precede(OnDisk, InMemory)
      /\ Precede(EventsIn(buffer), InHand \cup Queued) /\ Precede(InHand, Queued)
      /\ \A k \in Slots : Rising(files[k])
  BY Zenon DEF OrderKept
<1>5. \A k \in Slots : EventsIn(files[k]) \subseteq OnDisk BY DiskParts, Zenon
<1>6. /\ InMemory = Queued \cup InHand \cup EventsIn(buffer)
      /\ InMemory' = Queued \cup InHand' \cup EventsIn(buffer')
  BY Zenon DEF InMemory
<1>7. InMemory' \subseteq InMemory BY <1>3, <1>6, Zenon
<1>8. OnDisk' \subseteq OnDisk \cup EventsIn(log)
  <2> SUFFICES ASSUME NEW k \in Slots, NEW e \in EventsIn(files'[k])
               PROVE  e \in OnDisk \cup EventsIn(log)
    BY DiskParts, Zenon
  <2>1. CASE k = 0 BY <1>2, <2>1, Zenon
  <2>2. CASE k # 0 BY <1>2, <1>5, <2>2, Zenon
  <2> QED BY <2>1, <2>2, Zenon
<1>9. OnDisk' \subseteq OnDisk \cup InMemory BY <1>1, <1>3, <1>5, <1>6, <1>8, Zenon
<1>10. ASSUME disk = "sound"
       PROVE  OnDisk \cup InMemory \cup retired \subseteq OnDisk' \cup InMemory' \cup retired'
  <2>1. EventsIn(log) \subseteq OnDisk' BY <1>1, <1>2, DiskParts, Zenon
  <2>2. OnDisk \subseteq OnDisk'
    <3> SUFFICES ASSUME NEW k \in Slots, NEW e \in EventsIn(files[k])
                 PROVE  e \in OnDisk'
      BY DiskParts, Zenon
    <3>1. CASE k = 0 BY <1>3, <2>1, <3>1, Zenon
    <3>2. CASE k # 0 BY <1>2, <3>2, DiskParts, Zenon
    <3> QED BY <3>1, <3>2, Zenon
  <2>3. EventsIn(buffer) \cup X \subseteq EventsIn(log) \cup EventsIn(buffer')
    BY <1>10, Zenon DEF Keeps
  <2>4. InHand \subseteq InHand' \cup X BY <1>10, Zenon
  <2> QED BY <1>6, <2>1, <2>2, <2>3, <2>4
<1>11. OrderKept'
  <2>1. ASSUME NEW k \in Slots, NEW l \in Slots, l < k
        PROVE  Precede(EventsIn(files'[k]), EventsIn(files'[l]))
    <3>1. k # 0 BY <2>1 DEF Slots
    <3>2. CASE l # 0 BY <1>2, <1>4, <2>1, <3>1, <3>2, Zenon
    <3>3. CASE l = 0
      <4>1. Precede(EventsIn(files[k]), EventsIn(files[0])) BY <1>4, <2>1, <3>3, Zenon
      <4>2. Precede(EventsIn(files[k]), InMemory) BY <1>4, <1>5, Zenon DEF Precede
      <4>3. EventsIn(log) \subseteq EventsIn(files[0]) \cup InMemory BY <1>3, <1>6, Zenon
      <4>4. Precede(EventsIn(files[k]), EventsIn(log)) BY <4>1, <4>2, <4>3, Zenon DEF Precede
      <4> QED BY <1>2, <3>1, <3>3, <4>4, Zenon
    <3> QED BY <3>2, <3>3, Zenon
  <2>2. Precede(OnDisk', InMemory')
    <3>1. Precede(OnDisk, InMemory') BY <1>4, <1>7, Zenon DEF Precede
    <3>2. Precede(EventsIn(log), EventsIn(buffer')) BY <1>3, Zenon DEF Chain
    <3>3. Precede(EventsIn(files[0]), InMemory') BY <1>1, <1>5, <3>1, Zenon DEF Precede
    <3>4. Precede(EventsIn(buffer), InHand' \cup Queued)
      <4>1. InHand' \subseteq InHand BY Zenon
      <4> QED BY <1>4, <4>1, Zenon DEF Precede
    <3>5. Precede(X, InHand' \cup Queued)
      <4>1. X # {} => InHand' = {} BY Zenon DEF InHand
      <4> QED BY <1>4, <4>1, Zenon DEF Precede
    <3>6. Precede(EventsIn(log), InHand' \cup Queued)
      BY <1>3, <1>6, <3>3, <3>4, <3>5, Zenon DEF Precede
    <3>7. Precede(EventsIn(log), InMemory') BY <1>6, <3>2, <3>6, Zenon DEF Precede
    <3> QED BY <1>8, <3>1, <3>7, Zenon DEF Precede
  <2>3. Precede(EventsIn(buffer'), InHand' \cup Queued')
    <3>1. X # {} => InHand' = {} BY DEF InHand
    <3>2. InHand' \subseteq InHand OBVIOUS
    <3> QED BY <1>3, <1>4, <3>1, <3>2, Zenon DEF Precede
  <2>4. Precede(InHand', Queued') BY <1>4, Zenon DEF Precede
  <2>5. Rising(buffer') BY <1>3, Zenon DEF Chain
  <2>6. \A k \in Slots : Rising(files'[k])
    <3>1. Rising(log) BY <1>3, Zenon DEF Chain
    <3> QED BY <1>2, <1>4, <3>1, Zenon
  <2> QED BY <2>1, <2>2, <2>3, <2>4, <2>5, <2>6, Zenon DEF OrderKept
<1> QED BY <1>7, <1>9, <1>10, <1>11, Zenon DEF Flow

(* Only the files change, or the event in hand is given up.                *)
LEMMA FilesStep ==
  ASSUME TypeInv, OrderKept, UNCHANGED <<buffer, queue>>, InHand' \subseteq InHand,
         OnDisk' \subseteq OnDisk,
         \A k, l \in Slots : l < k => Precede(EventsIn(files'[k]), EventsIn(files'[l])),
         \A k \in Slots : Rising(files'[k]),
         disk = "sound" =>
           InHand' = InHand /\ OnDisk \cup retired \subseteq OnDisk' \cup retired'
  PROVE  Flow
<1>1. /\ Precede(OnDisk, InMemory)
      /\ Precede(EventsIn(buffer), InHand \cup Queued) /\ Precede(InHand, Queued)
      /\ Rising(buffer) /\ Rising(Ids(queue))
  BY Zenon DEF OrderKept
<1>2. Queued' = Queued BY Zenon DEF Queued
<1>3. /\ InMemory = Queued \cup InHand \cup EventsIn(buffer)
      /\ InMemory' = Queued \cup InHand' \cup EventsIn(buffer)
  BY <1>2, Zenon DEF InMemory
<1>4. InMemory' \subseteq InMemory BY <1>3, Zenon
<1>5. Precede(OnDisk', InMemory') BY <1>1, <1>4, Zenon DEF Precede
<1>6. Precede(EventsIn(buffer'), InHand' \cup Queued') /\ Precede(InHand', Queued')
  BY <1>1, <1>2, Zenon DEF Precede
<1>7. OrderKept' BY <1>1, <1>5, <1>6, Zenon DEF OrderKept
<1>8. disk = "sound" =>
        OnDisk \cup InMemory \cup retired \subseteq OnDisk' \cup InMemory' \cup retired'
  BY <1>3, Zenon
<1> QED BY <1>4, <1>7, <1>8, Zenon DEF Flow

LEMMA RemoveFlow ==
  ASSUME TypeInv, OrderKept, UNCHANGED <<buffer, queue, hand>>,
         retired' = retired \cup EventsIn(files[BackupCount]),
         files' = [files EXCEPT ![BackupCount] = << >>]
  PROVE  Flow
<1>1. \A k \in Slots : files'[k] = IF k = BackupCount THEN << >> ELSE files[k]
  BY Zenon DEF TypeInv
<1>2. \A k \in Slots : EventsIn(files'[k]) \subseteq EventsIn(files[k])
  BY <1>1, EventsOfEmpty, Zenon
<1>3. OnDisk' \subseteq OnDisk BY <1>2, DiskParts, Zenon
<1>4. OnDisk \subseteq OnDisk' \cup retired'
  <2> SUFFICES ASSUME NEW k \in Slots, NEW e \in EventsIn(files[k])
               PROVE  e \in OnDisk' \cup retired'
    BY DiskParts, Zenon
  <2>1. CASE k = BackupCount BY <2>1, Zenon
  <2>2. CASE k # BackupCount
    <3>1. files'[k] = files[k] BY <1>1, <2>2, Zenon
    <3> QED BY <3>1, DiskParts, Zenon
  <2> QED BY <2>1, <2>2, Zenon
<1>5. \A k, l \in Slots : l < k => Precede(EventsIn(files'[k]), EventsIn(files'[l]))
  <2>1. \A k, l \in Slots : l < k => Precede(EventsIn(files[k]), EventsIn(files[l]))
    BY Zenon DEF OrderKept
  <2> QED BY <1>2, <2>1, Zenon DEF Precede
<1>6. \A k \in Slots : Rising(files'[k]) BY <1>1, EventsOfEmpty, Zenon DEF OrderKept
<1>7. InHand' = InHand BY Zenon DEF InHand
<1> QED BY <1>3, <1>4, <1>5, <1>6, <1>7, FilesStep, Zenon

LEMMA RenameFlow ==
  ASSUME TypeInv, OrderKept, UNCHANGED <<buffer, queue, hand, retired>>,
         shift < BackupCount, files[shift + 1] = << >>,
         files' = [files EXCEPT ![shift + 1] = files[shift], ![shift] = << >>]
  PROVE  Flow
<1>1. shift \in Slots /\ shift + 1 \in Slots /\ shift # shift + 1 /\ shift \in Nat
  BY SlotFacts DEF TypeInv, Slots
<1>2. \A k \in Slots : files'[k] = IF k = shift THEN << >>
                                    ELSE IF k = shift + 1 THEN files[shift] ELSE files[k]
  BY <1>1, Zenon DEF TypeInv
<1>3. files'[shift] = << >> /\ files'[shift + 1] = files[shift] BY <1>1, <1>2, Zenon
<1>4. \A k \in Slots : k # shift /\ k # shift + 1 => files'[k] = files[k] BY <1>2, Zenon
<1>5. OnDisk' \subseteq OnDisk
  <2> SUFFICES ASSUME NEW k \in Slots, NEW e \in EventsIn(files'[k])
               PROVE  e \in OnDisk
    BY DiskParts, Zenon
  <2>1. k # shift BY <1>3, EventsOfEmpty, Zenon
  <2>2. CASE k = shift + 1 BY <1>1, <1>3, <2>2, DiskParts, Zenon
  <2>3. CASE k # shift + 1 BY <1>4, <2>1, <2>3, DiskParts, Zenon
  <2> QED BY <2>2, <2>3, Zenon
<1>6. OnDisk \subseteq OnDisk'
  <2> SUFFICES ASSUME NEW k \in Slots, NEW e \in EventsIn(files[k])
               PROVE  e \in OnDisk'
    BY DiskParts, Zenon
  <2>1. k # shift + 1 BY EventsOfEmpty, Zenon
  <2>2. CASE k = shift BY <1>1, <1>3, <2>2, DiskParts, Zenon
  <2>3. CASE k # shift BY <1>4, <2>1, <2>3, DiskParts, Zenon
  <2> QED BY <2>2, <2>3, Zenon
<1>7. ASSUME NEW k \in Slots, NEW l \in Slots, l < k
      PROVE  Precede(EventsIn(files'[k]), EventsIn(files'[l]))
  <2> DEFINE Was(m) == IF m = shift + 1 THEN shift ELSE m
  <2>1. CASE k = shift \/ l = shift BY <1>3, <2>1, EventsOfEmpty, Zenon DEF Precede
  <2>2. CASE k # shift /\ l # shift
    <3>1. files'[k] = files[Was(k)] /\ files'[l] = files[Was(l)] BY <1>2, <2>2, Zenon
    <3>2. Was(k) \in Slots /\ Was(l) \in Slots BY <1>1, Zenon
    <3>3. Was(l) < Was(k) BY <1>1, <1>7, <2>2 DEF Slots
    <3> HIDE DEF Was
    <3> QED BY <3>1, <3>2, <3>3, Zenon DEF OrderKept
  <2> QED BY <2>1, <2>2, Zenon
<1>8. \A k \in Slots : Rising(files'[k]) BY <1>1, <1>2, EventsOfEmpty, Zenon DEF OrderKept
<1>9. InHand' = InHand BY Zenon DEF InHand
<1> QED BY <1>5, <1>6, <1>7, <1>8, <1>9, FilesStep, Zenon

(* The event in hand is given up.                                          *)
LEMMA DropFlow ==
  ASSUME TypeInv, OrderKept, disk = "faulty", UNCHANGED <<buffer, queue, files>>, hand' = 0
  PROVE  Flow
<1>1. InHand' = {} BY Zenon DEF InHand
<1>2. OnDisk' = OnDisk BY Zenon DEF OnDisk
<1>3. /\ \A k, l \in Slots : l < k => Precede(EventsIn(files'[k]), EventsIn(files'[l]))
      /\ \A k \in Slots : Rising(files'[k])
  BY Zenon DEF OrderKept
<1>4. disk # "sound" BY Zenon
<1> QED BY <1>1, <1>2, <1>3, <1>4, FilesStep, Zenon

----------------------------------------------------------------------------
(* What follows for the invariant.                                         *)

LEMMA GoneFinite ==
  ASSUME logged \in Nat
  PROVE  IsFiniteSet(Gone) /\ Cardinality(Gone) \in Nat
<1>1. IsFiniteSet(1..logged) BY FS_Interval
<1>2. Gone \subseteq 1..logged BY Zenon DEF Gone
<1>3. IsFiniteSet(Gone) BY <1>1, <1>2, FS_Subset, Zenon
<1> QED BY <1>3, FS_CardinalityType, Zenon

LEMMA DropsKept ==
  ASSUME IInv, Flow, TypeInv', UNCHANGED <<logged, crashed, disk>>, dropped <= dropped'
  PROVE  LoggedInv' /\ DropsCounted'
<1>1. LoggedInv'
  <2>1. OnDisk' \cup InMemory' \subseteq OnDisk \cup InMemory BY Zenon DEF Flow
  <2>2. \A e \in OnDisk \cup InMemory : e <= logged BY Zenon DEF IInv, LoggedInv
  <2> QED BY <2>1, <2>2, Zenon DEF LoggedInv
<1>2. DropsCounted'
  <2> SUFFICES ASSUME disk = "sound" PROVE Cardinality(Gone') <= dropped'
    BY Zenon DEF DropsCounted
  <2>1. Gone' \subseteq Gone
    <3>1. OnDisk \cup InMemory \cup retired \subseteq OnDisk' \cup InMemory' \cup retired'
      BY Zenon DEF Flow
    <3> QED BY <3>1, Zenon DEF Gone
  <2>2. logged \in Nat /\ dropped \in Nat /\ dropped' \in Nat /\ Cardinality(Gone) <= dropped
    BY Zenon DEF IInv, TypeInv, DropsCounted
  <2>3. IsFiniteSet(Gone) /\ Cardinality(Gone) \in Nat BY <2>2, GoneFinite, Zenon
  <2>4. Cardinality(Gone') <= Cardinality(Gone) /\ Cardinality(Gone') \in Nat
    BY <2>1, <2>3, FS_Subset, FS_CardinalityType, Zenon
  <2> QED BY <2>2, <2>3, <2>4
<1> QED BY <1>1, <1>2, Zenon

(* A command leaves the queue, or none does; the caller may be answered.   *)
LEMMA CallsKept ==
  ASSUME TypeInv, CallInv, UNCHANGED <<logged, calls>>,
         queue' = queue \/ (queue # << >> /\ queue' = Tail(queue)),
         caller'.id = caller.id, caller'.cover = caller.cover, caller'.kind = caller.kind,
         caller'.at = caller.at \/ caller'.at \notin {"send", "wait"}
  PROVE  CallInv'
<1>1. PICK d \in {0, 1} : \A i \in DOMAIN queue' : i + d \in DOMAIN queue /\ queue'[i] = queue[i + d]
  <2>1. CASE queue' = queue
    <3>1. \A i \in DOMAIN queue : i + 0 = i BY DEF TypeInv
    <3> QED BY <2>1, <3>1, Zenon
  <2>2. CASE queue # << >> /\ queue' = Tail(queue)
    <3>1. /\ queue \in Seq(Command) /\ Len(queue) \in Nat /\ DOMAIN queue = 1..Len(queue)
          /\ DOMAIN Tail(queue) = 1..(Len(queue) - 1)
          /\ \A i \in 1..(Len(queue) - 1) : Tail(queue)[i] = queue[i + 1]
      BY <2>2 DEF TypeInv
    <3>2. \A i \in 1..(Len(queue) - 1) : i + 1 \in DOMAIN queue BY <3>1
    <3>3. \A i \in DOMAIN queue' : i + 1 \in DOMAIN queue /\ queue'[i] = queue[i + 1]
      BY <2>2, <3>1, <3>2, Zenon
    <3> QED BY <3>3, Zenon
  <2> QED BY <2>1, <2>2, Zenon
<1>2. /\ caller'.cover <= logged' /\ caller'.id <= calls'
      /\ caller'.at \in {"send", "wait"} => caller'.kind # "none"
  BY Zenon DEF CallInv
<1>3. \A i \in DOMAIN queue' : queue'[i].kind # "event" =>
        queue'[i].id <= calls' /\ (caller'.at = "send" => queue'[i].id < caller'.id)
  BY <1>1, Zenon DEF CallInv
<1>4. ASSUME caller'.at = "wait", NEW i \in DOMAIN queue', NEW j \in DOMAIN queue', i < j,
             queue'[i].kind # "event", queue'[i].id = caller'.id, queue'[j].kind = "event"
      PROVE  queue'[j].id > caller'.cover
  <2>1. caller.at = "wait" BY <1>4, Zenon
  <2>2. i + d < j + d
    <3>1. i \in Int /\ j \in Int
      <4>1. queue' \in Seq(Command) BY IdsOfTail, Zenon DEF TypeInv
      <4> QED BY <4>1
    <3> QED BY <1>4, <3>1
  <2> QED BY <1>1, <1>4, <2>1, <2>2, Zenon DEF CallInv
<1> QED BY <1>2, <1>3, <1>4, Zenon DEF CallInv

(* A step of the thread after which the caller is where it was.            *)
LEMMA Preserved ==
  ASSUME IInv, Flow, TypeInv', WriterInv', UNCHANGED <<logged, calls, caller, crashed, disk>>,
         dropped <= dropped',
         queue' = queue \/ (queue # << >> /\ queue' = Tail(queue))
  PROVE  IInv'
<1>1. LoggedInv' /\ DropsCounted' BY DropsKept, Zenon
<1>2. CallInv' BY CallsKept, Zenon DEF IInv
<1>3. FlushDurable'
  <2>1. InMemory' \subseteq InMemory BY Zenon DEF Flow
  <2>2. Answered' = Answered BY Zenon DEF Answered
  <2> QED BY <2>1, <2>2, Zenon DEF IInv, FlushDurable
<1>4. OrderKept' BY Zenon DEF Flow
<1> QED BY <1>1, <1>2, <1>3, <1>4, Zenon DEF IInv

----------------------------------------------------------------------------
(* The writer thread, action by action.                                    *)

LEMMA ChainNow ==
  ASSUME TypeInv, OrderKept
  PROVE  /\ files[0] \in Seq(Nat) /\ buffer \in Seq(Nat) /\ Chain(files[0], buffer)
         /\ Precede(EventsIn(files[0]) \cup EventsIn(buffer), {hand} \ {0})
         /\ hand \in Nat /\ Rising(Ids(queue))
<1>1. files[0] \in Seq(Nat) /\ buffer \in Seq(Nat) /\ hand \in Nat BY SlotFacts, Zenon DEF TypeInv
<1>2. EventsIn(files[0]) \subseteq OnDisk BY SlotFacts, DiskParts, Zenon
<1>3. /\ Precede(OnDisk, InMemory) /\ Precede(EventsIn(buffer), InHand \cup Queued)
      /\ Rising(files[0]) /\ Rising(buffer) /\ Rising(Ids(queue))
  BY SlotFacts, Zenon DEF OrderKept
<1>4. InMemory = Queued \cup InHand \cup EventsIn(buffer) /\ InHand = {hand} \ {0}
  BY Zenon DEF InMemory, InHand
<1>5. Precede(EventsIn(files[0]), EventsIn(buffer)) BY <1>2, <1>3, <1>4, Zenon DEF Precede
<1>6. Precede(EventsIn(files[0]) \cup EventsIn(buffer), InHand)
  BY <1>2, <1>3, <1>4, Zenon DEF Precede
<1> QED BY <1>1, <1>3, <1>4, <1>5, <1>6, Zenon DEF Chain

(* A command that is no event leaves the queue.                            *)
LEMMA ControlTaken ==
  ASSUME TypeInv, OrderKept, queue # << >>, Head(queue).kind # "event", queue' = Tail(queue)
  PROVE  queue' \in Seq(Command) /\ Queued' = Queued /\ Rising(Ids(queue'))
<1>1. queue \in Seq(Command) /\ Rising(Ids(queue)) BY Zenon DEF TypeInv, OrderKept
<1>2. Id(Head(queue)) = 0 BY Zenon DEF Id, Newline
<1>3. /\ Tail(queue) \in Seq(Command)
      /\ EventsIn(Ids(queue)) = ({0} \ {0}) \cup EventsIn(Ids(Tail(queue)))
      /\ Rising(Ids(Tail(queue)))
  BY <1>1, <1>2, IdsOfTail, Zenon
<1> QED BY <1>3, Zenon DEF Queued

(* flush_writer.                                                           *)
LEMMA FlushFlow ==
  ASSUME TypeInv, WriterInv, OrderKept, FlushWriter, UNCHANGED <<hand, retired>>,
         Queued' = Queued, Rising(Ids(queue'))
  PROVE  /\ Flow /\ buffer' \in Seq(Nat) /\ files' \in [Slots -> Seq(Nat)]
         /\ (~open \/ disk = "sound") => buffer' = << >>
<1>1. /\ files[0] \in Seq(Nat) /\ buffer \in Seq(Nat) /\ Chain(files[0], buffer)
      /\ files \in [Slots -> Seq(Nat)]
  BY ChainNow, Zenon DEF TypeInv
<1>2. InHand' = InHand BY Zenon DEF InHand
<1>3. CASE open
  <2>1. PICK n \in CanWrite(buffer) :
          /\ files' = [files EXCEPT ![0] = @ \o SubSeq(buffer, 1, n)]
          /\ buffer' = SubSeq(buffer, n + 1, Len(buffer))
    BY <1>3, Zenon DEF FlushWriter
  <2>2. n \in 0..Len(buffer) /\ (disk = "sound" => n = Len(buffer))
    BY <1>1 DEF CanWrite, DiskMayFail
  <2> DEFINE log == files[0] \o SubSeq(buffer, 1, n)
  <2>3. /\ Moves(files[0], buffer, log, buffer', {}) /\ Keeps(files[0], buffer, log, buffer', {})
        /\ n = Len(buffer) => buffer' = << >>
    BY <1>1, <2>1, <2>2, FlushMoves, Zenon
  <2>4. files' = [files EXCEPT ![0] = log] BY <2>1, Zenon
  <2> HIDE DEF log
  <2>5. log \in Seq(Nat) /\ buffer' \in Seq(Nat) BY <2>3, Zenon DEF Moves
  <2>6. files' \in [Slots -> Seq(Nat)] BY <1>1, <2>4, <2>5, Zenon
  <2>7. Flow BY <1>2, <2>3, <2>4, LogStep, Zenon
  <2> QED BY <1>3, <2>2, <2>3, <2>5, <2>6, <2>7, Zenon
<1>4. CASE ~open
  <2>1. files' = files /\ buffer' = buffer BY <1>4, Zenon DEF FlushWriter
  <2>2. files' = [files EXCEPT ![0] = files[0]] BY <1>1, <2>1, Zenon
  <2>3. /\ Moves(files[0], buffer, files[0], buffer', {})
        /\ Keeps(files[0], buffer, files[0], buffer', {})
    BY <1>1, <2>1, Zenon DEF Moves, Keeps
  <2>4. Flow BY <1>2, <2>2, <2>3, LogStep, Zenon
  <2> QED BY <1>1, <1>4, <2>1, <2>4, Zenon DEF WriterInv
<1> QED BY <1>3, <1>4, Zenon

LEMMA TakeFlow ==
  ASSUME TypeInv, OrderKept, hand = 0, queue # << >>, Head(queue).kind = "event",
         queue' = Tail(queue), UNCHANGED <<buffer, files, retired>>,
         hand' = Head(queue).id \/ (disk # "sound" /\ hand' = 0)
  PROVE  Flow /\ queue' \in Seq(Command) /\ hand' \in Nat
<1> DEFINE X == {Id(Head(queue))} \ {0}
<1>1. queue \in Seq(Command) /\ Rising(Ids(queue)) BY Zenon DEF TypeInv, OrderKept
<1>2. /\ queue' \in Seq(Command) /\ Head(queue) \in Command
      /\ Queued = X \cup Queued' /\ Rising(Ids(queue')) /\ Precede(X, Queued')
  BY <1>1, IdsOfTail, Zenon DEF Queued
<1>3. hand' \in Nat BY <1>2 DEF Command
<1>4. InHand = {} /\ InHand' \subseteq X /\ (disk = "sound" => InHand' = X)
  BY Zenon DEF InHand, Id
<1> HIDE DEF X
<1>5. /\ InMemory = Queued \cup InHand \cup EventsIn(buffer)
      /\ InMemory' = Queued' \cup InHand' \cup EventsIn(buffer)
  BY Zenon DEF InMemory
<1>6. InMemory' \subseteq InMemory /\ (disk = "sound" => InMemory' = InMemory)
  BY <1>2, <1>4, <1>5, Zenon
<1>7. OnDisk' = OnDisk BY Zenon DEF OnDisk
<1>8. OrderKept'
  <2>1. /\ Precede(OnDisk, InMemory) /\ Precede(EventsIn(buffer), InHand \cup Queued)
        /\ \A k, l \in Slots : l < k => Precede(EventsIn(files[k]), EventsIn(files[l]))
        /\ \A k \in Slots : Rising(files[k])
        /\ Rising(buffer)
    BY Zenon DEF OrderKept
  <2>2. Precede(OnDisk', InMemory') BY <1>6, <1>7, <2>1, Zenon DEF Precede
  <2>3. InHand' \cup Queued' \subseteq Queued BY <1>2, <1>4, Zenon
  <2>4. Precede(EventsIn(buffer'), InHand' \cup Queued') BY <2>1, <2>3, Zenon DEF Precede
  <2>5. Precede(InHand', Queued') BY <1>2, <1>4, Zenon DEF Precede
  <2> QED BY <1>2, <2>1, <2>2, <2>4, <2>5, Zenon DEF OrderKept
<1> QED BY <1>2, <1>3, <1>6, <1>7, <1>8, Zenon DEF Flow

LEMMA TakeEventInv ==
  ASSUME IInv, TakeEvent, UNCHANGED disk
  PROVE  IInv'
<1>1. TypeInv /\ WriterInv /\ OrderKept BY Zenon DEF IInv
<1>2. /\ worker = "recv" /\ queue # << >> /\ Head(queue).kind = "event" /\ queue' = Tail(queue)
      /\ UNCHANGED <<logged, shift, buffer, files, retired, caller, calls, crashed>>
  BY Zenon DEF TakeEvent
<1>3. \/ /\ worker' \in {"flush", "write"} /\ hand' = Head(queue).id /\ open' = TRUE
         /\ dropped' = dropped
      \/ /\ disk = "faulty" /\ ~open /\ dropped' = dropped + 1 /\ worker' = "recv" /\ hand' = 0
         /\ open' = open
  BY Zenon DEF TakeEvent, DropEvent, DiskMayFail
<1>4. hand = 0 BY <1>1, <1>2, Zenon DEF WriterInv
<1>5. hand' = Head(queue).id \/ (disk # "sound" /\ hand' = 0) BY <1>3, Zenon
<1>6. Flow /\ queue' \in Seq(Command) /\ hand' \in Nat BY <1>1, <1>2, <1>4, <1>5, TakeFlow, Zenon
<1>7. dropped \in Nat /\ dropped' \in Nat /\ dropped <= dropped' BY <1>1, <1>3 DEF TypeInv
<1>8. open' \in BOOLEAN /\ worker' \in {"flush", "write", "recv"} BY <1>1, <1>3, Zenon DEF TypeInv
<1>9. TypeInv' BY <1>1, <1>2, <1>6, <1>7, <1>8, Zenon DEF TypeInv
<1>10. WriterInv' BY <1>1, <1>2, <1>3, Zenon DEF WriterInv
<1> QED BY <1>2, <1>6, <1>7, <1>9, <1>10, Preserved, Zenon

LEMMA RotateFlushInv ==
  ASSUME IInv, RotateFlush, UNCHANGED disk
  PROVE  IInv'
<1>1. TypeInv /\ WriterInv /\ OrderKept BY DEF IInv
<1>2. /\ worker = "flush" /\ open' = FALSE /\ buffer' = << >>
      /\ UNCHANGED <<logged, queue, shift, retired, caller, calls, crashed>>
  BY Zenon DEF RotateFlush
<1>3. /\ files[0] \in Seq(Nat) /\ buffer \in Seq(Nat) /\ Chain(files[0], buffer)
      /\ Rising(Ids(queue)) /\ files \in [Slots -> Seq(Nat)]
  BY <1>1, ChainNow, Zenon DEF TypeInv
<1>4. Queued' = Queued /\ Rising(Ids(queue')) /\ buffer' \in Seq(Nat)
  BY <1>2, <1>3 DEF Queued
<1>5. CASE /\ files' = [files EXCEPT ![0] = @ \o buffer]
           /\ worker' = "remove" /\ UNCHANGED <<dropped, hand>>
  <2> DEFINE log == files[0] \o buffer
  <2>1. Len(buffer) \in 0..Len(buffer) BY <1>3
  <2>2. Moves(files[0], buffer, log, << >>, {}) /\ Keeps(files[0], buffer, log, << >>, {})
    <3> DEFINE l2 == files[0] \o SubSeq(buffer, 1, Len(buffer))
               b2 == SubSeq(buffer, Len(buffer) + 1, Len(buffer))
    <3>1. /\ Moves(files[0], buffer, l2, b2, {}) /\ Keeps(files[0], buffer, l2, b2, {})
          /\ b2 = << >> /\ l2 = log
      BY <1>3, <2>1, FlushMoves, Zenon
    <3> HIDE DEF l2, b2, log
    <3> QED BY <3>1, Zenon
  <2>3. files' = [files EXCEPT ![0] = log] BY <1>5, Zenon
  <2> HIDE DEF log
  <2>4. log \in Seq(Nat) BY <2>2, Zenon DEF Moves
  <2>5. files' \in [Slots -> Seq(Nat)] BY <1>3, <2>3, <2>4, Zenon
  <2>6. InHand' = InHand BY <1>5, Zenon DEF InHand
  <2>7. Flow
    <3>1. /\ Moves(files[0], buffer, log, buffer', {})
          /\ Keeps(files[0], buffer, log, buffer', {})
      BY <1>2, <2>2, Zenon
    <3>2. InHand' = InHand \ {} /\ {} \in SUBSET InHand BY <2>6, Zenon
    <3>3. retired' = retired BY <1>2, Zenon
    <3> QED BY <1>1, <1>4, <2>3, <3>1, <3>2, <3>3, LogStep, Zenon
  <2>8. TypeInv' BY <1>1, <1>2, <1>4, <1>5, <2>5, Zenon DEF TypeInv
  <2>9. WriterInv' BY <1>1, <1>2, <1>5, Zenon DEF WriterInv
  <2>10. dropped <= dropped' BY <1>1, <1>5 DEF TypeInv
  <2> QED BY <1>2, <2>7, <2>8, <2>9, <2>10, Preserved, Zenon
<1>6. CASE /\ DiskMayFail
           /\ \E n \in 0..Len(buffer) : files' = [files EXCEPT ![0] = @ \o SubSeq(buffer, 1, n)]
           /\ DropEvent
  <2>1. PICK n \in 0..Len(buffer) : files' = [files EXCEPT ![0] = @ \o SubSeq(buffer, 1, n)]
    BY <1>6, Zenon
  <2> DEFINE log == files[0] \o SubSeq(buffer, 1, n)
  <2>2. Moves(files[0], buffer, log, SubSeq(buffer, n + 1, Len(buffer)), {}) BY <1>3, FlushMoves, Zenon
  <2>3. files' = [files EXCEPT ![0] = log] BY <2>1, Zenon
  <2> HIDE DEF log
  <2>4. Moves(files[0], buffer, log, << >>, {}) BY <2>2, DropMoves, Zenon
  <2>5. log \in Seq(Nat) BY <2>4, Zenon DEF Moves
  <2>6. files' \in [Slots -> Seq(Nat)] BY <1>3, <2>3, <2>5, Zenon
  <2>7. /\ disk # "sound" /\ hand' = 0 /\ worker' = "recv" /\ dropped' = dropped + 1
    BY <1>6, Zenon DEF DiskMayFail, DropEvent
  <2>8. InHand' = {} BY <2>7, Zenon DEF InHand
  <2>9. Flow
    <3>1. Moves(files[0], buffer, log, buffer', {}) BY <1>2, <2>4, Zenon
    <3>2. InHand' \subseteq InHand \ {} /\ {} \in SUBSET InHand BY <2>8, Zenon
    <3>3. retired' = retired BY <1>2, Zenon
    <3> QED BY <1>1, <1>4, <2>3, <2>7, <3>1, <3>2, <3>3, LogStep, Zenon
  <2>10. dropped' \in Nat /\ dropped <= dropped' BY <1>1, <2>7 DEF TypeInv
  <2>11. TypeInv' BY <1>1, <1>2, <1>4, <2>6, <2>7, <2>10, Zenon DEF TypeInv
  <2>12. WriterInv' BY <1>1, <1>2, <2>7, Zenon DEF WriterInv
  <2> QED BY <1>2, <2>9, <2>10, <2>11, <2>12, Preserved, Zenon
<1> QED BY <1>5, <1>6, Zenon DEF RotateFlush

(* An operation of rotate fails: the event is dropped.                     *)
LEMMA DropEventInv ==
  ASSUME IInv, DiskMayFail, DropEvent,
         UNCHANGED <<logged, queue, shift, open, buffer, files, retired, caller, calls, crashed,
                     disk>>
  PROVE  IInv'
<1>1. TypeInv /\ WriterInv /\ OrderKept BY Zenon DEF IInv
<1>2. disk = "faulty" /\ hand' = 0 /\ worker' = "recv" /\ dropped' = dropped + 1
  BY Zenon DEF DiskMayFail, DropEvent
<1>3. Flow BY <1>1, <1>2, DropFlow, Zenon
<1>4. dropped' \in Nat /\ dropped <= dropped' BY <1>1, <1>2 DEF TypeInv
<1>5. TypeInv' BY <1>1, <1>2, <1>4, Zenon DEF TypeInv
<1>6. WriterInv' BY <1>1, <1>2, Zenon DEF WriterInv
<1> QED BY <1>3, <1>4, <1>5, <1>6, Preserved, Zenon

LEMMA RotateRemoveInv ==
  ASSUME IInv, RotateRemove, UNCHANGED disk
  PROVE  IInv'
<1>1. TypeInv /\ WriterInv /\ OrderKept BY DEF IInv
<1>2. UNCHANGED <<logged, queue, open, buffer, caller, calls, crashed>> BY Zenon DEF RotateRemove
<1>3. CASE /\ retired' = retired \cup EventsIn(files[BackupCount])
           /\ files' = [files EXCEPT ![BackupCount] = << >>]
           /\ worker' = "rename" /\ shift' = BackupCount - 1
           /\ UNCHANGED <<dropped, hand>>
  <2>1. Flow BY <1>1, <1>2, <1>3, RemoveFlow, Zenon
  <2>2. /\ files' \in [Slots -> Seq(Nat)] /\ files'[BackupCount] = << >>
        /\ shift' \in Nat /\ shift' < BackupCount /\ shift' + 1 = BackupCount
    BY <1>1, <1>3, SlotFacts DEF TypeInv
  <2>3. TypeInv' BY <1>1, <1>2, <1>3, <2>2, Zenon DEF TypeInv
  <2>4. WriterInv' BY <1>1, <1>2, <1>3, <2>2, Zenon DEF WriterInv
  <2>5. dropped <= dropped' BY <1>1, <1>3 DEF TypeInv
  <2> QED BY <1>2, <2>1, <2>3, <2>4, <2>5, Preserved, Zenon
<1>4. CASE DiskMayFail /\ DropEvent /\ UNCHANGED <<files, retired, shift>>
  BY <1>2, <1>4, DropEventInv, Zenon
<1> QED BY <1>3, <1>4, Zenon DEF RotateRemove

LEMMA RotateRenameInv ==
  ASSUME IInv, RotateRename, UNCHANGED disk
  PROVE  IInv'
<1>1. TypeInv /\ WriterInv /\ OrderKept BY DEF IInv
<1>2. worker = "rename" /\ UNCHANGED <<logged, queue, open, buffer, retired, caller, calls, crashed>>
  BY Zenon DEF RotateRename
<1>3. CASE /\ files' = [files EXCEPT ![shift + 1] = files[shift], ![shift] = << >>]
           /\ IF shift = 0 THEN worker' = "open" /\ UNCHANGED shift
              ELSE shift' = shift - 1 /\ UNCHANGED worker
           /\ UNCHANGED <<dropped, hand>>
  <2>1. shift < BackupCount /\ files[shift + 1] = << >> BY <1>1, <1>2, Zenon DEF WriterInv
  <2>2. Flow BY <1>1, <1>2, <1>3, <2>1, RenameFlow, Zenon
  <2>3. shift \in Slots /\ shift + 1 \in Slots /\ shift \in Nat
    BY <1>1, <2>1, SlotFacts DEF TypeInv, Slots
  <2>4. files' \in [Slots -> Seq(Nat)] /\ files'[shift] = << >>
    BY <1>1, <1>3, <2>3 DEF TypeInv
  <2>5. /\ shift' \in Nat /\ worker' \in {"open", "rename"}
        /\ worker' = "rename" => shift' < BackupCount /\ shift' + 1 = shift
    BY <1>2, <1>3, <2>1, <2>3, SlotFacts
  <2>6. TypeInv' BY <1>1, <1>2, <1>3, <2>4, <2>5, Zenon DEF TypeInv
  <2>7. WriterInv' BY <1>1, <1>2, <1>3, <2>4, <2>5, Zenon DEF WriterInv
  <2>8. dropped <= dropped' BY <1>1, <1>3 DEF TypeInv
  <2> QED BY <1>2, <2>2, <2>6, <2>7, <2>8, Preserved, Zenon
<1>4. CASE DiskMayFail /\ DropEvent /\ UNCHANGED <<files, shift>> BY <1>2, <1>4, DropEventInv, Zenon
<1> QED BY <1>3, <1>4, Zenon DEF RotateRename

(* A step that moves no event.                                             *)
LEMMA SameFlow ==
  ASSUME TypeInv, OrderKept, UNCHANGED <<queue, hand, buffer, files, retired>>
  PROVE  Flow
<1>1. InHand' = InHand /\ OnDisk' = OnDisk BY Zenon DEF InHand, OnDisk
<1>2. /\ \A k, l \in Slots : l < k => Precede(EventsIn(files'[k]), EventsIn(files'[l]))
      /\ \A k \in Slots : Rising(files'[k])
  BY Zenon DEF OrderKept
<1> QED BY <1>1, <1>2, FilesStep, Zenon

LEMMA RotateOpenInv ==
  ASSUME IInv, RotateOpen, UNCHANGED disk
  PROVE  IInv'
<1>1. TypeInv /\ WriterInv /\ OrderKept BY DEF IInv
<1>2. UNCHANGED <<logged, queue, shift, buffer, files, retired, caller, calls, crashed>>
  BY Zenon DEF RotateOpen
<1>3. CASE open' = TRUE /\ worker' = "write" /\ UNCHANGED <<dropped, hand>>
  <2>1. Flow BY <1>1, <1>2, <1>3, SameFlow, Zenon
  <2>2. TypeInv' BY <1>1, <1>2, <1>3, Zenon DEF TypeInv
  <2>3. WriterInv' BY <1>1, <1>2, <1>3, Zenon DEF WriterInv
  <2>4. dropped <= dropped' BY <1>1, <1>3 DEF TypeInv
  <2> QED BY <1>2, <2>1, <2>2, <2>3, <2>4, Preserved, Zenon
<1>4. CASE DiskMayFail /\ DropEvent /\ UNCHANGED open BY <1>2, <1>4, DropEventInv, Zenon
<1> QED BY <1>3, <1>4, Zenon DEF RotateOpen

(* The line, its newline and the flush, whatever becomes of them.          *)
LEMMA WriteMoves ==
  ASSUME TypeInv, OrderKept, WriteEvent
  PROVE  \E log : /\ files' = [files EXCEPT ![0] = log]
                  /\ Moves(files[0], buffer, log, buffer', InHand)
                  /\ disk = "sound" => Keeps(files[0], buffer, log, buffer', InHand)
<1>1. /\ files[0] \in Seq(Nat) /\ buffer \in Seq(Nat) /\ Chain(files[0], buffer)
      /\ Precede(EventsIn(files[0]) \cup EventsIn(buffer), InHand)
      /\ InHand = {hand} \ {0} /\ hand \in Nat
  BY ChainNow, Zenon DEF InHand
<1>2. PICK n \in CanWrite(buffer) :
        LET line == Put(files[0], buffer, hand, n)
        IN  \E m \in CanWrite(line.buf) :
             LET end == Put(line.log, line.buf, Newline, m)
             IN  \/ /\ ~line.ok
                    /\ files' = [files EXCEPT ![0] = line.log] /\ buffer' = line.buf
                 \/ /\ line.ok /\ ~end.ok
                    /\ files' = [files EXCEPT ![0] = end.log] /\ buffer' = end.buf
                 \/ /\ line.ok /\ end.ok
                    /\ \E k \in {0} \cup CanWrite(end.buf) :
                         /\ files' = [files EXCEPT ![0] = end.log \o SubSeq(end.buf, 1, k)]
                         /\ buffer' = SubSeq(end.buf, k + 1, Len(end.buf))
  BY Zenon DEF WriteEvent
<1> DEFINE line == Put(files[0], buffer, hand, n)
<1>3. PICK m \in CanWrite(line.buf) :
        LET end == Put(line.log, line.buf, Newline, m)
        IN  \/ /\ ~line.ok
               /\ files' = [files EXCEPT ![0] = line.log] /\ buffer' = line.buf
            \/ /\ line.ok /\ ~end.ok
               /\ files' = [files EXCEPT ![0] = end.log] /\ buffer' = end.buf
            \/ /\ line.ok /\ end.ok
               /\ \E k \in {0} \cup CanWrite(end.buf) :
                    /\ files' = [files EXCEPT ![0] = end.log \o SubSeq(end.buf, 1, k)]
                    /\ buffer' = SubSeq(end.buf, k + 1, Len(end.buf))
  BY <1>2, Zenon
<1> DEFINE end == Put(line.log, line.buf, Newline, m)
<1>4. n \in 0..Len(buffer) /\ (disk = "sound" => n = Len(buffer))
  BY <1>1 DEF CanWrite, DiskMayFail
<1>5. /\ Moves(files[0], buffer, line.log, line.buf, InHand)
      /\ disk = "sound" => line.ok /\ Keeps(files[0], buffer, line.log, line.buf, InHand)
  <2>1. /\ Moves(files[0], buffer, line.log, line.buf, {hand} \ {0})
        /\ n = Len(buffer) =>
             line.ok /\ Keeps(files[0], buffer, line.log, line.buf, {hand} \ {0})
    BY <1>1, <1>4, PutMoves, Zenon
  <2> HIDE DEF line
  <2> QED BY <1>1, <1>4, <2>1, Zenon
<1> HIDE DEF line
<1>6. line.log \in Seq(Nat) /\ line.buf \in Seq(Nat) /\ Chain(line.log, line.buf)
  BY <1>5, Zenon DEF Moves
<1>7. m \in 0..Len(line.buf) /\ (disk = "sound" => m = Len(line.buf))
  BY <1>6 DEF CanWrite, DiskMayFail
<1>8. /\ Moves(line.log, line.buf, end.log, end.buf, {})
      /\ disk = "sound" => end.ok /\ Keeps(line.log, line.buf, end.log, end.buf, {})
  <2>1. Newline \in Nat /\ {Newline} \ {0} = {} BY Zenon DEF Newline
  <2>2. Precede(EventsIn(line.log) \cup EventsIn(line.buf), {Newline} \ {0}) BY <2>1, Zenon DEF Precede
  <2>3. /\ Moves(line.log, line.buf, end.log, end.buf, {Newline} \ {0})
        /\ m = Len(line.buf) =>
             end.ok /\ Keeps(line.log, line.buf, end.log, end.buf, {Newline} \ {0})
    BY <1>6, <1>7, <2>1, <2>2, PutMoves, Zenon
  <2> HIDE DEF end
  <2> QED BY <1>7, <2>1, <2>3, Zenon
<1> HIDE DEF end
<1>9. /\ Moves(files[0], buffer, end.log, end.buf, InHand)
      /\ disk = "sound" => Keeps(files[0], buffer, end.log, end.buf, InHand)
  BY <1>5, <1>8, MovesOn, Zenon
<1>10. CASE /\ ~line.ok
            /\ files' = [files EXCEPT ![0] = line.log] /\ buffer' = line.buf
  BY <1>5, <1>10, Zenon
<1>11. CASE /\ line.ok /\ ~end.ok
            /\ files' = [files EXCEPT ![0] = end.log] /\ buffer' = end.buf
  BY <1>9, <1>11, Zenon
<1>12. CASE /\ line.ok /\ end.ok
            /\ \E k \in {0} \cup CanWrite(end.buf) :
                 /\ files' = [files EXCEPT ![0] = end.log \o SubSeq(end.buf, 1, k)]
                 /\ buffer' = SubSeq(end.buf, k + 1, Len(end.buf))
  <2>1. PICK k \in {0} \cup CanWrite(end.buf) :
          /\ files' = [files EXCEPT ![0] = end.log \o SubSeq(end.buf, 1, k)]
          /\ buffer' = SubSeq(end.buf, k + 1, Len(end.buf))
    BY <1>12, Zenon
  <2>2. end.log \in Seq(Nat) /\ end.buf \in Seq(Nat) /\ Chain(end.log, end.buf)
    BY <1>8, Zenon DEF Moves
  <2>3. k \in 0..Len(end.buf) BY <2>2 DEF CanWrite
  <2> DEFINE log == end.log \o SubSeq(end.buf, 1, k)
  <2>4. Moves(end.log, end.buf, log, buffer', {}) /\ Keeps(end.log, end.buf, log, buffer', {})
    BY <2>1, <2>2, <2>3, FlushMoves, Zenon
  <2>5. files' = [files EXCEPT ![0] = log] BY <2>1, Zenon
  <2> HIDE DEF log
  <2>6. /\ Moves(files[0], buffer, log, buffer', InHand)
        /\ disk = "sound" => Keeps(files[0], buffer, log, buffer', InHand)
    BY <1>9, <2>4, MovesOn, Zenon
  <2> QED BY <2>5, <2>6, Zenon
<1> QED BY <1>3, <1>10, <1>11, <1>12, Zenon DEF end

LEMMA WriteEventInv ==
  ASSUME IInv, WriteEvent, UNCHANGED disk
  PROVE  IInv'
<1>1. TypeInv /\ WriterInv /\ OrderKept BY DEF IInv
<1>2. /\ worker = "write" /\ worker' = "recv" /\ hand' = 0
      /\ UNCHANGED <<logged, queue, shift, open, retired, caller, calls, crashed>>
      /\ dropped' = dropped \/ dropped' = dropped + 1
  BY Zenon DEF WriteEvent
<1>3. PICK log : /\ files' = [files EXCEPT ![0] = log]
                 /\ Moves(files[0], buffer, log, buffer', InHand)
                 /\ disk = "sound" => Keeps(files[0], buffer, log, buffer', InHand)
  BY <1>1, WriteMoves, Zenon
<1>4. log \in Seq(Nat) /\ buffer' \in Seq(Nat) BY <1>3, Zenon DEF Moves
<1>5. files' \in [Slots -> Seq(Nat)] BY <1>1, <1>3, <1>4, Zenon DEF TypeInv
<1>6. Queued' = Queued /\ Rising(Ids(queue')) BY <1>1, <1>2, Zenon DEF Queued, OrderKept
<1>7. InHand' = InHand \ InHand /\ InHand \in SUBSET InHand BY <1>2, Zenon DEF InHand
<1>8. Flow BY <1>1, <1>2, <1>3, <1>6, <1>7, LogStep, Zenon
<1>9. dropped' \in Nat /\ dropped <= dropped' BY <1>1, <1>2 DEF TypeInv
<1>10. TypeInv' BY <1>1, <1>2, <1>4, <1>5, <1>9, Zenon DEF TypeInv
<1>11. open BY <1>1, <1>2, Zenon DEF WriterInv
<1>12. WriterInv' BY <1>2, <1>11, Zenon DEF WriterInv
<1> QED BY <1>2, <1>8, <1>9, <1>10, <1>12, Preserved, Zenon

LEMMA AnswerInv ==
  ASSUME IInv, Answer, UNCHANGED disk
  PROVE  IInv'
<1>1. TypeInv /\ WriterInv /\ OrderKept /\ CallInv BY Zenon DEF IInv
<1>2. /\ worker = "recv" /\ queue # << >> /\ Head(queue).kind \in {"flush", "shutdown"}
      /\ queue' = Tail(queue) /\ FlushWriter /\ worker' \in {"recv", "stopped"}
      /\ caller' = IF caller.at = "wait" /\ caller.id = Head(queue).id
                   THEN [caller EXCEPT !.at = IF caller.kind = "flush" THEN "done" ELSE "acked"]
                   ELSE caller
      /\ UNCHANGED <<logged, hand, shift, open, dropped, retired, calls, crashed>>
  BY Zenon DEF Answer
<1>3. queue' \in Seq(Command) /\ Queued' = Queued /\ Rising(Ids(queue'))
  BY <1>1, <1>2, ControlTaken, Zenon
<1>4. /\ Flow /\ buffer' \in Seq(Nat) /\ files' \in [Slots -> Seq(Nat)]
      /\ (~open \/ disk = "sound") => buffer' = << >>
  BY <1>1, <1>2, <1>3, FlushFlow, Zenon
<1>5. hand = 0 BY <1>1, <1>2, Zenon DEF WriterInv
<1>6. /\ caller' \in [kind : {"none", "flush", "shutdown"},
                      at : {"send", "wait", "done", "acked", "gaveup"}, id : Nat, cover : Nat]
      /\ caller'.id = caller.id /\ caller'.cover = caller.cover /\ caller'.kind = caller.kind
      /\ caller'.at = caller.at \/ caller'.at \notin {"send", "wait"}
      /\ caller' = caller \/ (caller.at = "wait" /\ caller.id = Head(queue).id)
  BY <1>1, <1>2, Zenon DEF TypeInv
<1>7. TypeInv' BY <1>1, <1>2, <1>3, <1>4, <1>6, Zenon DEF TypeInv
<1>8. WriterInv' BY <1>1, <1>2, <1>4, <1>5, Zenon DEF WriterInv
<1>9. dropped <= dropped' BY <1>1, <1>2 DEF TypeInv
<1>10. LoggedInv' /\ DropsCounted' BY <1>2, <1>4, <1>7, <1>9, DropsKept, Zenon
<1>11. CallInv' BY <1>1, <1>2, <1>6, CallsKept, Zenon
<1>12. FlushDurable'
  <2> SUFFICES ASSUME disk = "sound", Answered', NEW e \in InMemory'
               PROVE  e > caller'.cover
    BY <1>2, Zenon DEF FlushDurable
  <2>1. CASE caller' = caller
    <3>1. Answered BY <2>1, Zenon DEF Answered
    <3>2. e \in InMemory BY <1>4, Zenon DEF Flow
    <3> QED BY <2>1, <3>1, <3>2, Zenon DEF IInv, FlushDurable
  <2>2. CASE caller.at = "wait" /\ caller.id = Head(queue).id
    <3>1. e \in Queued'
      <4>1. InHand' = {} /\ EventsIn(buffer') = {} BY <1>2, <1>4, <1>5, EventsOfEmpty, Zenon DEF InHand
      <4> QED BY <4>1, Zenon DEF InMemory
    <3>2. PICK i \in DOMAIN queue' : e = Ids(queue')[i] /\ e # Newline
      BY <3>1, Zenon DEF Queued, EventsIn, Ids
    <3>3. queue'[i].kind = "event" /\ queue'[i].id = e BY <3>2, Zenon DEF Ids
    <3>4. /\ 1 \in DOMAIN queue /\ queue[1] = Head(queue)
          /\ i + 1 \in DOMAIN queue /\ queue[i + 1] = queue'[i] /\ 1 < i + 1
      <4>1. queue \in Seq(Command) BY <1>1, Zenon DEF TypeInv
      <4>2. /\ Len(queue) \in Nat /\ DOMAIN queue = 1..Len(queue) /\ Len(queue) >= 1
            /\ DOMAIN queue' = 1..(Len(queue) - 1) /\ queue[1] = Head(queue)
            /\ \A j \in 1..(Len(queue) - 1) : queue'[j] = queue[j + 1]
        BY <1>2, <4>1
      <4> QED BY <4>2
    <3>5. queue[1].kind # "event" BY <1>2, <3>4, Zenon
    <3>6. queue[i + 1].id > caller.cover BY <1>1, <2>2, <3>3, <3>4, <3>5, Zenon DEF CallInv
    <3> QED BY <1>6, <3>3, <3>4, <3>6, Zenon
  <2> QED BY <1>6, <2>1, <2>2, Zenon
<1>13. OrderKept' BY <1>4, Zenon DEF Flow
<1> QED BY <1>7, <1>8, <1>10, <1>11, <1>12, <1>13, Zenon DEF IInv

LEMMA TimeoutInv ==
  ASSUME IInv, Timeout, UNCHANGED disk
  PROVE  IInv'
<1>1. TypeInv /\ WriterInv /\ OrderKept BY DEF IInv
<1>2. /\ worker = "recv" /\ FlushWriter /\ worker' \in {"recv", "stopped"}
      /\ UNCHANGED <<logged, queue, hand, shift, open, dropped, retired, caller, calls, crashed>>
  BY Zenon DEF Timeout
<1>3. Queued' = Queued /\ Rising(Ids(queue')) BY <1>1, <1>2, Zenon DEF Queued, OrderKept
<1>4. /\ Flow /\ buffer' \in Seq(Nat) /\ files' \in [Slots -> Seq(Nat)]
      /\ (~open \/ disk = "sound") => buffer' = << >>
  BY <1>1, <1>2, <1>3, FlushFlow, Zenon
<1>5. hand = 0 BY <1>1, <1>2, Zenon DEF WriterInv
<1>6. TypeInv' BY <1>1, <1>2, <1>4, Zenon DEF TypeInv
<1>7. WriterInv' BY <1>1, <1>2, <1>4, <1>5, Zenon DEF WriterInv
<1>8. dropped <= dropped' BY <1>1, <1>2 DEF TypeInv
<1> QED BY <1>2, <1>4, <1>6, <1>7, <1>8, Preserved, Zenon

----------------------------------------------------------------------------
(* Callers, and the restart.                                               *)

(* A command joins the queue.                                              *)
LEMMA AppendFacts ==
  ASSUME NEW q \in Seq(Command), NEW c \in Command
  PROVE  LET u == Append(q, c)
         IN  \A i \in DOMAIN u : \/ i \in DOMAIN q /\ u[i] = q[i]
                                 \/ u[i] = c /\ i \notin DOMAIN q /\ \A j \in DOMAIN u : j <= i
<1> DEFINE u == Append(q, c)
<1>1. /\ Len(q) \in Nat /\ DOMAIN q = 1..Len(q) /\ DOMAIN u = 1..(Len(q) + 1)
      /\ \A i \in 1..Len(q) : u[i] = q[i]
      /\ u[Len(q) + 1] = c
  OBVIOUS
<1> HIDE DEF u
<1>2. ASSUME NEW i \in DOMAIN u
      PROVE  \/ i \in DOMAIN q /\ u[i] = q[i]
             \/ u[i] = c /\ i \notin DOMAIN q /\ \A j \in DOMAIN u : j <= i
  <2>1. CASE i \in 1..Len(q) BY <1>1, <2>1, Zenon
  <2>2. CASE i = Len(q) + 1 BY <1>1, <2>2
  <2> QED BY <1>1, <2>1, <2>2
<1> QED BY <1>2, Zenon DEF u

LEMMA EventsAreNumbers ==
  ASSUME TypeInv
  PROVE  OnDisk \cup InMemory \subseteq Nat
<1>1. Ids(queue) \in Seq(Nat) BY IdsType, Zenon DEF TypeInv
<1>2. Queued \subseteq Nat /\ EventsIn(buffer) \subseteq Nat /\ InHand \subseteq Nat
  BY <1>1, EventsType, Zenon DEF TypeInv, Queued, InHand
<1>3. \A k \in Slots : files[k] \in Seq(Nat) BY Zenon DEF TypeInv
<1>4. \A k \in Slots : EventsIn(files[k]) \subseteq Nat BY <1>3, EventsType, Zenon
<1>5. OnDisk \subseteq Nat BY <1>4, DiskParts, Zenon
<1> QED BY <1>2, <1>5, Zenon DEF InMemory

LEMMA LogInv ==
  ASSUME IInv, Log, UNCHANGED disk
  PROVE  IInv'
<1>1. /\ TypeInv /\ WriterInv /\ LoggedInv /\ CallInv /\ OrderKept
      /\ DropsCounted /\ FlushDurable
  BY Zenon DEF IInv
<1>2. /\ logged' = logged + 1
      /\ UNCHANGED <<worker, hand, shift, open, buffer, files, retired, caller, calls, crashed>>
  BY Zenon DEF Log
<1>3. /\ logged \in Nat /\ dropped \in Nat /\ queue \in Seq(Command) /\ caller.cover \in Nat
      /\ buffer \in Seq(Nat) /\ hand \in Nat
  BY <1>1, Zenon DEF TypeInv
<1>4. WriterInv' BY <1>1, <1>2, Zenon DEF WriterInv
<1>5. OnDisk' = OnDisk /\ InHand' = InHand BY <1>2, Zenon DEF OnDisk, InHand
<1>6. Answered' = Answered BY <1>2, Zenon DEF Answered
<1>7. CASE Len(queue) < QueueCapacity
  <2> DEFINE c == Event(logged + 1)
  <2>1. queue' = Append(queue, c) /\ dropped' = dropped BY <1>7, Zenon DEF Log
  <2>2. c \in Command /\ c.kind = "event" /\ c.id = logged + 1 /\ Id(c) = logged + 1
    BY <1>3 DEF Command, Event, Id
  <2> HIDE DEF c
  <2>3. queue' \in Seq(Command) /\ Ids(queue') = Append(Ids(queue), logged + 1)
    BY <1>3, <2>1, <2>2, IdsOfAppend, Zenon
  <2>4. TypeInv' BY <1>1, <1>2, <1>3, <2>1, <2>3 DEF TypeInv
  <2>5. Ids(queue) \in Seq(Nat) /\ logged + 1 \in Nat /\ {logged + 1} \ {0} = {logged + 1}
    BY <1>3, IdsType
  <2>6. Queued' = Queued \cup {logged + 1} BY <2>3, <2>5, EventsOfAppend, Zenon DEF Queued
  <2>7. InMemory' = InMemory \cup {logged + 1} BY <1>2, <1>5, <2>6, Zenon DEF InMemory
  <2>8. ASSUME NEW e \in OnDisk \cup InMemory PROVE e < logged + 1
    <3>1. e <= logged BY <1>1, Zenon DEF LoggedInv
    <3>2. e \in Nat BY <1>1, EventsAreNumbers, Zenon
    <3> QED BY <1>3, <3>1, <3>2
  <2>9. LoggedInv'
    <3>1. ASSUME NEW e \in OnDisk \cup InMemory PROVE e <= logged + 1
      <4>1. e \in Nat /\ e < logged + 1 BY <1>1, <2>8, EventsAreNumbers, Zenon
      <4> QED BY <1>3, <4>1
    <3>2. logged + 1 <= logged + 1 BY <1>3
    <3> QED BY <1>2, <1>5, <2>7, <3>1, <3>2, Zenon DEF LoggedInv
  <2>10. Precede(OnDisk \cup InMemory, {logged + 1}) BY <2>8, Zenon DEF Precede
  <2>11. OrderKept'
    <3>1. /\ Precede(OnDisk, InMemory) /\ Precede(EventsIn(buffer), InHand \cup Queued)
          /\ Precede(InHand, Queued) /\ Rising(Ids(queue)) /\ Rising(buffer)
          /\ \A k, l \in Slots : l < k => Precede(EventsIn(files[k]), EventsIn(files[l]))
          /\ \A k \in Slots : Rising(files[k])
      BY <1>1, Zenon DEF OrderKept
    <3>2. InMemory = Queued \cup InHand \cup EventsIn(buffer) BY Zenon DEF InMemory
    <3>3. Precede(OnDisk', InMemory') BY <1>5, <2>7, <2>10, <3>1, Zenon DEF Precede
    <3>4. Precede(EventsIn(buffer'), InHand' \cup Queued')
      BY <1>2, <1>5, <2>6, <2>10, <3>1, <3>2, Zenon DEF Precede
    <3>5. Precede(InHand', Queued') BY <1>5, <2>6, <2>10, <3>1, <3>2, Zenon DEF Precede
    <3>6. Precede(EventsIn(Ids(queue)), {logged + 1} \ {0})
      BY <2>10, <3>2, Zenon DEF Precede, Queued
    <3>7. Rising(Append(Ids(queue), logged + 1)) BY <2>5, <3>1, <3>6, EventsOfAppend, Zenon
    <3> QED BY <1>2, <2>3, <3>1, <3>3, <3>4, <3>5, <3>7, Zenon DEF OrderKept
  <2>12. DropsCounted'
    <3> SUFFICES ASSUME disk = "sound" PROVE Cardinality(Gone') <= dropped'
      BY Zenon DEF DropsCounted
    <3>1. Gone' = Gone BY <1>2, <1>3, <1>5, <2>7 DEF Gone
    <3> QED BY <1>1, <2>1, <3>1, Zenon DEF DropsCounted
  <2>13. FlushDurable'
    <3>1. logged + 1 > caller.cover BY <1>1, <1>3 DEF CallInv
    <3> QED BY <1>1, <1>2, <1>6, <2>7, <3>1, Zenon DEF FlushDurable
  <2>14. CallInv'
    <3>1. \A i \in DOMAIN queue' : \/ i \in DOMAIN queue /\ queue'[i] = queue[i]
                                   \/ queue'[i] = c /\ i \notin DOMAIN queue /\ \A j \in DOMAIN queue' : j <= i
      BY <1>3, <2>1, <2>2, AppendFacts, Zenon
    <3>2. /\ caller'.cover <= logged' /\ caller'.id <= calls' /\ logged + 1 > caller.cover
          /\ caller'.at \in {"send", "wait"} => caller'.kind # "none"
      <4>1. caller.cover <= logged BY <1>1, Zenon DEF CallInv
      <4>2. caller.cover <= logged + 1 /\ logged + 1 > caller.cover BY <1>3, <4>1
      <4> QED BY <1>1, <1>2, <4>2, Zenon DEF CallInv
    <3>3. \A i \in DOMAIN queue' : queue'[i].kind # "event" =>
            queue'[i].id <= calls' /\ (caller'.at = "send" => queue'[i].id < caller'.id)
      BY <1>1, <1>2, <2>2, <3>1, Zenon DEF CallInv
    <3>4. ASSUME caller'.at = "wait", NEW i \in DOMAIN queue', NEW j \in DOMAIN queue', i < j,
                 queue'[i].kind # "event", queue'[i].id = caller'.id, queue'[j].kind = "event"
          PROVE  queue'[j].id > caller'.cover
      <4>1. i \in DOMAIN queue /\ queue'[i] = queue[i] BY <2>2, <3>1, <3>4, Zenon
      <4>2. CASE queue'[j] = c BY <1>2, <2>2, <3>2, <4>2, Zenon
      <4>3. CASE j \in DOMAIN queue /\ queue'[j] = queue[j]
        BY <1>1, <1>2, <3>4, <4>1, <4>3, Zenon DEF CallInv
      <4> QED BY <3>1, <4>2, <4>3, Zenon
    <3> QED BY <3>2, <3>3, <3>4, Zenon DEF CallInv
  <2> QED BY <1>4, <2>4, <2>9, <2>11, <2>12, <2>13, <2>14, Zenon DEF IInv
<1>8. CASE ~(Len(queue) < QueueCapacity)
  <2>1. queue' = queue /\ dropped' = dropped + 1 BY <1>8, Zenon DEF Log
  <2>2. TypeInv' BY <1>1, <1>2, <1>3, <2>1 DEF TypeInv
  <2>3. InMemory' = InMemory /\ Queued' = Queued
    BY <1>2, <1>5, <2>1, Zenon DEF InMemory, Queued
  <2>4. LoggedInv'
    <3>1. \A e \in OnDisk \cup InMemory : e <= logged BY <1>1, Zenon DEF LoggedInv
    <3>2. \A e \in Nat : e <= logged => e <= logged + 1 BY <1>3
    <3>3. OnDisk \cup InMemory \subseteq Nat BY <1>1, EventsAreNumbers, Zenon
    <3> QED BY <1>2, <1>5, <2>3, <3>1, <3>2, <3>3, Zenon DEF LoggedInv
  <2>5. OrderKept' BY <1>1, <1>2, <1>5, <2>1, <2>3, Zenon DEF OrderKept
  <2>6. DropsCounted'
    <3> SUFFICES ASSUME disk = "sound" PROVE Cardinality(Gone') <= dropped'
      BY DEF DropsCounted
    <3>1. Gone' \subseteq Gone \cup {logged + 1} BY <1>2, <1>3, <1>5, <2>3 DEF Gone
    <3>2. IsFiniteSet(Gone) /\ Cardinality(Gone) \in Nat /\ Cardinality(Gone) <= dropped
      BY <1>1, <1>3, GoneFinite, Zenon DEF DropsCounted
    <3>3. /\ IsFiniteSet(Gone \cup {logged + 1})
          /\ Cardinality(Gone \cup {logged + 1}) <= Cardinality(Gone) + 1
      <4>1. /\ IsFiniteSet(Gone \cup {logged + 1})
            /\ Cardinality(Gone \cup {logged + 1}) =
                 IF logged + 1 \in Gone THEN Cardinality(Gone) ELSE Cardinality(Gone) + 1
        BY <3>2, FS_AddElement, Zenon
      <4> QED BY <3>2, <4>1
    <3>4. Cardinality(Gone \cup {logged + 1}) \in Nat BY <3>3, FS_CardinalityType, Zenon
    <3>5. Cardinality(Gone') <= Cardinality(Gone \cup {logged + 1}) /\ Cardinality(Gone') \in Nat
      BY <3>1, <3>3, FS_Subset, FS_CardinalityType, Zenon
    <3> QED BY <1>3, <2>1, <3>2, <3>3, <3>4, <3>5
  <2>7. FlushDurable' BY <1>1, <1>2, <1>6, <2>3, Zenon DEF FlushDurable
  <2>8. CallInv'
    <3>0. caller.cover <= logged BY <1>1, Zenon DEF CallInv
    <3>1. caller'.cover <= logged' BY <1>2, <1>3, <3>0
    <3> QED BY <1>1, <1>2, <2>1, <3>1, Zenon DEF CallInv
  <2> QED BY <1>4, <2>2, <2>4, <2>5, <2>6, <2>7, <2>8 DEF IInv
<1> QED BY <1>7, <1>8, Zenon

(* The thread and the files stay as they are, and no event joins the       *)
(* queue.                                                                  *)
LEMMA CallerStep ==
  ASSUME IInv, TypeInv', CallInv',
         UNCHANGED <<logged, worker, hand, shift, open, buffer, files, dropped, retired, crashed,
                     disk>>,
         Queued' = Queued, Rising(Ids(queue')), Answered' => Answered /\ caller'.cover = caller.cover
  PROVE  IInv'
<1>1. OnDisk' = OnDisk /\ InHand' = InHand BY Zenon DEF OnDisk, InHand
<1>2. InMemory' = InMemory BY <1>1, Zenon DEF InMemory
<1>3. WriterInv' BY Zenon DEF IInv, WriterInv
<1>4. LoggedInv' BY <1>1, <1>2, Zenon DEF IInv, LoggedInv
<1>5. OrderKept' BY <1>1, <1>2, Zenon DEF IInv, OrderKept
<1>6. DropsCounted'
  <2>1. Gone' = Gone BY <1>1, <1>2, Zenon DEF Gone
  <2> QED BY <2>1, Zenon DEF IInv, DropsCounted
<1>7. FlushDurable' BY <1>2, Zenon DEF IInv, FlushDurable
<1> QED BY <1>3, <1>4, <1>5, <1>6, <1>7, Zenon DEF IInv

LEMMA CallInvStep ==
  ASSUME IInv, NEW kind \in {"flush", "shutdown"}, Call(kind), UNCHANGED disk
  PROVE  IInv'
<1>1. TypeInv /\ CallInv /\ OrderKept BY Zenon DEF IInv
<1>2. /\ calls' = calls + 1
      /\ caller' = [kind |-> kind, at |-> "send", id |-> calls + 1, cover |-> logged]
      /\ UNCHANGED <<logged, queue, worker, hand, shift, open, buffer, files, dropped, retired,
                     crashed>>
  BY Zenon DEF Call, workerVars
<1>3. logged \in Nat /\ calls \in Nat /\ queue \in Seq(Command) BY <1>1, Zenon DEF TypeInv
<1>4. TypeInv' BY <1>1, <1>2, <1>3 DEF TypeInv
<1>5. CallInv'
  <2>1. /\ caller'.at = "send" /\ caller'.id = calls + 1 /\ caller'.cover = logged
        /\ caller'.kind # "none"
    BY <1>2, Zenon
  <2>2. ASSUME NEW i \in DOMAIN queue, queue[i].kind # "event"
        PROVE  queue[i].id <= calls + 1 /\ queue[i].id < calls + 1
    <3>1. queue[i].id <= calls BY <1>1, <2>2, Zenon DEF CallInv
    <3>2. queue[i] \in Command BY <1>3
    <3>3. queue[i].id \in Nat BY <3>2, Zenon DEF Command
    <3> QED BY <1>3, <3>1, <3>3
  <2> QED BY <1>2, <1>3, <2>1, <2>2 DEF CallInv
<1>6. ~Answered' BY <1>2, Zenon DEF Answered
<1>7. Queued' = Queued /\ Rising(Ids(queue')) BY <1>1, <1>2, Zenon DEF Queued, OrderKept
<1> QED BY <1>2, <1>4, <1>5, <1>6, <1>7, CallerStep

LEMMA SendControlInv ==
  ASSUME IInv, SendControl, UNCHANGED disk
  PROVE  IInv'
<1> DEFINE c == Control(caller.kind, caller.id)
<1>1. TypeInv /\ CallInv /\ OrderKept BY Zenon DEF IInv
<1>2. /\ caller.at = "send" /\ queue' = Append(queue, c) /\ caller' = [caller EXCEPT !.at = "wait"]
      /\ UNCHANGED <<logged, worker, hand, shift, open, buffer, files, dropped, retired, calls,
                     crashed>>
  BY Zenon DEF SendControl
<1>3. /\ caller.kind \in {"flush", "shutdown"} /\ caller.id \in Nat /\ caller.cover \in Nat
      /\ queue \in Seq(Command)
  BY <1>1, <1>2, Zenon DEF TypeInv, CallInv
<1>4. /\ c \in Command /\ c.kind # "event" /\ c.id = caller.id /\ Id(c) = 0
  BY <1>3, Zenon DEF Command, Control, Id, Newline
<1> HIDE DEF c
<1>5. queue' \in Seq(Command) /\ Ids(queue') = Append(Ids(queue), 0)
  BY <1>2, <1>3, <1>4, IdsOfAppend, Zenon
<1>6. Queued' = Queued /\ Rising(Ids(queue'))
  <2>1. Ids(queue) \in Seq(Nat) /\ Rising(Ids(queue)) /\ {0} \ {0} = {}
    BY <1>1, <1>3, IdsType, Zenon DEF OrderKept
  <2>2. Precede(EventsIn(Ids(queue)), {0} \ {0}) BY <2>1, Zenon DEF Precede
  <2>3. /\ EventsIn(Append(Ids(queue), 0)) = EventsIn(Ids(queue)) \cup ({0} \ {0})
        /\ Rising(Append(Ids(queue), 0))
    BY <2>1, <2>2, EventsOfAppend, Zenon
  <2> QED BY <1>5, <2>1, <2>3, Zenon DEF Queued
<1>7. /\ caller' \in [kind : {"none", "flush", "shutdown"},
                      at : {"send", "wait", "done", "acked", "gaveup"}, id : Nat, cover : Nat]
      /\ caller'.at = "wait" /\ caller'.id = caller.id /\ caller'.cover = caller.cover
      /\ caller'.kind = caller.kind
  BY <1>1, <1>2, Zenon DEF TypeInv
<1>8. TypeInv' BY <1>1, <1>2, <1>5, <1>7, Zenon DEF TypeInv
<1>9. CallInv'
  <2>1. \A i \in DOMAIN queue' : \/ i \in DOMAIN queue /\ queue'[i] = queue[i]
                                 \/ queue'[i] = c /\ \A j \in DOMAIN queue' : j <= i
    BY <1>2, <1>3, <1>4, AppendFacts, Zenon
  <2>2. /\ caller'.cover <= logged' /\ caller'.id <= calls'
        /\ caller'.at \in {"send", "wait"} => caller'.kind # "none"
    BY <1>1, <1>2, <1>3, <1>7, Zenon DEF CallInv
  <2>3. \A i \in DOMAIN queue' : queue'[i].kind # "event" =>
          queue'[i].id <= calls' /\ (caller'.at = "send" => queue'[i].id < caller'.id)
    BY <1>1, <1>2, <1>4, <1>7, <2>1, Zenon DEF CallInv
  <2>4. ASSUME NEW i \in DOMAIN queue', NEW j \in DOMAIN queue', i < j,
               queue'[i].kind # "event", queue'[i].id = caller'.id
        PROVE  FALSE
    <3>1. CASE i \in DOMAIN queue /\ queue'[i] = queue[i]
      <4>1. queue[i].id < caller.id BY <1>1, <1>2, <2>4, <3>1, Zenon DEF CallInv
      <4> QED BY <1>3, <1>7, <2>4, <3>1, <4>1
    <3>2. CASE \A k \in DOMAIN queue' : k <= i
      <4>1. j <= i /\ i \in Nat /\ j \in Nat BY <1>5, <3>2
      <4> QED BY <2>4, <4>1
    <3> QED BY <2>1, <3>1, <3>2, Zenon
  <2> QED BY <2>2, <2>3, <2>4, Zenon DEF CallInv
<1>10. ~Answered' BY <1>7, Zenon DEF Answered
<1> QED BY <1>2, <1>6, <1>8, <1>9, <1>10, CallerStep, Zenon

LEMMA GiveUpInv ==
  ASSUME IInv, GiveUp, UNCHANGED disk
  PROVE  IInv'
<1>1. TypeInv /\ CallInv /\ OrderKept BY DEF IInv
<1>2. /\ caller.at \in {"send", "wait"}
      /\ caller' = IF caller.kind = "flush" THEN NoCaller ELSE [caller EXCEPT !.at = "gaveup"]
      /\ UNCHANGED <<logged, queue, worker, hand, shift, open, buffer, files, dropped, retired,
                     calls, crashed>>
  BY Zenon DEF GiveUp, workerVars
<1>3. /\ caller' \in [kind : {"none", "flush", "shutdown"},
                      at : {"send", "wait", "done", "acked", "gaveup"}, id : Nat, cover : Nat]
      /\ caller'.at \in {"done", "gaveup"}
      /\ caller'.id = caller.id \/ caller'.id = 0
      /\ caller'.cover = caller.cover \/ caller'.cover = 0
      /\ caller'.at = "done" => caller'.kind = "none"
  BY <1>1, <1>2, Zenon DEF TypeInv, NoCaller
<1>4. TypeInv' BY <1>1, <1>2, <1>3, Zenon DEF TypeInv
<1>5. CallInv'
  <2>1. logged \in Nat /\ calls \in Nat BY <1>1, Zenon DEF TypeInv
  <2>2. caller'.cover <= logged /\ caller'.id <= calls BY <1>1, <1>3, <2>1 DEF CallInv
  <2> QED BY <1>1, <1>2, <1>3, <2>2, Zenon DEF CallInv
<1>6. ~Answered' BY <1>3, Zenon DEF Answered
<1>7. Queued' = Queued /\ Rising(Ids(queue')) BY <1>1, <1>2, Zenon DEF Queued, OrderKept
<1> QED BY <1>2, <1>4, <1>5, <1>6, <1>7, CallerStep, Zenon

LEMMA NoIds == Ids(<< >>) = << >>
BY DEF Ids

LEMMA RestartInv ==
  ASSUME IInv, Restart, UNCHANGED disk
  PROVE  IInv'
<1>1. TypeInv /\ CallInv /\ OrderKept /\ LoggedInv BY Zenon DEF IInv
<1>2. /\ crashed' = (1..logged) \ (OnDisk \cup retired)
      /\ queue' = << >> /\ buffer' = << >> /\ hand' = 0 /\ shift' = 0
      /\ worker' = "recv" /\ open' = TRUE /\ dropped' = 0 /\ caller' = NoCaller
      /\ UNCHANGED <<logged, files, calls, retired>>
  BY Zenon DEF Restart
<1>3. Queued' = {} /\ InHand' = {} /\ InMemory' = {} /\ Rising(Ids(queue'))
  <2>1. Queued' = {} /\ InHand' = {} /\ EventsIn(buffer') = {}
    BY <1>2, NoIds, EventsOfEmpty, Zenon DEF Queued, InHand
  <2> QED BY <1>2, <2>1, NoIds, EventsOfEmpty, Zenon DEF InMemory
<1>4. OnDisk' = OnDisk BY <1>2, Zenon DEF OnDisk
<1>5. TypeInv' BY <1>1, <1>2 DEF TypeInv, NoCaller
<1>6. WriterInv' BY <1>2, Zenon DEF WriterInv
<1>7. LoggedInv' BY <1>1, <1>2, <1>3, <1>4, Zenon DEF LoggedInv
<1>8. CallInv'
  <2>1. /\ caller'.kind = "none" /\ caller'.at = "done" /\ caller'.id = 0 /\ caller'.cover = 0
        /\ DOMAIN queue' = {} /\ logged' \in Nat /\ calls' \in Nat
    BY <1>1, <1>2 DEF NoCaller, TypeInv
  <2> QED BY <2>1 DEF CallInv
<1>9. OrderKept'
  <2>1. /\ \A k, l \in Slots : l < k => Precede(EventsIn(files[k]), EventsIn(files[l]))
        /\ \A k \in Slots : Rising(files[k])
    BY <1>1, Zenon DEF OrderKept
  <2>2. EventsIn(buffer') = {} /\ Rising(buffer') BY <1>2, EventsOfEmpty, Zenon
  <2> QED BY <1>2, <1>3, <2>1, <2>2, Zenon DEF OrderKept, Precede
<1>10. DropsCounted'
  <2>1. Gone' = {} BY <1>2, <1>3, <1>4, Zenon DEF Gone
  <2>2. Cardinality({}) = 0 BY FS_EmptySet, Zenon
  <2> QED BY <1>2, <2>1, <2>2 DEF DropsCounted
<1>11. FlushDurable' BY <1>3, Zenon DEF FlushDurable
<1> QED BY <1>5, <1>6, <1>7, <1>8, <1>9, <1>10, <1>11, Zenon DEF IInv

----------------------------------------------------------------------------
LEMMA InitInv == Init => IInv
<1> SUFFICES ASSUME Init PROVE IInv
  BY Zenon
<1>1. /\ logged = 0 /\ queue = << >> /\ worker = "recv" /\ hand = 0 /\ shift = 0 /\ open = TRUE
      /\ buffer = << >> /\ files = [k \in Slots |-> << >>] /\ dropped = 0
      /\ caller = NoCaller /\ calls = 0 /\ disk \in {"sound", "faulty"}
  BY Zenon DEF Init
<1>2. Queued = {} /\ InHand = {} /\ EventsIn(buffer) = {} /\ Rising(Ids(queue)) /\ Rising(buffer)
  BY <1>1, NoIds, EventsOfEmpty, Zenon DEF Queued, InHand
<1>3. InMemory = {} BY <1>2, Zenon DEF InMemory
<1>4. \A k \in Slots : files[k] = << >> BY <1>1, Zenon
<1>5. OnDisk = {} BY <1>4, EventsOfEmpty, DiskParts, Zenon
<1>6. TypeInv BY <1>1 DEF TypeInv, NoCaller
<1>7. WriterInv BY <1>1, Zenon DEF WriterInv
<1>8. LoggedInv BY <1>3, <1>5, Zenon DEF LoggedInv
<1>9. CallInv
  <2>1. /\ caller.kind = "none" /\ caller.at = "done" /\ caller.id = 0 /\ caller.cover = 0
        /\ DOMAIN queue = {}
    BY <1>1 DEF NoCaller
  <2> QED BY <1>1, <2>1 DEF CallInv
<1>10. OrderKept
  <2>1. \A k \in Slots : EventsIn(files[k]) = {} /\ Rising(files[k]) BY <1>4, EventsOfEmpty, Zenon
  <2> QED BY <1>2, <1>3, <2>1, Zenon DEF OrderKept, Precede
<1>11. DropsCounted
  <2>1. Gone = {} BY <1>1 DEF Gone
  <2>2. Cardinality({}) = 0 BY FS_EmptySet, Zenon
  <2> QED BY <1>1, <2>1, <2>2 DEF DropsCounted
<1>12. FlushDurable BY <1>3, Zenon DEF FlushDurable
<1> QED BY <1>6, <1>7, <1>8, <1>9, <1>10, <1>11, <1>12 DEF IInv

LEMMA NextInv == IInv /\ [Next]_vars => IInv'
<1> SUFFICES ASSUME IInv, [Next]_vars PROVE IInv'
  BY Zenon
<1>1. CASE Writer
  <2>1. UNCHANGED disk BY <1>1, Zenon DEF Writer
  <2>2. \/ TakeEvent \/ RotateFlush \/ RotateRemove \/ RotateRename \/ RotateOpen
        \/ WriteEvent \/ Answer \/ Timeout
    BY <1>1, Zenon DEF Writer
  <2> QED BY <2>1, <2>2, Zenon, TakeEventInv, RotateFlushInv, RotateRemoveInv, RotateRenameInv,
             RotateOpenInv, WriteEventInv, AnswerInv, TimeoutInv
<1>2. CASE /\ \/ Log
              \/ \E kind \in {"flush", "shutdown"} : Call(kind)
              \/ SendControl
              \/ GiveUp
              \/ Restart
           /\ UNCHANGED disk
  BY <1>2, Zenon, LogInv, CallInvStep, SendControlInv, GiveUpInv, RestartInv
<1>3. CASE UNCHANGED vars
  <2>1. /\ UNCHANGED <<logged, queue, worker, hand, shift, open, buffer, files, dropped, retired>>
        /\ UNCHANGED <<caller, calls, crashed, disk>>
    BY <1>3, Zenon DEF vars, workerVars
  <2>2. TypeInv /\ WriterInv /\ OrderKept /\ dropped \in Nat BY Zenon DEF IInv, TypeInv
  <2>3. Flow BY <2>1, <2>2, SameFlow, Zenon
  <2>4. TypeInv' /\ WriterInv' BY <2>1, <2>2 DEF TypeInv, WriterInv
  <2>5. dropped <= dropped' BY <2>1, <2>2
  <2> QED BY <2>1, <2>3, <2>4, <2>5, Preserved, Zenon
<1> QED BY <1>1, <1>2, <1>3, Zenon DEF Next

----------------------------------------------------------------------------
(* The writer thread has an event in hand only inside write_event, renames *)
(* only onto vacant names, and finds behind a command that waits to be     *)
(* answered nothing that was logged before it, at every step.              *)
THEOREM EventLogInvariant == Spec => []IInv
<1> QED BY InitInv, NextInv, PTL DEF Spec

(* However rotate fails or a crash cuts it short, the events in backups,   *)
(* log, buffer and queue are in the order of the log calls, none twice.    *)
THEOREM OrderKeptHolds == Spec => []OrderKept
<1>1. IInv => OrderKept BY Zenon DEF IInv
<1> QED BY <1>1, EventLogInvariant, PTL

(* On a sound disk dropped_events counts every event that is lost, for any *)
(* capacity of the queue and any size and number of the files.             *)
THEOREM DropsCountedHolds == Spec => []DropsCounted
<1>1. IInv => DropsCounted BY Zenon DEF IInv
<1> QED BY <1>1, EventLogInvariant, PTL

(* On a sound disk a flush or shutdown that is answered has written every  *)
(* event logged before the call.                                           *)
THEOREM FlushDurableHolds == Spec => []FlushDurable
<1>1. IInv => FlushDurable BY Zenon DEF IInv
<1> QED BY <1>1, EventLogInvariant, PTL
=============================================================================
