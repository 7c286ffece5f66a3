----------------------------- MODULE MCAnalyzer -----------------------------
(* An instance of Analyzer for TLC.                                        *)
EXTENDS Analyzer

CONSTANTS s1, s2, p1, c1, c2, x

(* Two signatures of one path shape.                                       *)
OneShape == [s \in Signatures |-> p1]

(* Every learned filter has a name of its own.                             *)
OwnNames == [on \in Conditions |-> on]

(* The provider answers nothing; or a signature and a rule of its own      *)
(* under one id, of which the second is renamed; or two rules of its own   *)
(* under one id, as rules sent without an id are.                          *)
SomeAnswers ==
  LET f(on) == [on |-> on, id |-> <<x>>]
  IN  {<< >>, <<f(s1), f(c1)>>, <<f(c1), f(c2)>>}
=============================================================================
