------------------------------ MODULE MCCuration ------------------------------
(***************************************************************************)
(* Instances of Curation for TLC.                                          *)
(***************************************************************************)
EXTENDS Curation, TLC

OneSession  == [c \in Clients |-> 1]
OwnSessions == [c \in Clients |-> c]

\* "B" and "b" are one name in two cases.
TwoCases == ("a" :> "a") @@ ("c" :> "c") @@ ("b" :> "b") @@ ("B" :> "b")

Present     == [collection |-> Nothing, available |-> TRUE]
InOne       == [collection |-> 1, available |-> FALSE]
SomeQueries == {Present, InOne}

NameOfOne   == 1 :> "a"
NamesOfBoth == (1 :> "a") @@ (2 :> "b")
=============================================================================
