-------------------------------- MODULE Present --------------------------------
(***************************************************************************)
(* What the instance and a person say to each other: choices and answers,  *)
(* troubles and the colour each is worth, and what a standing list shows.  *)
(* A session stands for the container it is of as well, so that a trouble  *)
(* about either has one name.                                              *)
(*                                                                         *)
(* Sources: src/src/present/mod.rs, and resident.rs for the troubles.      *)
(***************************************************************************)
EXTENDS Naturals, Sequences, FiniteSets

CONSTANT Sessions   \* as many as somebody has opened

ASSUME SessionsAssumption == IsFiniteSet(Sessions)

\* Choice, by the keys it travels under.
Keys == {"write-back", "discard", "reveal"}
Answer == [about : Sessions, choice : Keys]

Kinds == {"content", "writeback", "recover", "open"}
Trouble == [kind : Kinds, of : Sessions]

\* Mood, in its order.
Moods == {"Settled", "Working", "Look", "AtRisk", "Danger"}
Rank == [m \in Moods |-> CASE m = "Settled" -> 0 [] m = "Working" -> 1
                           [] m = "Look" -> 2 [] m = "AtRisk" -> 3 [] m = "Danger" -> 4]
Worst(moods) == CHOOSE m \in moods : \A k \in moods : Rank[k] <= Rank[m]

\* What each call of Resident::note gives its trouble.
Severity(kind) == CASE kind = "content" -> "Danger"
                    [] kind \in {"writeback", "recover"} -> "AtRisk"
                    [] kind = "open" -> "Look"

\* A standing list is shown what is open or waiting, what is wrong, and a mood.
Shown == [lines : SUBSET Sessions, troubles : Seq(Trouble), mood : Moods]
Nothing == [lines |-> {}, troubles |-> <<>>, mood |-> "Settled"]

\* Chosen: a trouble is put down, or the person leaves.
PutDown(trouble) == [choice |-> "dismiss", of |-> trouble]
Quit == [choice |-> "quit"]
===============================================================================
