------------------------------- MODULE Recovery -------------------------------
(***************************************************************************)
(* What a session directory and its container say about each other, and    *)
(* what recovery does about it (src/src/recover.rs).  Pure definitions: no *)
(* variables.                                                              *)
(*                                                                         *)
(* A Version stands for the bytes of a content file, and for the CRC-32    *)
(* taken of them: two versions are equal when their CRCs are.  It says who *)
(* wrote the bytes:                                                        *)
(*   packed  the bytes the container was made with                         *)
(*   half    what is on disk while an application writes its n-th save     *)
(*           over the content file in place                                *)
(*   app     the application's n-th save, whole                            *)
(*   other   the n-th rewriting of the container by another program        *)
(***************************************************************************)
EXTENDS Naturals

Version  == [by : {"packed", "half", "app", "other"}, n : Nat]
Original == [by |-> "packed", n |-> 0]

\* Absences, in the shape of a version so that one set types every field.
Nothing  == [by |-> "nothing", n |-> 0]   \* no content file
NoDir    == [by |-> "nodir",   n |-> 0]   \* no session directory
Torn     == [by |-> "torn",    n |-> 0]   \* a session.toml that does not parse
Unknown  == [by |-> "unknown", n |-> 0]   \* Record::agreed is None

File   == Version \cup {Nothing}
Agreed == Version \cup {Unknown}
Record == Agreed \cup {NoDir, Torn}

\* The name session.toml records, and the one other name a file found at the
\* recorded path can give its content.
Recorded == "recorded"
Names    == {Recorded, "another"}

\* What is at the path the session recorded.
Container == [at : {"container", "gone", "unreadable"}, name : Names, holds : Version]

-----------------------------------------------------------------------------
\* Mutant: a difference is taken for the session's own edit.
StateWithoutAgreement(file, c, agreed) ==
    CASE file = Nothing                                   -> "NothingExtracted"
      [] file # Nothing /\ c.at = "gone"                  -> "ContainerGone"
      [] file # Nothing /\ c.at = "unreadable"            -> "Unreadable"
      [] file # Nothing /\ c.at = "container" /\ c.name # Recorded
                                                          -> "ContainerChanged"
      [] OTHER -> IF file = c.holds THEN "Unchanged" ELSE "Edited"

\* recover::state: the content file, then the container, then its content
\* name, then the two CRCs, and only then which of the two sides moved.
State(file, c, agreed) ==
    CASE file = Nothing                                   -> "NothingExtracted"
      [] file # Nothing /\ c.at = "gone"                  -> "ContainerGone"
      [] file # Nothing /\ c.at = "unreadable"            -> "Unreadable"
      [] file # Nothing /\ c.at = "container" /\ c.name # Recorded
                                                          -> "ContainerChanged"
      [] OTHER -> IF file = c.holds   THEN "Unchanged"
             ELSE IF agreed = c.holds THEN "Edited"
                                      ELSE "Diverged"

States == {"NothingExtracted", "ContainerGone", "Unreadable", "ContainerChanged",
           "Unchanged", "Edited", "Diverged"}

\* Mutant: whatever nobody has to be asked about is swept.
CourseByNegation(state) ==
    IF state \in {"Diverged", "ContainerGone", "ContainerChanged", "Unreadable"}
    THEN "Ask" ELSE "Sweep"

\* State::course, and the two predicates the callers ask.
Course(state) ==
    IF state \in {"NothingExtracted", "Unchanged"} THEN "Sweep"
    ELSE IF state = "Edited" THEN "WriteBack" ELSE "Ask"

IsQuiet(state) == Course(state) = "Sweep"
===============================================================================
