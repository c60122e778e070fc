-------------------------------- MODULE Custody --------------------------------
(***************************************************************************)
(* What a session promises about the edit made in it, and all that it      *)
(* promises: an edit that is in the session directory and in no container  *)
(* stays there until it lands in one, unless its own application saves     *)
(* over it, a person asks for it to go, nobody has looked at it yet, or it *)
(* was refused and then the session was closed.                            *)
(*                                                                         *)
(* SessionLife implements this.                                            *)
(*                                                                         *)
(* Sources: src/src/flow.rs, writeback.rs and session.rs for the promises  *)
(* their comments make.                                                    *)
(***************************************************************************)
CONSTANTS
    Edits,      \* the saves an application can make
    None        \* no edit, which is none of them

VARIABLES
    edit,       \* the edit that is only in the session directory, or None
    landed,     \* the edits that have been put in a container
    looked,     \* that edit has been compared with the container
    refused,    \* it has been refused by a write-back
    leave,      \* what the tool may do with it: keep it, close, do as it was asked
    saving      \* the application is part way through a save

custodyVars == <<edit, landed, looked, refused, leave, saving>>

Leaves == {"keeping", "closing", "asked"}

Init ==
    /\ edit = None /\ landed = {}
    /\ looked = FALSE /\ refused = FALSE /\ leave = "keeping" /\ saving = FALSE

\* The application begins to save, over the edit it saved before or beside it,
\* or it finishes, with a new edit or with what has landed already.  Nobody else
\* takes an edit this way.
Save ==
    /\ saving' = ~saving
    /\ \/ UNCHANGED <<edit, looked, refused>>
       \/ /\ edit' \in {None} \cup (IF saving THEN Edits \ landed ELSE {})
          /\ looked' = FALSE /\ refused' = FALSE
    /\ UNCHANGED <<landed, leave>>

\* A pump, a close or a recovery compares.
Look ==
    /\ edit # None /\ looked' = TRUE
    /\ leave' \in Leaves
    /\ UNCHANGED <<edit, landed, refused, saving>>

\* A write-back fails.
Refuse ==
    /\ edit # None /\ refused' = TRUE
    /\ leave' \in Leaves
    /\ UNCHANGED <<edit, landed, looked, saving>>

\* A write-back lands, of this edit or of an earlier one it had begun to read.
\* What has landed once has landed.
Land ==
    /\ landed \subseteq landed' /\ landed' \subseteq Edits
    /\ edit' = IF edit \in landed' THEN None ELSE edit
    /\ looked' = (looked /\ edit' # None) /\ refused' = (refused /\ edit' # None)
    /\ UNCHANGED <<leave, saving>>

\* The directory goes, or something is written over the edit.
MayGo == leave = "asked" \/ ~looked \/ (leave = "closing" /\ refused)
Drop ==
    /\ edit # None /\ MayGo
    /\ edit' = None /\ looked' = FALSE /\ refused' = FALSE
    /\ leave' \in Leaves
    /\ UNCHANGED <<landed, saving>>

\* The tool turns to something else.
TurnTo == leave' \in Leaves /\ UNCHANGED <<edit, landed, looked, refused, saving>>

Next == Save \/ Look \/ Refuse \/ Land \/ Drop \/ TurnTo

Spec == Init /\ [][Next]_custodyVars
===============================================================================
