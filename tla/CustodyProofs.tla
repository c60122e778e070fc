------------------------------ MODULE CustodyProofs ------------------------------
(***************************************************************************)
(* That a session keeps the promise of Custody: every step of SessionLife  *)
(* is a step of it, or changes nothing it sees.                            *)
(***************************************************************************)
EXTENDS SessionLifeProofs

\* What the abstract specification may expect is always one of its three.
LEMMA Prospects == Prospect \in Promise!Leaves /\ Prospect' \in Promise!Leaves
BY DEF Prospect, Promise!Leaves

\* An edit is never an absence.
LEMMA EditsAreThere == Unsaved => content # Nothing
BY DEF Unsaved, Nothing

\* A step that leaves the content file, what has landed and what is known of
\* the two alone only turns to something else.
LEMMA Turning ==
    ASSUME UNCHANGED <<content, landed, examined, refused>>, Saving' = Saving
    PROVE  Promise!TurnTo
<1>1. Unsaved' = Unsaved
  BY DEF Unsaved
<1>2. /\ Outstanding' = Outstanding /\ Delivered' = Delivered
      /\ Compared' = Compared /\ Declined' = Declined
  BY <1>1 DEF Outstanding, Delivered, Compared, Declined
<1> QED
  BY <1>2, Prospects DEF Promise!TurnTo

\* So does one that changes only what is known, where there is no edit to know
\* it of; where there is one, that is a comparison or a refusal.
LEMMA Knowing ==
    ASSUME UNCHANGED <<content, landed>>, Saving' = Saving,
           \/ examined' = TRUE /\ refused' = refused
           \/ refused' = TRUE /\ examined' = examined,
           {examined, refused} \subseteq BOOLEAN
    PROVE  Promise!Next
<1>1. Unsaved' = Unsaved /\ Outstanding' = Outstanding /\ Delivered' = Delivered
  BY DEF Unsaved, Outstanding, Delivered
<1>2. CASE ~Unsaved
  <2>1. Compared' = Compared /\ Declined' = Declined
    BY <1>1, <1>2 DEF Compared, Declined
  <2> QED
    BY <1>1, <2>1, Prospects DEF Promise!Next, Promise!TurnTo
<1>3. CASE Unsaved
  <2>1. Outstanding # Nothing
    BY <1>3, EditsAreThere DEF Outstanding
  <2>2. CASE examined' = TRUE /\ refused' = refused
    <3>1. Compared' = TRUE /\ Declined' = Declined
      BY <1>1, <1>3, <2>2 DEF Compared, Declined
    <3> QED
      BY <1>1, <2>1, <3>1, Prospects DEF Promise!Next, Promise!Look
  <2>3. CASE refused' = TRUE /\ examined' = examined
    <3>1. Declined' = TRUE /\ Compared' = Compared
      BY <1>1, <1>3, <2>3 DEF Compared, Declined
    <3> QED
      BY <1>1, <2>1, <3>1, Prospects DEF Promise!Next, Promise!Refuse
  <2> QED
    BY <2>2, <2>3
<1> QED
  BY <1>2, <1>3

\* The content file may change into something that is no edit, or is one that
\* has landed, where there was no edit to lose or it may go.
LEMMA Going ==
    ASSUME ~Unsaved', landed' = landed, Saving' = Saving, Unsaved => Promise!MayGo
    PROVE  Promise!Next
<1>1. Outstanding' = Nothing /\ Delivered' = Delivered /\ ~Compared' /\ ~Declined'
  BY DEF Outstanding, Delivered, Compared, Declined
<1>2. CASE Unsaved
  <2>1. Outstanding # Nothing
    BY <1>2, EditsAreThere DEF Outstanding
  <2> QED
    BY <1>1, <1>2, <2>1, Prospects DEF Promise!Next, Promise!Drop, Compared, Declined
<1>3. CASE ~Unsaved
  <2>1. Outstanding = Nothing /\ Compared = FALSE /\ Declined = FALSE
    BY <1>3 DEF Outstanding, Compared, Declined
  <2> QED
    BY <1>1, <2>1, Prospects DEF Promise!Next, Promise!TurnTo, Compared, Declined
<1> QED
  BY <1>2, <1>3

\* The application begins to save, beside the edit, or over it with something
\* that is not yet one.
LEMMA Beginning ==
    ASSUME UNCHANGED <<landed, task>>, ~Saving, Saving',
           \/ UNCHANGED <<content, examined, refused>>
           \/ content'.by # "app" /\ ~examined' /\ ~refused'
    PROVE  Promise!Save
<1>1. Delivered' = Delivered /\ Prospect' = Prospect
  BY DEF Delivered, Prospect
<1>2. CASE UNCHANGED <<content, examined, refused>>
  <2>1. Outstanding' = Outstanding /\ Compared' = Compared /\ Declined' = Declined
    BY <1>2 DEF Outstanding, Compared, Declined, Unsaved
  <2> QED
    BY <1>1, <2>1 DEF Promise!Save, Saving
<1>3. CASE content'.by # "app" /\ ~examined' /\ ~refused'
  <2>1. Outstanding' = Nothing /\ Compared' = FALSE /\ Declined' = FALSE
    BY <1>3 DEF Outstanding, Compared, Declined, Unsaved
  <2> QED
    BY <1>1, <2>1 DEF Promise!Save, Saving
<1> QED
  BY <1>2, <1>3

\* It finishes, with what may be an edit or have landed, or with nowhere to put it.
LEMMA Finishing ==
    ASSUME UNCHANGED <<landed, task>>, Saving, ~Saving',
           \/ UNCHANGED <<content, examined, refused>>
           \/ content' \in File /\ ~examined' /\ ~refused'
    PROVE  Promise!Save
<1>1. Delivered' = Delivered /\ Prospect' = Prospect
  BY DEF Delivered, Prospect
<1>2. CASE UNCHANGED <<content, examined, refused>>
  <2>1. Outstanding' = Outstanding /\ Compared' = Compared /\ Declined' = Declined
    BY <1>2 DEF Outstanding, Compared, Declined, Unsaved
  <2> QED
    BY <1>1, <2>1 DEF Promise!Save, Saving
<1>3. CASE content' \in File /\ ~examined' /\ ~refused'
  <2>1. Compared' = FALSE /\ Declined' = FALSE
    BY <1>3 DEF Compared, Declined
  <2>2. Outstanding' \in {Nothing} \cup (AppVersion \ Delivered)
    <3>1. CASE ~Unsaved'
      BY <3>1 DEF Outstanding
    <3>2. CASE Unsaved'
      <4>1. content' \in Version
        BY <1>3, <3>2, EditsAreThere DEF Unsaved, File, Nothing
      <4> QED
        BY <3>2, <4>1 DEF Outstanding, AppVersion, Delivered, Unsaved
    <3> QED
      BY <3>1, <3>2
  <2> QED
    BY <1>1, <2>1, <2>2 DEF Promise!Save, Saving
<1> QED
  BY <1>2, <1>3

\* The initial state is one of the abstract specification's.
LEMMA CustodyInit == Init => Promise!Init
BY DEF Init, Promise!Init, Outstanding, Delivered, Compared, Declined, Prospect,
       Unsaved, Nothing, Asked, Saving

\* A write-back puts what it took in the container: an edit lands, or what went
\* there was none.
LEMMA Landing == IndInv /\ Commit => Promise!Next
<1> SUFFICES ASSUME IndInv, Commit
             PROVE  Promise!Next
  OBVIOUS
<1>1. UNCHANGED <<content, examined, refused>> /\ landed' = landed \cup {taken}
  BY DEF Commit
<1>2. landed \subseteq Version /\ {examined, refused} \subseteq BOOLEAN
  BY DEF IndInv, TypeOK, Flags
<1>3. taken \in Version
  BY DEF Commit, IndInv, TypeOK, StepsMatch, File
<1>4. Delivered \subseteq Delivered' /\ Delivered' \subseteq AppVersion
  BY <1>1 DEF Delivered
<1>5. Unsaved' <=> Unsaved /\ content # taken
  BY <1>1 DEF Unsaved
<1>6. Outstanding' = IF Outstanding \in Delivered' THEN Nothing ELSE Outstanding
  <2>1. CASE Unsaved /\ content # taken
    <3>1. Outstanding' = content /\ Outstanding = content
      BY <1>1, <1>5, <2>1 DEF Outstanding
    <3>2. content \notin Delivered'
      BY <1>1, <2>1 DEF Delivered, Unsaved
    <3> QED
      BY <3>1, <3>2
  <2>2. CASE Unsaved /\ content = taken
    <3>1. Outstanding' = Nothing /\ Outstanding = content
      BY <1>1, <1>5, <2>2 DEF Outstanding
    <3>2. content \in Delivered'
      BY <1>1, <1>3, <2>2 DEF Delivered, Unsaved, AppVersion
    <3> QED
      BY <3>1, <3>2
  <2>3. CASE ~Unsaved
    BY <1>5, <2>3 DEF Outstanding
  <2> QED
    BY <2>1, <2>2, <2>3
<1>7. (Outstanding' # Nothing) <=> Unsaved'
  BY <1>1, EditsAreThere, <1>5 DEF Outstanding
<1>8. Compared' = (Compared /\ Outstanding' # Nothing) /\ Declined' = (Declined /\ Outstanding' # Nothing)
  BY <1>1, <1>5, <1>7, <1>2 DEF Compared, Declined
<1>9. Prospect' = Prospect /\ Saving' = Saving
  BY DEF Commit, Go, Prospect, Saving, editor
<1> QED
  BY <1>4, <1>6, <1>8, <1>9 DEF Promise!Next, Promise!Land

\* Every step of a session is one the promise allows, or nothing to it.
LEMMA CustodyStep == IndInv /\ [Next]_vars => Promise!Next
<1> SUFFICES ASSUME IndInv, [Next]_vars
             PROVE  Promise!Next
  OBVIOUS
<1>t. UNCHANGED <<content, landed, examined, refused>> /\ Saving' = Saving => Promise!Next
  BY Turning DEF Promise!Next
<1>b. {examined, refused} \subseteq BOOLEAN
  BY DEF IndInv, TypeOK, Flags
<1>1. CASE Create
  BY <1>1, <1>t DEF Create, editor, Saving
<1>2. CASE AgreeOnExtraction
  BY <1>2, <1>t DEF AgreeOnExtraction, history, editor, Saving
<1>3. CASE Launch
  BY <1>3, <1>t DEF Launch, history, Saving, IndInv, StepsMatch
<1>4. CASE Check
  BY <1>4, <1>t DEF Check, disk, history, editor, Saving
<1>5. CASE Repack
  BY <1>5, <1>t DEF Repack, disk, history, editor, Saving
<1>6. CASE ReadBack
  BY <1>6, <1>t DEF ReadBack, editor, Saving
<1>7. CASE Count
  BY <1>7, <1>t DEF Count, history, editor, Saving
<1>8. CASE Siblings
  BY <1>8, <1>t DEF Siblings, disk, history, editor, Saving
<1>9. CASE RemoveFails
  BY <1>9, <1>t DEF RemoveFails, disk, history, editor, Saving
<1>10. CASE Close
  BY <1>10, <1>t DEF Close, Finish, disk, history, editor, Saving
<1>11. CASE Quit
  BY <1>11, <1>t DEF Quit, Finish, disk, history, editor, Saving
<1>12. CASE Reopen
  BY <1>12, <1>t DEF Reopen, disk, history, editor, Saving
<1>13. CASE AnswerWriteBack
  BY <1>13, <1>t DEF AnswerWriteBack, disk, history, editor, Saving
<1>14. CASE AnswerDiscard
  BY <1>14, <1>t DEF AnswerDiscard, disk, history, editor, Saving
<1>15. CASE Command
  BY <1>15, <1>t DEF Command, disk, history, editor, Saving
<1>16. CASE Pump
  BY <1>16, <1>t DEF Pump, disk, history, editor, Saving
<1>17. CASE NoticeLingering
  BY <1>17, <1>t DEF NoticeLingering, disk, history, editor, Saving
<1>18. CASE Settled
  BY <1>18, <1>t DEF Settled, disk, history, editor, Saving
<1>19. CASE LetGo
  BY <1>19, <1>t DEF LetGo, disk, history, editor, Saving
<1>20. CASE Exit
  BY <1>20, <1>t DEF Exit, disk, history, editor, Saving
<1>21. CASE Start
  BY <1>21, <1>t DEF Start, disk, history, editor, Saving
<1>22. CASE Crash
  BY <1>22, <1>t DEF Crash, history, editor, Saving
<1>22a. CASE CommandDies
  BY <1>22a, <1>t DEF CommandDies, history, editor, Saving
<1>23. CASE Leave
  BY <1>23, <1>t DEF Leave, history, Saving
<1>24. CASE Deliver
  BY <1>24, <1>t DEF Deliver, disk, history, editor, Saving
<1>25. CASE LoseEvent
  BY <1>25, <1>t DEF LoseEvent, disk, history, editor, Saving
<1>26. CASE OtherWrites
  BY <1>26, <1>t DEF OtherWrites, history, editor, Saving
<1>27. CASE Extract
  <2>1. content' = taken /\ landed' = landed /\ Saving' = Saving
    BY <1>27 DEF Extract, editor, Saving
  <2>2. ~Unsaved'
    BY <1>27, <2>1 DEF Extract, IndInv, EditsAccounted, Unsaved
  <2>3. Unsaved => Promise!MayGo
    BY <1>27 DEF Extract, IndInv, EditsAccounted, Neglected, Promise!MayGo, Compared
  <2> QED
    BY <2>1, <2>2, <2>3, Going
<1>28. CASE OpenFails
  <2>1. content' = Nothing /\ landed' = landed /\ Saving' = Saving
    BY <1>28 DEF OpenFails, history, editor, Saving
  <2>2. ~Unsaved'
    BY <2>1 DEF Unsaved, Nothing
  <2>3. Unsaved => Promise!MayGo
    BY <1>28 DEF OpenFails, IndInv, EditsAccounted, Neglected, Promise!MayGo, Compared
  <2> QED
    BY <2>1, <2>2, <2>3, Going
<1>29. CASE Remove
  <2>1. content' = Nothing /\ landed' = landed /\ Saving' = Saving
    BY <1>29 DEF Remove, editor, Saving
  <2>2. ~Unsaved'
    BY <2>1 DEF Unsaved, Nothing
  <2>3. Unsaved => Promise!MayGo
    <3>1. CASE ~examined
      BY <3>1 DEF Promise!MayGo, Compared
    <3>2. CASE Unsaved /\ examined
      <4>1. task \in Asked \/ (refused /\ task \in {"close", "quit"})
        BY <1>29, <3>2 DEF Remove, IndInv, EditsAccounted, Neglected
      <4> QED
        BY <3>2, <4>1 DEF Promise!MayGo, Declined, Prospect, Asked
    <3> QED
      BY <3>1, <3>2
  <2> QED
    BY <2>1, <2>2, <2>3, Going
<1>30. CASE Compare
  BY <1>30, <1>b, Knowing DEF Compare, disk, editor, Saving
<1>31. CASE Fail
  BY <1>31, <1>b, Knowing DEF Fail, editor, Saving
<1>32. CASE StandDown
  <2>1. /\ UNCHANGED <<content, landed, refused>> /\ Saving' = Saving
        /\ examined' = TRUE \/ examined' = examined
    BY <1>32 DEF StandDown, disk, editor, Saving
  <2> QED
    BY <2>1, <1>t, <1>b, Knowing
<1>33. CASE Commit
  BY <1>33, Landing
<1>34. CASE BeginSave
  <2>1. UNCHANGED <<landed, task>> /\ ~Saving /\ Saving'
    BY <1>34 DEF BeginSave, step, Saving
  <2>2. \/ UNCHANGED <<content, examined, refused>>
        \/ content'.by # "app" /\ ~examined' /\ ~refused'
    BY <1>34 DEF BeginSave
  <2> QED
    BY <2>1, <2>2, Beginning DEF Promise!Next
<1>35. CASE EndSave
  <2>1. UNCHANGED <<landed, task>> /\ Saving /\ ~Saving'
    BY <1>35 DEF EndSave, step, Saving
  <2>2. [by |-> "app", n |-> saves] \in File
    BY DEF IndInv, TypeOK, File, Version
  <2>3. \/ UNCHANGED <<content, examined, refused>>
        \/ content' \in File /\ ~examined' /\ ~refused'
    BY <1>35, <2>2 DEF EndSave
  <2> QED
    BY <2>1, <2>3, Finishing DEF Promise!Next
<1>36. CASE UNCHANGED vars
  BY <1>36, <1>t DEF vars, disk, history, editor, Saving
<1> QED
  BY <1>1, <1>2, <1>3, <1>4, <1>5, <1>6, <1>7, <1>8, <1>9, <1>10, <1>11,
     <1>12, <1>13, <1>14, <1>15, <1>16, <1>17, <1>18, <1>19, <1>20, <1>21,
     <1>22, <1>23, <1>24, <1>25, <1>26, <1>27, <1>28, <1>29, <1>30, <1>31,
     <1>32, <1>33, <1>34, <1>35, <1>36, <1>22a
     DEF Next, Opening, Working, Requests, Turns, Outside

\* A session keeps its promise, for every bound and every choice of what may
\* happen to it: SessionLife implements Custody (flow.rs, writeback.rs:106-176,
\* session.rs:162-169).
THEOREM Custodian == Spec => KeepsCustody
<1>1. IndInv /\ [Next]_vars => [Promise!Next]_(Promise!custodyVars)
  BY CustodyStep
<1> QED
  BY <1>1, CustodyInit, Invariant, PTL DEF Spec, KeepsCustody, Promise!Spec
===============================================================================
