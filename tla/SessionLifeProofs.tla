--------------------------- MODULE SessionLifeProofs ---------------------------
(***************************************************************************)
(* What holds of a session for every bound and every choice of what may    *)
(* happen: the types, the inductive invariant, and the promises about      *)
(* edits, other programs' work and questions that follow from it.          *)
(***************************************************************************)
EXTENDS SessionLife, TLAPS

\* What the proofs use of the data: the absences are no versions, each kind of
\* field includes the versions it should, and a container holds a version.
LEMMA Kinds ==
    /\ Original \in Version /\ Version \subseteq File /\ Version \subseteq Agreed
    /\ Agreed \subseteq Record /\ Nothing \in File /\ Unknown \in Agreed
    /\ NoDir \in Record /\ Torn \in Record
    /\ Nothing \notin Version /\ Unknown \notin Version
    /\ NoDir \notin Agreed /\ Torn \notin Agreed /\ Torn # NoDir
    /\ \A f \in File : f # Nothing => f \in Version
    /\ \A f \in File : f.by = "app" => f \in Version
    /\ \A a \in Agreed : a # Unknown => a \in Version
  BY DEF Original, Nothing, NoDir, Torn, Unknown, Version, File, Agreed, Record

\* What the application and other programs write is a version.
LEMMA Writings ==
    \A n \in Nat : /\ n + 1 \in Nat
                  /\ [by |-> "app", n |-> n] \in Version
                  /\ [by |-> "half", n |-> n + 1] \in Version
                  /\ [by |-> "other", n |-> n + 1] \in Version
  BY DEF Version

\* What becomes of a container, moved, broken or written, is still one.
LEMMA Containers ==
    /\ \A c \in Container : /\ c.holds \in Version
                            /\ \A a \in {"gone", "unreadable"} : [c EXCEPT !.at = a] \in Container
    /\ \A v \in Version, name \in Names :
          [at |-> "container", name |-> name, holds |-> v] \in Container
    /\ Recorded \in Names
  BY DEF Container, Names

\* The program starts with every variable of its type.
LEMMA TypeInit == Init => TypeOK
<1> SUFFICES ASSUME Init PROVE TypeOK
  OBVIOUS
<1>1. Flags
  BY Zenon DEF Init, Flags
<1>2. container \in Container
  BY Kinds, Containers DEF Init
<1> QED
  BY <1>1, <1>2, Kinds DEF Init, TypeOK, Step, Task, Change

\* The Boolean variables, apart from the rest because they need another prover.
LEMMA FlagsStep == Flags /\ [Next]_vars => Flags'
<1> SUFFICES ASSUME Flags, [Next]_vars PROVE Flags'
  OBVIOUS
<1> USE DEF Flags, disk, holding, history
<1>1. CASE Create
  BY <1>1 DEF Create, Held, Dir
<1>2. CASE Extract
  BY <1>2 DEF Extract, Go
<1>3. CASE AgreeOnExtraction
  BY <1>3 DEF AgreeOnExtraction, Write
<1>4. CASE Launch
  BY <1>4 DEF Launch, End
<1>5. CASE OpenFails
  BY <1>5 DEF OpenFails, End
<1>6. CASE Compare
  BY <1>6 DEF Compare, Go, End, WhenQuiet
<1>7. CASE Check
  BY <1>7 DEF Check
<1>8. CASE Repack
  BY <1>8 DEF Repack
<1>9. CASE Commit
  BY <1>9 DEF Commit, Go
<1>10. CASE ReadBack
  BY <1>10 DEF ReadBack, Write
<1>11. CASE Count
  BY <1>11 DEF Count, Go, End, WhenWritten
<1>12. CASE Fail
  BY <1>12 DEF Fail, Go, End
<1>13. CASE Siblings
  BY <1>13 DEF Siblings, Go, End
<1>14. CASE Remove
  BY <1>14 DEF Remove, Go, End
<1>15. CASE RemoveFails
  BY <1>15 DEF RemoveFails, Go, End
<1>16. CASE StandDown
  BY <1>16 DEF StandDown, Go, End
<1>17. CASE Close
  BY <1>17 DEF Close, Finish, Begin
<1>18. CASE Quit
  BY <1>18 DEF Quit, Finish, Begin
<1>19. CASE Reopen
  BY <1>19 DEF Reopen, Begin
<1>20. CASE AnswerWriteBack
  BY <1>20 DEF AnswerWriteBack, Begin
<1>21. CASE AnswerDiscard
  BY <1>21 DEF AnswerDiscard, Begin, End
<1>22. CASE Command
  BY <1>22 DEF Command, Begin
<1>23. CASE Pump
  BY <1>23 DEF Pump, Begin, End
<1>24. CASE NoticeLingering
  BY <1>24 DEF NoticeLingering
<1>25. CASE Settled
  BY <1>25 DEF Settled, Begin
<1>26. CASE LetGo
  BY <1>26 DEF LetGo
<1>27. CASE Exit
  BY <1>27 DEF Exit, Held
<1>28. CASE Start
  BY <1>28 DEF Start, Begin
<1>29. CASE Crash
  BY <1>29 DEF Crash, End
<1>29a. CASE CommandDies
  BY <1>29a DEF CommandDies, End
<1>30. CASE BeginSave
  BY <1>30 DEF BeginSave, Notice
<1>31. CASE EndSave
  BY <1>31 DEF EndSave, Notice
<1>32. CASE Leave
  BY <1>32 DEF Leave, Notice
<1>33. CASE Deliver
  BY <1>33 DEF Deliver
<1>34. CASE LoseEvent
  BY <1>34 DEF LoseEvent
<1>35. CASE OtherWrites
  BY <1>35 DEF OtherWrites
<1>36. CASE UNCHANGED vars
  BY <1>36 DEF vars
<1> QED
  BY <1>1, <1>2, <1>3, <1>4, <1>5, <1>6, <1>7, <1>8, <1>9, <1>10, 
     <1>11, <1>12, <1>13, <1>14, <1>15, <1>16, <1>17, <1>18, <1>19, <1>20, 
     <1>21, <1>22, <1>23, <1>24, <1>25, <1>26, <1>27, <1>28, <1>29, <1>30, 
     <1>31, <1>32, <1>33, <1>34, <1>35, <1>36, <1>29a
     DEF Next, Opening, Working, Requests, Turns, Outside

\* A step keeps every variable of its type.  Only Commit and the two writes of an
\* agreement need to know that what the task took is a version, and StepsMatch
\* says so.
LEMMA TypeStep == TypeOK /\ StepsMatch /\ [Next]_vars => TypeOK'
<1> SUFFICES ASSUME TypeOK, StepsMatch, [Next]_vars PROVE TypeOK'
  OBVIOUS
<1>0. Flags'
  BY FlagsStep DEF TypeOK
<1> USE <1>0 DEF TypeOK, Step, Task, Change,
            disk, editor, watch, holding, step, counts, history
<1>1. CASE Create
  BY <1>1, Containers, Kinds DEF Create, Held, Dir
<1>2. CASE Extract
  BY <1>2, Kinds DEF Extract, Go, StepsMatch
<1>3. CASE AgreeOnExtraction
  BY <1>3, Kinds DEF AgreeOnExtraction, Write, StepsMatch
<1>4. CASE Launch
  BY <1>4, Kinds DEF Launch, End
<1>5. CASE OpenFails
  BY <1>5, Kinds DEF OpenFails, End
<1>6. CASE Compare
  <2>1. container.holds \in File /\ seen' \in File
    BY <1>6, Containers, Kinds DEF Compare, Go, End, WhenQuiet
  <2>2. pending' \in Nat
    BY <1>6 DEF Compare
  <2>3. pc' \in Step /\ task' \in Task /\ copy' \in Agreed /\ taken' \in File
    BY <1>6, Kinds DEF Compare, Go, End, WhenQuiet
  <2> QED
    BY <1>6, <2>1, <2>2, <2>3 DEF Compare
<1>7. CASE Check
  BY <1>7, Kinds DEF Check
<1>8. CASE Repack
  BY <1>8, Kinds DEF Repack, StepsMatch
<1>9. CASE Commit
  BY <1>9, Containers, Kinds DEF Commit, Go, StepsMatch
<1>10. CASE ReadBack
  BY <1>10, Containers, Kinds DEF ReadBack, Write
<1>11. CASE Count
  BY <1>11, Kinds DEF Count, Go, End, WhenWritten
<1>12. CASE Fail
  BY <1>12, Kinds DEF Fail, Go, End
<1>13. CASE Siblings
  BY <1>13, Kinds DEF Siblings, Go, End
<1>14. CASE Remove
  BY <1>14, Kinds DEF Remove, Go, End
<1>15. CASE RemoveFails
  BY <1>15, Kinds DEF RemoveFails, Go, End
<1>16. CASE StandDown
  BY <1>16, Kinds DEF StandDown, Go, End
<1>17. CASE Close
  BY <1>17, Kinds DEF Close, Finish, Begin
<1>18. CASE Quit
  BY <1>18, Kinds DEF Quit, Finish, Begin
<1>19. CASE Reopen
  BY <1>19, Kinds DEF Reopen, Begin, Readable
<1>20. CASE AnswerWriteBack
  BY <1>20, Kinds DEF AnswerWriteBack, Begin, Readable
<1>21. CASE AnswerDiscard
  BY <1>21, Kinds DEF AnswerDiscard, Begin, End
<1>22. CASE Command
  BY <1>22, Kinds DEF Command, Begin, Readable
<1>23. CASE Pump
  BY <1>23, Kinds DEF Pump, Begin, End
<1>24. CASE NoticeLingering
  BY <1>24, Kinds DEF NoticeLingering
<1>25. CASE Settled
  BY <1>25, Kinds DEF Settled, Begin
<1>26. CASE LetGo
  BY <1>26, Kinds DEF LetGo
<1>27. CASE Exit
  BY <1>27, Kinds DEF Exit, Held
<1>28. CASE Start
  BY <1>28, Kinds DEF Start, Begin, Readable
<1>29. CASE Crash
  BY <1>29, Kinds DEF Crash, End
<1>29a. CASE CommandDies
  BY <1>29a, Kinds DEF CommandDies, End
<1>30. CASE BeginSave
  <2>1. [by |-> "half", n |-> saves + 1] \in File
    BY Writings, Kinds
  <2>2. content' \in File /\ saves' \in Nat
    BY <1>30, <2>1 DEF BeginSave
  <2> QED
    BY <1>30, <2>2 DEF BeginSave, Notice
<1>31. CASE EndSave
  BY <1>31, Writings, Kinds DEF EndSave, Notice
<1>32. CASE Leave
  BY <1>32, Kinds DEF Leave, Notice
<1>33. CASE Deliver
  BY <1>33, Kinds DEF Deliver
<1>34. CASE LoseEvent
  BY <1>34, Kinds DEF LoseEvent
<1>35. CASE OtherWrites
  <2>1. [by |-> "other", n |-> others + 1] \in Version
    BY Writings
  <2>2. container' \in Container
    BY <1>35, <2>1, Containers DEF OtherWrites
  <2> QED
    BY <1>35, <2>2 DEF OtherWrites
<1>36. CASE UNCHANGED vars
  BY <1>36 DEF vars
<1> QED
  BY <1>1, <1>2, <1>3, <1>4, <1>5, <1>6, <1>7, <1>8, <1>9, <1>10, 
     <1>11, <1>12, <1>13, <1>14, <1>15, <1>16, <1>17, <1>18, <1>19, <1>20, 
     <1>21, <1>22, <1>23, <1>24, <1>25, <1>26, <1>27, <1>28, <1>29, <1>30, 
     <1>31, <1>32, <1>33, <1>34, <1>35, <1>36, <1>29a
     DEF Next, Opening, Working, Requests, Turns, Outside

\* Which step belongs to which task is kept by every step.
LEMMA StepsStep == TypeOK /\ StepsMatch /\ [Next]_vars => StepsMatch'
<1> SUFFICES ASSUME TypeOK, StepsMatch, [Next]_vars PROVE StepsMatch'
  OBVIOUS
<1> USE DEF StepsMatch, Idle, disk, editor, holding, step
<1>1. CASE Create
  <2>1. container.holds # Nothing
    BY Containers, Kinds DEF TypeOK
  <2>2. pending = 0
    BY <1>1 DEF Create, Held, TypeOK
  <2> QED
    BY <1>1, <2>1, <2>2 DEF Create, Held
<1>2. CASE Extract
  BY <1>2, Kinds, Containers DEF Extract, Go, TypeOK
<1>3. CASE AgreeOnExtraction
  BY <1>3 DEF AgreeOnExtraction, Write
<1>4. CASE Launch
  BY <1>4 DEF Launch, End
<1>5. CASE OpenFails
  BY <1>5 DEF OpenFails, End
<1>6. CASE Compare
  BY <1>6, Kinds, Containers DEF Compare, Go, End, WhenQuiet, TypeOK
<1>7. CASE Check
  BY <1>7 DEF Check, Reachable
<1>8. CASE Repack
  BY <1>8 DEF Repack
<1>9. CASE Commit
  BY <1>9 DEF Commit, Go
<1>10. CASE ReadBack
  BY <1>10 DEF ReadBack, Write
<1>11. CASE Count
  BY <1>11 DEF Count, Go, End, WhenWritten
<1>12. CASE Fail
  BY <1>12 DEF Fail, Go, End
<1>13. CASE Siblings
  BY <1>13 DEF Siblings, Go, End
<1>14. CASE Remove
  BY <1>14 DEF Remove, Go, End
<1>15. CASE RemoveFails
  BY <1>15 DEF RemoveFails, Go, End
<1>16. CASE StandDown
  BY <1>16 DEF StandDown, Go, End
<1>17. CASE Close
  BY <1>17 DEF Close, Finish, Begin
<1>18. CASE Quit
  BY <1>18 DEF Quit, Finish, Begin
<1>19. CASE Reopen
  BY <1>19 DEF Reopen, Begin
<1>20. CASE AnswerWriteBack
  BY <1>20 DEF AnswerWriteBack, Begin, TypeOK
<1>21. CASE AnswerDiscard
  BY <1>21 DEF AnswerDiscard, Begin, End
<1>22. CASE Command
  BY <1>22 DEF Command, Begin
<1>23. CASE Pump
  BY <1>23 DEF Pump, Begin, End
<1>24. CASE NoticeLingering
  BY <1>24 DEF NoticeLingering
<1>25. CASE Settled
  BY <1>25 DEF Settled, Begin
<1>26. CASE LetGo
  BY <1>26 DEF LetGo, TypeOK
<1>27. CASE Exit
  BY <1>27 DEF Exit, Held
<1>28. CASE Start
  BY <1>28 DEF Start, Begin
<1>29. CASE Crash
  BY <1>29 DEF Crash, End
<1>29a. CASE CommandDies
  BY <1>29a DEF CommandDies, End
<1>30. CASE BeginSave
  BY <1>30, Kinds, Writings DEF BeginSave, Notice, TypeOK
<1>31. CASE EndSave
  BY <1>31, Kinds, Writings DEF EndSave, Notice, TypeOK
<1>32. CASE Leave
  BY <1>32 DEF Leave, Notice
<1>33. CASE Deliver
  BY <1>33 DEF Deliver
<1>34. CASE LoseEvent
  BY <1>34 DEF LoseEvent
<1>35. CASE OtherWrites
  BY <1>35 DEF OtherWrites
<1>36. CASE UNCHANGED vars
  BY <1>36 DEF vars
<1> QED
  BY <1>1, <1>2, <1>3, <1>4, <1>5, <1>6, <1>7, <1>8, <1>9, <1>10, 
     <1>11, <1>12, <1>13, <1>14, <1>15, <1>16, <1>17, <1>18, <1>19, <1>20, 
     <1>21, <1>22, <1>23, <1>24, <1>25, <1>26, <1>27, <1>28, <1>29, <1>30, 
     <1>31, <1>32, <1>33, <1>34, <1>35, <1>36, <1>29a
     DEF Next, Opening, Working, Requests, Turns, Outside

\* Where an edit that has been compared can be is kept by every step.
LEMMA QuietIsSaved ==
    ASSUME EditsAccounted, NEW a, Course(State(content, container, a)) = "Sweep"
    PROVE  ~Unsaved
<1>1. CASE content = Nothing
  BY <1>1 DEF Nothing, Unsaved
<1>2. CASE content # Nothing
  <2>1. State(content, container, a) = "Unchanged"
    BY <1>2 DEF Course, State
  <2>2. content = container.holds
    BY <1>2, <2>1 DEF State
  <2> QED
    BY <2>2 DEF EditsAccounted, Unsaved
<1> QED
  BY <1>1, <1>2

\* A step keeps account of a compared edit that is in no container: it is being
\* packed, was refused, or somebody asked for it to go.
LEMMA EditsStep == TypeOK /\ StepsMatch /\ EditsAccounted /\ [Next]_vars => EditsAccounted'
<1> SUFFICES ASSUME TypeOK, StepsMatch, EditsAccounted, [Next]_vars PROVE EditsAccounted'
  OBVIOUS
<1> USE DEF EditsAccounted, Neglected, Unsaved, Asked, Idle, Dir, disk, holding, step, history
<1>1. CASE Create
  BY <1>1 DEF Create, Held, Dir, Nothing, Unknown, NoDir
<1>2. CASE Extract
  BY <1>2, Kinds DEF Extract, Go, StepsMatch
<1>3. CASE AgreeOnExtraction
  <2>1. taken \in Version
    BY <1>3, Kinds DEF AgreeOnExtraction, TypeOK, StepsMatch
  <2>2. record' # NoDir
    BY <1>3, <2>1, Kinds DEF AgreeOnExtraction, Write, StepsMatch
  <2> QED
    BY <1>3, <2>2 DEF AgreeOnExtraction
<1>4. CASE Launch
  BY <1>4 DEF Launch, End
<1>5. CASE OpenFails
  BY <1>5 DEF OpenFails, End, Nothing
<1>6. CASE Compare
  <2>1. CASE Course(State(content, container, copy)) = "Sweep"
    <3>1. ~Neglected'
      BY <1>6, <2>1, QuietIsSaved DEF Compare
    <3> QED
      BY <1>6, <2>1, <3>1 DEF Compare, Go, End, WhenQuiet
  <2>2. CASE Course(State(content, container, copy)) # "Sweep"
    BY <1>6, <2>2 DEF Compare, Go, End, WhenQuiet, StepsMatch
  <2> QED
    BY <2>1, <2>2
<1>7. CASE Check
  BY <1>7 DEF Check
<1>8. CASE Repack
  BY <1>8 DEF Repack
<1>9. CASE Commit
  BY <1>9 DEF Commit, Go
<1>10. CASE ReadBack
  <2>1. record # NoDir => record' # NoDir
    BY <1>10, Kinds, Containers DEF ReadBack, Write, TypeOK
  <2>2. record = NoDir => content = Nothing /\ task # "open"
    OBVIOUS
  <2> QED
    BY <1>10, <2>1, <2>2 DEF ReadBack
<1>11. CASE Count
  BY <1>11, Kinds, Containers DEF Count, Go, End, WhenWritten, TypeOK, StepsMatch
<1>12. CASE Fail
  BY <1>12 DEF Fail, Go, End, Torn, NoDir
<1>13. CASE Siblings
  BY <1>13 DEF Siblings, Go, End, StepsMatch
<1>14. CASE Remove
  BY <1>14 DEF Remove, Go, End
<1>15. CASE RemoveFails
  BY <1>15 DEF RemoveFails, Go, End, StepsMatch
<1>16. CASE StandDown
  BY <1>16, QuietIsSaved DEF StandDown, Go, End, IsQuiet, StepsMatch
<1>17. CASE Close
  BY <1>17 DEF Close, Finish, Begin
<1>18. CASE Quit
  BY <1>18 DEF Quit, Finish, Begin
<1>19. CASE Reopen
  BY <1>19 DEF Reopen, Begin
<1>20. CASE AnswerWriteBack
  BY <1>20 DEF AnswerWriteBack, Begin
<1>21. CASE AnswerDiscard
  BY <1>21 DEF AnswerDiscard, Begin, End
<1>22. CASE Command
  BY <1>22 DEF Command, Begin
<1>23. CASE Pump
  BY <1>23 DEF Pump, Begin, End
<1>24. CASE NoticeLingering
  BY <1>24 DEF NoticeLingering
<1>25. CASE Settled
  BY <1>25 DEF Settled, Begin
<1>26. CASE LetGo
  BY <1>26 DEF LetGo
<1>27. CASE Exit
  BY <1>27 DEF Exit, Held
<1>28. CASE Start
  BY <1>28 DEF Start, Begin
<1>29. CASE Crash
  BY <1>29 DEF Crash, End, Torn, NoDir
<1>29a. CASE CommandDies
  BY <1>29a DEF CommandDies, End, StepsMatch, Torn, NoDir
<1>30. CASE BeginSave
  BY <1>30 DEF BeginSave, Notice
<1>31. CASE EndSave
  BY <1>31 DEF EndSave, Notice
<1>32. CASE Leave
  BY <1>32 DEF Leave, Notice
<1>33. CASE Deliver
  BY <1>33 DEF Deliver
<1>34. CASE LoseEvent
  BY <1>34 DEF LoseEvent
<1>35. CASE OtherWrites
  <2>1. container'.holds.by = "app" => container'.holds = container.holds
    BY <1>35 DEF OtherWrites, TypeOK, Container
  <2> QED
    BY <1>35, <2>1 DEF OtherWrites
<1>36. CASE UNCHANGED vars
  BY <1>36 DEF vars
<1> QED
  BY <1>1, <1>2, <1>3, <1>4, <1>5, <1>6, <1>7, <1>8, <1>9, <1>10, 
     <1>11, <1>12, <1>13, <1>14, <1>15, <1>16, <1>17, <1>18, <1>19, <1>20, 
     <1>21, <1>22, <1>23, <1>24, <1>25, <1>26, <1>27, <1>28, <1>29, <1>30, 
     <1>31, <1>32, <1>33, <1>34, <1>35, <1>36, <1>29a
     DEF Next, Opening, Working, Requests, Turns, Outside

\* What the notes of agreement are worth is kept by every step.
LEMMA WriteBackAgrees ==
    ASSUME NEW a, Course(State(content, container, a)) = "WriteBack"
    PROVE  container.holds = a
<1>1. State(content, container, a) = "Edited"
  BY DEF Course
<1> QED
  BY <1>1 DEF State

\* A step keeps the notes of what session and container agreed on honest: they
\* are of the session's own bytes, or come after one that was not.
LEMMA AgreementsStep ==
    TypeOK /\ StepsMatch /\ AgreementsAccounted /\ [Next]_vars => AgreementsAccounted'
<1> SUFFICES ASSUME TypeOK, StepsMatch, AgreementsAccounted, [Next]_vars
             PROVE  AgreementsAccounted'
  OBVIOUS
<1> USE Kinds DEF AgreementsAccounted, Idle, disk, holding, step, history
<1>1. CASE Create
  BY <1>1 DEF Create, Held, Dir
<1>2. CASE Extract
  BY <1>2 DEF Extract, Go
<1>3. CASE AgreeOnExtraction
  BY <1>3 DEF AgreeOnExtraction, Write
<1>4. CASE Launch
  BY <1>4 DEF Launch, End
<1>5. CASE OpenFails
  BY <1>5 DEF OpenFails, End
<1>6. CASE Compare
  <2>1. pc' = "check" /\ task \in {"settled", "reopen"} => seen' \in {Nothing, copy'}
    BY <1>6, WriteBackAgrees DEF Compare, Go, End, WhenQuiet
  <2> QED
    BY <1>6, <2>1 DEF Compare, Go, End, WhenQuiet
<1>7. CASE Check
  BY <1>7 DEF Check
<1>8. CASE Repack
  BY <1>8 DEF Repack
<1>9. CASE Commit
  BY <1>9 DEF Commit, Go
<1>10. CASE ReadBack
  <2>1. lied => lied'
    BY <1>10 DEF ReadBack
  <2>2. held' \in Version => live' \/ lingering'
    BY <1>10 DEF ReadBack, StepsMatch
  <2>3. \A a \in {record', copy', held'} :
           a \in Version => a \in {record, copy, held} \/ a \in ours \/ lied'
    BY <1>10 DEF ReadBack, Write
  <2> QED
    BY <1>10, <2>1, <2>2, <2>3 DEF ReadBack
<1>11. CASE Count
  BY <1>11 DEF Count, Go, End, WhenWritten
<1>12. CASE Fail
  BY <1>12 DEF Fail, Go, End, StepsMatch
<1>13. CASE Siblings
  BY <1>13 DEF Siblings, Go, End, StepsMatch
<1>14. CASE Remove
  BY <1>14 DEF Remove, Go, End
<1>15. CASE RemoveFails
  BY <1>15 DEF RemoveFails, Go, End
<1>16. CASE StandDown
  BY <1>16 DEF StandDown, Go, End
<1>17. CASE Close
  BY <1>17 DEF Close, Finish, Begin
<1>18. CASE Quit
  BY <1>18 DEF Quit, Finish, Begin
<1>19. CASE Reopen
  BY <1>19 DEF Reopen, Begin, Readable
<1>20. CASE AnswerWriteBack
  BY <1>20 DEF AnswerWriteBack, Begin, Readable
<1>21. CASE AnswerDiscard
  BY <1>21 DEF AnswerDiscard, Begin, End
<1>22. CASE Command
  BY <1>22 DEF Command, Begin, Readable
<1>23. CASE Pump
  BY <1>23 DEF Pump, Begin, End
<1>24. CASE NoticeLingering
  BY <1>24 DEF NoticeLingering
<1>25. CASE Settled
  BY <1>25 DEF Settled, Begin
<1>26. CASE LetGo
  BY <1>26 DEF LetGo
<1>27. CASE Exit
  BY <1>27 DEF Exit, Held
<1>28. CASE Start
  BY <1>28 DEF Start, Begin, Readable
<1>29. CASE Crash
  BY <1>29 DEF Crash, End
<1>29a. CASE CommandDies
  BY <1>29a DEF CommandDies, End
<1>30. CASE BeginSave
  BY <1>30 DEF BeginSave, Notice
<1>31. CASE EndSave
  BY <1>31 DEF EndSave, Notice
<1>32. CASE Leave
  BY <1>32 DEF Leave, Notice
<1>33. CASE Deliver
  BY <1>33 DEF Deliver
<1>34. CASE LoseEvent
  BY <1>34 DEF LoseEvent
<1>35. CASE OtherWrites
  BY <1>35 DEF OtherWrites
<1>36. CASE UNCHANGED vars
  BY <1>36 DEF vars
<1> QED
  BY <1>1, <1>2, <1>3, <1>4, <1>5, <1>6, <1>7, <1>8, <1>9, <1>10, 
     <1>11, <1>12, <1>13, <1>14, <1>15, <1>16, <1>17, <1>18, <1>19, <1>20, 
     <1>21, <1>22, <1>23, <1>24, <1>25, <1>26, <1>27, <1>28, <1>29, <1>30, 
     <1>31, <1>32, <1>33, <1>34, <1>35, <1>36, <1>29a
     DEF Next, Opening, Working, Requests, Turns, Outside

\* What has been disturbed stays so.
LEMMA Disturbances == TypeOK /\ [Next]_vars /\ Undisturbed' => Undisturbed
<1> SUFFICES ASSUME TypeOK, [Next]_vars PROVE others' >= others /\ crashes' >= crashes
  BY DEF Undisturbed, TypeOK
<1> USE DEF TypeOK, counts
<1>1. CASE Opening
  BY <1>1 DEF Opening, Create, Extract, AgreeOnExtraction, Launch, OpenFails
<1>2. CASE Working
  BY <1>2 DEF Working, Compare, Check, Repack, Commit, ReadBack, Count, Fail, Siblings,
              Remove, RemoveFails, StandDown
<1>3. CASE Requests
  BY <1>3 DEF Requests, Close, Quit, Finish, Reopen, AnswerWriteBack, AnswerDiscard, Command
<1>4. CASE Turns
  BY <1>4 DEF Turns, Pump, NoticeLingering, Settled, LetGo, Exit, Start
<1>5. CASE Outside
  BY <1>5 DEF Outside, Crash, CommandDies, BeginSave, EndSave, Leave, Deliver, LoseEvent, OtherWrites
<1>6. CASE UNCHANGED vars
  BY <1>6 DEF vars
<1> QED
  BY <1>1, <1>2, <1>3, <1>4, <1>5, <1>6 DEF Next

\* Where nothing has disturbed it, a step keeps every agreement of what the
\* container holds: only a commit changes that, and the notes of it follow.
LEMMA KeptStep == TypeOK /\ StepsMatch /\ AgreementsKept /\ [Next]_vars => AgreementsKept'
<1> SUFFICES ASSUME TypeOK, StepsMatch, AgreementsKept, [Next]_vars, Undisturbed, Undisturbed'
             PROVE  AgreementsKept'
  BY Disturbances DEF AgreementsKept
  <1> USE DEF Undisturbed, AgreementsKept, StepsMatch, Idle, Dir, disk, watch,
     editor, holding,
                 step, counts
<1>1. CASE Create
  BY <1>1 DEF Create, Held, Dir
<1>2. CASE Extract
  BY <1>2 DEF Extract, Go
<1>3. CASE AgreeOnExtraction
  BY <1>3 DEF AgreeOnExtraction, Write
<1>4. CASE Launch
  BY <1>4 DEF Launch, End
<1>5. CASE OpenFails
  BY <1>5 DEF OpenFails, End
<1>6. CASE Compare
  <2>1. Course(State(content, container, copy)) # "Ask"
    BY <1>6 DEF Compare, Course, State
  <2> QED
    BY <1>6, <2>1 DEF Compare, Go, End, WhenQuiet
<1>7. CASE Check
  BY <1>7 DEF Check
<1>8. CASE Repack
  BY <1>8 DEF Repack
<1>9. CASE Commit
  BY <1>9 DEF Commit, Go
<1>10. CASE ReadBack
  BY <1>10 DEF ReadBack, Write
<1>11. CASE Count
  BY <1>11 DEF Count, Go, End, WhenWritten
<1>12. CASE Fail
  BY <1>12 DEF Fail, Go, End
<1>13. CASE Siblings
  BY <1>13 DEF Siblings, Go, End
<1>14. CASE Remove
  BY <1>14 DEF Remove, Go, End
<1>15. CASE RemoveFails
  BY <1>15 DEF RemoveFails
<1>16. CASE StandDown
  BY <1>16 DEF StandDown, Go, End
<1>17. CASE Close
  BY <1>17 DEF Close, Finish, Begin
<1>18. CASE Quit
  BY <1>18 DEF Quit, Finish, Begin
<1>19. CASE Reopen
  BY <1>19, Kinds DEF Reopen, Begin, Readable
<1>20. CASE AnswerWriteBack
  BY <1>20 DEF AnswerWriteBack
<1>21. CASE AnswerDiscard
  BY <1>21 DEF AnswerDiscard
<1>22. CASE Command
  BY <1>22, Kinds DEF Command, Begin, Readable
<1>23. CASE Pump
  BY <1>23 DEF Pump, Begin, End
<1>24. CASE NoticeLingering
  BY <1>24 DEF NoticeLingering
<1>25. CASE Settled
  BY <1>25 DEF Settled, Begin
<1>26. CASE LetGo
  BY <1>26 DEF LetGo
<1>27. CASE Exit
  BY <1>27 DEF Exit, Held
<1>28. CASE Start
  BY <1>28, Kinds DEF Start, Begin, Readable
<1>29. CASE Crash
  BY <1>29 DEF Crash
<1>29a. CASE CommandDies
  BY <1>29a DEF CommandDies
<1>30. CASE BeginSave
  BY <1>30 DEF BeginSave
<1>31. CASE EndSave
  BY <1>31 DEF EndSave
<1>32. CASE Leave
  BY <1>32 DEF Leave
<1>33. CASE Deliver
  BY <1>33 DEF Deliver
<1>34. CASE LoseEvent
  BY <1>34 DEF LoseEvent
<1>35. CASE OtherWrites
  BY <1>35 DEF OtherWrites
<1>36. CASE UNCHANGED vars
  BY <1>36 DEF vars
<1> QED
    BY <1>1, <1>2, <1>3, <1>4, <1>5, <1>6, <1>7, <1>8, <1>9, <1>10, <1>11, <1>12, <1>13,
     <1>14, <1>15, <1>16, <1>17, <1>18, <1>19, <1>20, <1>21, <1>22, <1>23, <1>24, <1>25,
     <1>26, <1>27, <1>28, <1>29, <1>30, <1>31, <1>32, <1>33, <1>34, <1>35, <1>36, <1>29a
  DEF Next, Opening, Working, Requests, Turns, Outside

\* An edit that a live or a closing session has not compared stays with an event
\* about it: what drains the events compares, and what changes the content file
\* sends one.
LEMMA ReportedStep == TypeOK /\ StepsMatch /\ Reported /\ [Next]_vars => Reported'
<1> SUFFICES ASSUME TypeOK, StepsMatch, Reported, [Next]_vars PROVE Reported'
  OBVIOUS
<1> USE DEF Reported, Unsaved, Nothing, StepsMatch, Idle, disk, editor, watch, holding, step, counts,
            history
<1>1. CASE Create
  BY <1>1 DEF Create
<1>2. CASE Extract
  BY <1>2 DEF Extract, Go
<1>3. CASE AgreeOnExtraction
  BY <1>3 DEF AgreeOnExtraction
<1>4. CASE Launch
  BY <1>4 DEF Launch, End
<1>5. CASE OpenFails
  BY <1>5 DEF OpenFails, End
<1>6. CASE Compare
  BY <1>6 DEF Compare, Go, End, WhenQuiet
<1>7. CASE Check
  BY <1>7 DEF Check
<1>8. CASE Repack
  BY <1>8 DEF Repack
<1>9. CASE Commit
  BY <1>9 DEF Commit, Go
<1>10. CASE ReadBack
  BY <1>10 DEF ReadBack
<1>11. CASE Count
  BY <1>11 DEF Count, Go, End, WhenWritten
<1>12. CASE Fail
  BY <1>12 DEF Fail, Go, End
<1>13. CASE Siblings
  BY <1>13 DEF Siblings, Go, End
<1>14. CASE Remove
  BY <1>14 DEF Remove, Go, End
<1>15. CASE RemoveFails
  BY <1>15 DEF RemoveFails, Go, End
<1>16. CASE StandDown
  BY <1>16 DEF StandDown, Go, End
<1>17. CASE Close
  BY <1>17 DEF Close, Finish, Begin
<1>18. CASE Quit
  BY <1>18 DEF Quit, Finish, Begin
<1>19. CASE Reopen
  BY <1>19 DEF Reopen, Begin
<1>20. CASE AnswerWriteBack
  BY <1>20 DEF AnswerWriteBack, Begin
<1>21. CASE AnswerDiscard
  BY <1>21 DEF AnswerDiscard, Begin, End
<1>22. CASE Command
  BY <1>22 DEF Command, Begin
<1>23. CASE Pump
  BY <1>23 DEF Pump, Begin, End
<1>24. CASE NoticeLingering
  BY <1>24 DEF NoticeLingering
<1>25. CASE Settled
  BY <1>25 DEF Settled, Begin
<1>26. CASE LetGo
  BY <1>26 DEF LetGo
<1>27. CASE Exit
  BY <1>27 DEF Exit
<1>28. CASE Start
  BY <1>28 DEF Start, Begin
<1>29. CASE Crash
  BY <1>29 DEF Crash, End
<1>29a. CASE CommandDies
  BY <1>29a DEF CommandDies, End
<1>30. CASE BeginSave
  BY <1>30 DEF BeginSave, Notice, Watching
<1>31. CASE EndSave
  BY <1>31 DEF EndSave, Notice, Watching, Change
<1>32. CASE Leave
  BY <1>32 DEF Leave, Notice, Watching
<1>33. CASE Deliver
  BY <1>33 DEF Deliver
<1>34. CASE LoseEvent
  BY <1>34 DEF LoseEvent
<1>35. CASE OtherWrites
  BY <1>35 DEF OtherWrites
<1>36. CASE UNCHANGED vars
  BY <1>36 DEF vars
<1> QED
  BY <1>1, <1>2, <1>3, <1>4, <1>5, <1>6, <1>7, <1>8, <1>9, <1>10, <1>11, <1>12, <1>13,
     <1>14, <1>15, <1>16, <1>17, <1>18, <1>19, <1>20, <1>21, <1>22, <1>23, <1>24, <1>25, <1>26,
     <1>27, <1>28, <1>29, <1>30, <1>31, <1>32, <1>33, <1>34, <1>35, <1>36, <1>29a
  DEF Next, Opening, Working, Requests, Turns, Outside

\* What lingers can settle, through every step.
LEMMA LingersStep == TypeOK /\ StepsMatch /\ EditsAccounted /\ Lingers /\ [Next]_vars => Lingers'
<1> SUFFICES ASSUME TypeOK, StepsMatch, EditsAccounted, Lingers, [Next]_vars PROVE Lingers'
  OBVIOUS
<1> USE DEF Lingers, Alone, Dir, StepsMatch, Idle, disk, editor, watch, holding, step, counts,
            history
<1>1. CASE Create
  BY <1>1, Kinds DEF Create, Held
<1>2. CASE Extract
  BY <1>2 DEF Extract, Go
<1>3. CASE AgreeOnExtraction
  BY <1>3, Kinds DEF AgreeOnExtraction, Write, TypeOK
<1>4. CASE Launch
  BY <1>4 DEF Launch, End, EditsAccounted
<1>5. CASE OpenFails
  BY <1>5 DEF OpenFails, End
<1>6. CASE Compare
  BY <1>6 DEF Compare, Go, End, WhenQuiet
<1>7. CASE Check
  BY <1>7 DEF Check
<1>8. CASE Repack
  BY <1>8 DEF Repack
<1>9. CASE Commit
  BY <1>9 DEF Commit, Go
<1>10. CASE ReadBack
  BY <1>10, Kinds, Containers DEF ReadBack, Write, TypeOK
<1>11. CASE Count
  BY <1>11, Kinds DEF Count, Go, End, WhenWritten, TypeOK
<1>12. CASE Fail
  BY <1>12, Kinds DEF Fail, Go, End
<1>13. CASE Siblings
  BY <1>13 DEF Siblings, Go, End
<1>14. CASE Remove
  BY <1>14 DEF Remove, Go, End
<1>15. CASE RemoveFails
  BY <1>15 DEF RemoveFails, Go, End
<1>16. CASE StandDown
  BY <1>16 DEF StandDown, Go, End
<1>17. CASE Close
  BY <1>17 DEF Close, Finish, Begin
<1>18. CASE Quit
  BY <1>18 DEF Quit, Finish, Begin
<1>19. CASE Reopen
  BY <1>19 DEF Reopen, Begin
<1>20. CASE AnswerWriteBack
  BY <1>20 DEF AnswerWriteBack, Begin
<1>21. CASE AnswerDiscard
  BY <1>21 DEF AnswerDiscard, Begin, End
<1>22. CASE Command
  BY <1>22 DEF Command, Begin
<1>23. CASE Pump
  BY <1>23 DEF Pump, Begin, End
<1>24. CASE NoticeLingering
  BY <1>24 DEF NoticeLingering
<1>25. CASE Settled
  BY <1>25 DEF Settled, Begin
<1>26. CASE LetGo
  BY <1>26 DEF LetGo
<1>27. CASE Exit
  BY <1>27 DEF Exit, Held
<1>28. CASE Start
  BY <1>28 DEF Start, Begin
<1>29. CASE Crash
  BY <1>29, Kinds DEF Crash, End
<1>29a. CASE CommandDies
  BY <1>29a, Kinds DEF CommandDies, End
<1>30. CASE BeginSave
  BY <1>30 DEF BeginSave, Notice, Watching
<1>31. CASE EndSave
  BY <1>31 DEF EndSave, Notice, Watching, Change
<1>32. CASE Leave
  BY <1>32 DEF Leave, Notice, Watching
<1>33. CASE Deliver
  BY <1>33 DEF Deliver
<1>34. CASE LoseEvent
  BY <1>34 DEF LoseEvent
<1>35. CASE OtherWrites
  BY <1>35 DEF OtherWrites
<1>36. CASE UNCHANGED vars
  BY <1>36 DEF vars
<1> QED
  BY <1>1, <1>2, <1>3, <1>4, <1>5, <1>6, <1>7, <1>8, <1>9, <1>10, <1>11, <1>12, <1>13,
     <1>14, <1>15, <1>16, <1>17, <1>18, <1>19, <1>20, <1>21, <1>22, <1>23, <1>24, <1>25, <1>26,
     <1>27, <1>28, <1>29, <1>30, <1>31, <1>32, <1>33, <1>34, <1>35, <1>36, <1>29a
  DEF Next, Opening, Working, Requests, Turns, Outside

\* The invariant holds at the start and is kept by every step.
LEMMA InvInit == Init => IndInv
<1> SUFFICES ASSUME Init PROVE IndInv
  OBVIOUS
<1>1. StepsMatch
  BY DEF Init, StepsMatch, Idle
<1>2. EditsAccounted
  BY DEF Init, EditsAccounted, Neglected, Unsaved, Dir, Idle, Original, Nothing, NoDir
<1>3. AgreementsAccounted
  BY DEF Init, AgreementsAccounted, Version, Unknown, NoDir
<1>4. AgreementsKept
  BY DEF Init, AgreementsKept, Idle, Dir
<1>5. Reported
  BY DEF Init, Reported, Unsaved, Nothing
<1>6. Lingers
  BY DEF Init, Lingers
<1> QED
  BY <1>1, <1>2, <1>3, <1>4, <1>5, <1>6, TypeInit DEF IndInv

\* The seven parts are preserved together.
LEMMA InvStep == IndInv /\ [Next]_vars => IndInv'
  BY TypeStep, StepsStep, EditsStep, AgreementsStep, KeptStep, ReportedStep, LingersStep DEF IndInv

\* Every variable keeps to its kind of value (the type invariant of the model).
THEOREM TypeCorrect == Spec => []TypeOK
<1>1. Init => IndInv
  BY InvInit
<1>2. IndInv /\ [Next]_vars => IndInv'
  BY InvStep
<1>3. IndInv => TypeOK
  BY DEF IndInv
<1> QED
  BY <1>1, <1>2, <1>3, PTL DEF Spec

\* The invariant holds in every reachable state: in particular the agreement
\* noted anywhere, in session.toml or in memory, is of bytes the session took
\* from its container or put there, unless a read-back was of another
\* program's (writeback.rs).
THEOREM Invariant == Spec => []IndInv
<1> QED
  BY InvInit, InvStep, PTL DEF Spec

\* Only an opening that fails and a removal end a directory that was there.
LEMMA WhoRemoves ==
    ASSUME IndInv, [Next]_vars, Dir, ~Dir'
    PROVE  OpenFails \/ Remove
<1> USE DEF Dir, disk
<1>1. CASE Create
  BY <1>1 DEF Create, Held, Dir
<1>2. CASE Extract
  BY <1>2 DEF Extract, Go
<1>3. CASE AgreeOnExtraction
  <2>1. taken \in Version
    BY <1>3, Kinds DEF AgreeOnExtraction, IndInv, TypeOK, StepsMatch
  <2> QED
    BY <1>3, <2>1, Kinds DEF AgreeOnExtraction, Write
<1>4. CASE Launch
  BY <1>4 DEF Launch, End
<1>5. CASE OpenFails
  BY <1>5 DEF OpenFails, End
<1>6. CASE Compare
  BY <1>6 DEF Compare, Go, End, WhenQuiet
<1>7. CASE Check
  BY <1>7 DEF Check
<1>8. CASE Repack
  BY <1>8 DEF Repack
<1>9. CASE Commit
  BY <1>9 DEF Commit, Go
<1>10. CASE ReadBack
  BY <1>10, Kinds, Containers DEF ReadBack, Write, IndInv, TypeOK
<1>11. CASE Count
  BY <1>11, Kinds DEF Count, Go, End, WhenWritten, IndInv, TypeOK
<1>12. CASE Fail
  BY <1>12 DEF Fail, Go, End, Torn, NoDir
<1>13. CASE Siblings
  BY <1>13 DEF Siblings, Go, End
<1>14. CASE Remove
  BY <1>14 DEF Remove, Go, End
<1>15. CASE RemoveFails
  BY <1>15 DEF RemoveFails, Go, End
<1>16. CASE StandDown
  BY <1>16 DEF StandDown, Go, End
<1>17. CASE Close
  BY <1>17 DEF Close, Finish, Begin
<1>18. CASE Quit
  BY <1>18 DEF Quit, Finish, Begin
<1>19. CASE Reopen
  BY <1>19 DEF Reopen, Begin
<1>20. CASE AnswerWriteBack
  BY <1>20 DEF AnswerWriteBack, Begin
<1>21. CASE AnswerDiscard
  BY <1>21 DEF AnswerDiscard, Begin, End
<1>22. CASE Command
  BY <1>22 DEF Command, Begin
<1>23. CASE Pump
  BY <1>23 DEF Pump, Begin, End
<1>24. CASE NoticeLingering
  BY <1>24 DEF NoticeLingering
<1>25. CASE Settled
  BY <1>25 DEF Settled, Begin
<1>26. CASE LetGo
  BY <1>26 DEF LetGo
<1>27. CASE Exit
  BY <1>27 DEF Exit, Held
<1>28. CASE Start
  BY <1>28 DEF Start, Begin
<1>29. CASE Crash
  BY <1>29 DEF Crash, End, Torn, NoDir
<1>29a. CASE CommandDies
  BY <1>29a DEF CommandDies, End, Torn, NoDir
<1>30. CASE BeginSave
  BY <1>30 DEF BeginSave, Notice
<1>31. CASE EndSave
  BY <1>31 DEF EndSave, Notice
<1>32. CASE Leave
  BY <1>32 DEF Leave, Notice
<1>33. CASE Deliver
  BY <1>33 DEF Deliver
<1>34. CASE LoseEvent
  BY <1>34 DEF LoseEvent
<1>35. CASE OtherWrites
  BY <1>35 DEF OtherWrites
<1>36. CASE UNCHANGED vars
  BY <1>36 DEF vars
<1> QED
  BY <1>1, <1>2, <1>3, <1>4, <1>5, <1>6, <1>7, <1>8, <1>9, <1>10, 
     <1>11, <1>12, <1>13, <1>14, <1>15, <1>16, <1>17, <1>18, <1>19, <1>20, 
     <1>21, <1>22, <1>23, <1>24, <1>25, <1>26, <1>27, <1>28, <1>29, <1>30, 
     <1>31, <1>32, <1>33, <1>34, <1>35, <1>36, <1>29a
     DEF Next, Opening, Working, Requests, Turns, Outside

\* An edit the tool has compared goes only with a close or a quit after a
\* refused write-back, or because a person discards it: flow.rs close,
\* recover.rs and resident.rs, through crashes, failures and lost events.
THEOREM EditsSurvive == Spec => ExaminedEditsSurvive
<1>1. IndInv /\ [Next]_vars
        => [Loses /\ examined => refused /\ task \in {"close", "quit"}]_vars
  <2> SUFFICES ASSUME IndInv, [Next]_vars, Loses, examined
               PROVE  refused /\ task \in {"close", "quit"}
    OBVIOUS
  <2>1. Neglected
    BY DEF Loses, Neglected
  <2>2. OpenFails \/ Remove
    BY WhoRemoves DEF Loses
  <2>3. ~OpenFails
    BY <2>1 DEF IndInv, EditsAccounted, OpenFails
  <2>4. pc = "remove"
    BY <2>2, <2>3 DEF Remove
  <2> QED
    BY <2>1, <2>4 DEF IndInv, EditsAccounted, Loses
<1> QED
  BY <1>1, Invariant, PTL DEF Spec, ExaminedEditsSurvive

\* Only the commit of a write-back and other programs write a container.
LEMMA WhoWrites ==
    ASSUME IndInv, [Next]_vars, container' # container, others' = others
    PROVE  Commit
<1> USE DEF disk, counts
<1>1. CASE Create
  BY <1>1 DEF Create, Held, Dir
<1>2. CASE Extract
  BY <1>2 DEF Extract, Go
<1>3. CASE AgreeOnExtraction
  BY <1>3 DEF AgreeOnExtraction, Write
<1>4. CASE Launch
  BY <1>4 DEF Launch, End
<1>5. CASE OpenFails
  BY <1>5 DEF OpenFails, End
<1>6. CASE Compare
  BY <1>6 DEF Compare, Go, End, WhenQuiet
<1>7. CASE Check
  BY <1>7 DEF Check
<1>8. CASE Repack
  BY <1>8 DEF Repack
<1>9. CASE Commit
  BY <1>9 DEF Commit, Go
<1>10. CASE ReadBack
  BY <1>10 DEF ReadBack, Write
<1>11. CASE Count
  BY <1>11 DEF Count, Go, End, WhenWritten
<1>12. CASE Fail
  BY <1>12 DEF Fail, Go, End
<1>13. CASE Siblings
  BY <1>13 DEF Siblings, Go, End
<1>14. CASE Remove
  BY <1>14 DEF Remove, Go, End
<1>15. CASE RemoveFails
  BY <1>15 DEF RemoveFails, Go, End
<1>16. CASE StandDown
  BY <1>16 DEF StandDown, Go, End
<1>17. CASE Close
  BY <1>17 DEF Close, Finish, Begin
<1>18. CASE Quit
  BY <1>18 DEF Quit, Finish, Begin
<1>19. CASE Reopen
  BY <1>19 DEF Reopen, Begin
<1>20. CASE AnswerWriteBack
  BY <1>20 DEF AnswerWriteBack, Begin
<1>21. CASE AnswerDiscard
  BY <1>21 DEF AnswerDiscard, Begin, End
<1>22. CASE Command
  BY <1>22 DEF Command, Begin
<1>23. CASE Pump
  BY <1>23 DEF Pump, Begin, End
<1>24. CASE NoticeLingering
  BY <1>24 DEF NoticeLingering
<1>25. CASE Settled
  BY <1>25 DEF Settled, Begin
<1>26. CASE LetGo
  BY <1>26 DEF LetGo
<1>27. CASE Exit
  BY <1>27 DEF Exit, Held
<1>28. CASE Start
  BY <1>28 DEF Start, Begin
<1>29. CASE Crash
  BY <1>29 DEF Crash, End
<1>29a. CASE CommandDies
  BY <1>29a DEF CommandDies, End
<1>30. CASE BeginSave
  BY <1>30 DEF BeginSave, Notice
<1>31. CASE EndSave
  BY <1>31 DEF EndSave, Notice
<1>32. CASE Leave
  BY <1>32 DEF Leave, Notice
<1>33. CASE Deliver
  BY <1>33 DEF Deliver
<1>34. CASE LoseEvent
  BY <1>34 DEF LoseEvent
<1>35. CASE OtherWrites
  BY <1>35 DEF OtherWrites, IndInv, TypeOK
<1>36. CASE UNCHANGED vars
  BY <1>36 DEF vars
<1> QED
  BY <1>1, <1>2, <1>3, <1>4, <1>5, <1>6, <1>7, <1>8, <1>9, <1>10, 
     <1>11, <1>12, <1>13, <1>14, <1>15, <1>16, <1>17, <1>18, <1>19, <1>20, 
     <1>21, <1>22, <1>23, <1>24, <1>25, <1>26, <1>27, <1>28, <1>29, <1>30, 
     <1>31, <1>32, <1>33, <1>34, <1>35, <1>36, <1>29a
     DEF Next, Opening, Working, Requests, Turns, Outside

\* Recovery never puts back over what it saw another program put in the
\* container, unless a note of agreement was of that program's bytes
\* (recover.rs:228-248, writeback.rs:163-176).
THEOREM RecoveryKeeps == Spec => RecoveryKeepsOthersWork
<1>1. IndInv /\ [Next]_vars
        => [Overwrites /\ task \in {"settled", "reopen"} /\ seen = container.holds
              => lied]_vars
  <2> SUFFICES ASSUME IndInv, [Next]_vars, Overwrites,
                      task \in {"settled", "reopen"}, seen = container.holds
               PROVE  lied
    OBVIOUS
  <2>1. Commit
    BY WhoWrites DEF Overwrites
  <2>2. seen \in {Nothing, copy}
    BY <2>1 DEF Commit, IndInv, AgreementsAccounted
  <2>3. container.holds \in Version /\ container.holds # Nothing
    BY Containers, Kinds DEF IndInv, TypeOK
  <2>4. copy = container.holds
    BY <2>2, <2>3
  <2> QED
    BY <2>3, <2>4 DEF Overwrites, IndInv, AgreementsAccounted
<1> QED
  BY <1>1, Invariant, PTL DEF Spec, RecoveryKeepsOthersWork

\* Where no file operation fails, a person is asked only after somebody else has
\* been at the container or an instance has died (resident.rs:397-470).
THEOREM OnlyConflicts == Spec => []OnlyConflictsAreAsked
<1>1. IndInv => OnlyConflictsAreAsked
  BY DEF IndInv, TypeOK, AgreementsKept, Undisturbed, OnlyConflictsAreAsked
<1> QED
  BY <1>1, Invariant, PTL

\* Where the platform loses no event, a close takes no edit with it but one whose
\* event has not been drained (flow.rs close, watch.rs).
THEOREM UnheardOnly ==
    ASSUME "lose_event" \notin World
    PROVE  Spec => ClosesLoseOnlyTheUnheard
<1>1. IndInv /\ [Next]_vars
        => [Loses /\ ~examined /\ task \in {"close", "quit"}
              => "Content" \in coming \cup queued]_vars
  <2> SUFFICES ASSUME IndInv, [Next]_vars, Loses, ~examined, task \in {"close", "quit"}
               PROVE  "Content" \in coming \cup queued
    OBVIOUS
  <2>1. OpenFails \/ Remove
    BY WhoRemoves DEF Loses
  <2>2. ~OpenFails
    BY DEF IndInv, StepsMatch, OpenFails
  <2>3. pc = "remove"
    BY <2>1, <2>2 DEF Remove
  <2> QED
    BY <2>3 DEF IndInv, Reported, Loses
<1> QED
  BY <1>1, Invariant, PTL DEF Spec, ClosesLoseOnlyTheUnheard

\* A lingering session that nobody reopens or recovers has its directory and no
\* question, so that only a sibling keeps it from settling, whatever crashes,
\* fails, is lost or is written beside it.
THEOREM CanSettle == Spec => []LingeringCanSettle
<1>1. IndInv => LingeringCanSettle
  BY DEF IndInv, Lingers, LingeringCanSettle
<1> QED
  BY <1>1, Invariant, PTL

\* A step leaves a directory alone whose record is torn and which nobody holds.
LEMMA OrphanStep ==
    ASSUME IndInv, [Next]_vars, Orphaned
    PROVE  Orphaned' /\ (content' # content => app # "none")
<1> USE DEF Orphaned, Idle, disk, editor, watch, holding, step, counts, history
<1>1. record \notin Agreed /\ record # NoDir
  BY Kinds
<1>2. CASE Opening
  BY <1>1, <1>2 DEF Opening, Create, Extract, AgreeOnExtraction, Launch, OpenFails, Dir
<1>3. CASE Working
  <2>1. StandDown
    BY <1>3 DEF Working, Compare, Check, Repack, Commit, ReadBack, Count, Fail, Siblings, Remove,
                RemoveFails
  <2> QED
    BY <2>1 DEF StandDown, Go, End
<1>4. CASE Requests
  <2>1. Quit /\ ~live
    BY <1>1, <1>4 DEF Requests, Close, Quit, Finish, Reopen, AnswerWriteBack, AnswerDiscard, Command,
                      Readable, IndInv, TypeOK
  <2> QED
    BY <2>1 DEF Quit, Finish, Begin
<1>5. CASE Turns
  <2>1. Exit \/ Start
    BY <1>5 DEF Turns, Pump, NoticeLingering, Settled, LetGo, IndInv, TypeOK
  <2> QED
    BY <1>1, <2>1 DEF Exit, Start, Readable
<1>6. CASE Outside
  <2>1. CASE Crash \/ CommandDies
    BY <2>1 DEF Crash, CommandDies, End
  <2>2. CASE BeginSave \/ EndSave \/ Leave
    BY <2>2 DEF BeginSave, EndSave, Leave
  <2>3. CASE Deliver \/ LoseEvent \/ OtherWrites
    BY <2>3 DEF Deliver, LoseEvent, OtherWrites
  <2> QED
    BY <1>6, <2>1, <2>2, <2>3 DEF Outside
<1>7. CASE UNCHANGED vars
  BY <1>7 DEF vars
<1> QED
  BY <1>2, <1>3, <1>4, <1>5, <1>6, <1>7 DEF Next

\* A directory whose record a crash has torn is not taken by any sweep, answer or
\* command of any later process: the edit in it stays where it is, unseen.
THEOREM TornIsLeft == Spec => TornIsLeftAlone
<1>1. IndInv /\ [Next]_vars
        => [Orphaned => Orphaned' /\ (content' # content => app # "none")]_vars
  BY OrphanStep
<1> QED
  BY <1>1, Invariant, PTL DEF Spec, TornIsLeftAlone
===============================================================================
