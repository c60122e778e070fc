------------------------------ MODULE SessionLife ------------------------------
(***************************************************************************)
(* One session of slipcase-open from the moment a container is opened to   *)
(* the moment its directory goes, at the grain of the file operations: the *)
(* application saving into the session directory, the watch, the resident  *)
(* instance pumping, writing back, closing, recovering, and other programs *)
(* writing the container.                                                  *)
(*                                                                         *)
(* The instance is one thread.  pc is the file operation it is about to    *)
(* do, task is what it is doing it for; everybody else may act between any *)
(* two of its steps, and it may die between any two of them.               *)
(*                                                                         *)
(* Sources: src/src/flow.rs, writeback.rs, extract.rs, session.rs,         *)
(* watch.rs, and resident.rs and main.rs for who calls them.               *)
(***************************************************************************)
EXTENDS Recovery

CONSTANTS
    World,      \* what may happen to the program, from Happenings
    MaxSaves,   \* how often the application saves
    MaxOthers,  \* how often another program touches the container
    MaxCrashes  \* how often the instance dies

Happenings == {"lose_event",  \* the platform drops or errors a watch event
               "fail",        \* a file operation fails
               "crash",       \* the instance, or a recover command, is killed
               "other",       \* another program writes, moves, breaks the container
               "litter",      \* an application leaves a backup beside the file for good
               "reopen",      \* the container is opened again
               "command"}     \* slipcase-open recover is run

ASSUME WorldAssumption == World \subseteq Happenings
ASSUME BoundsAssumption == MaxSaves \in Nat /\ MaxOthers \in Nat /\ MaxCrashes \in Nat

VARIABLES
    \* the disk
    container,  \* what is at the recorded path
    content,    \* the content file in the session directory
    siblings,   \* whether anything else is in the content directory
    record,     \* session.toml: the agreement it records, or what is wrong with it
    \* the application
    app,        \* "none", "idle", or how far into a save: "half", "temp"
    saves,      \* how many saves it has begun
    \* the watch
    coming,     \* changes the platform has yet to deliver
    queued,     \* changes in the channel, not yet drained
    \* the resident instance
    up, live, lingering,
    pending,    \* how many entries of the pending list are about this session
    held,       \* the agreement in the live or lingering session's own record
    pc, task,
    copy,       \* the agreement in the record the task works with
    taken,      \* the bytes extracted or packed by the task
    seen,       \* what the container held when the task compared
    \* the rest of the machine
    others, crashes,
    \* history, read by the properties and by no action
    ours,       \* versions this session extracted from or put in the container
    landed,     \* versions this tool has put in the container, ever
    examined,   \* the content file has been compared since it last changed
    refused,    \* a write-back failed since the content file last changed
    lied        \* an agreement was recorded about bytes that are not ours

disk    == <<container, content, siblings, record>>
editor  == <<app, saves>>
watch   == <<coming, queued>>
holding == <<up, live, lingering, pending, held>>
step    == <<pc, task, copy, taken, seen>>
counts  == <<others, crashes>>
history == <<ours, landed, examined, refused, lied>>
vars    == <<disk, editor, watch, holding, step, counts, history>>

Change == {"Content", "Sibling"}
Step   == {"idle", "extract", "agree", "launch", "compare", "check", "repack",
           "commit", "readback", "count", "siblings", "remove", "standdown"}
Task   == {"none", "open", "pump", "close", "quit", "settled", "reopen",
           "sweep", "answer", "discard", "command", "command_discard"}

\* The type invariant.
Flags == {siblings, up, live, lingering, examined, refused, lied} \subseteq BOOLEAN
TypeOK ==
    /\ Flags
    /\ container \in Container /\ content \in File /\ record \in Record
    /\ app \in {"none", "idle", "half", "temp"} /\ saves \in Nat
    /\ coming \subseteq Change /\ queued \subseteq Change
    /\ pending \in Nat /\ held \in Agreed
    /\ pc \in Step /\ task \in Task /\ copy \in Agreed
    /\ taken \in File /\ seen \in File
    /\ others \in Nat /\ crashes \in Nat
    /\ ours \subseteq Version /\ landed \subseteq Version

Init ==
    /\ container = [at |-> "container", name |-> Recorded, holds |-> Original]
    /\ content = Nothing /\ siblings = FALSE /\ record = NoDir
    /\ app = "none" /\ saves = 0
    /\ coming = {} /\ queued = {}
    /\ up = TRUE /\ live = FALSE /\ lingering = FALSE /\ pending = 0
    /\ held = Unknown
    /\ pc = "idle" /\ task = "none" /\ copy = Unknown
    /\ taken = Nothing /\ seen = Nothing
    /\ others = 0 /\ crashes = 0
    /\ ours = {} /\ landed = {}
    /\ examined = FALSE /\ refused = FALSE /\ lied = FALSE

-----------------------------------------------------------------------------
Dir == record # NoDir
Readable == record \in Agreed
Held == live \/ lingering \/ pending > 0
\* A watch exists from just before the launch until the session is let go.
Watching == live \/ lingering \/ pc = "launch" \/ task \in {"close", "quit"}
Notice(what) == coming' = IF Watching THEN coming \cup what ELSE coming

Idle == pc = "idle"
\* Begin a task with the record it works from, go on with it, end it: its locals
\* go with it.
Begin(t, first, agreement) ==
    task' = t /\ pc' = first /\ copy' = agreement /\ UNCHANGED <<taken, seen>>
End ==
    /\ pc' = "idle" /\ task' = "none" /\ copy' = Unknown
    /\ taken' = Nothing /\ seen' = Nothing
Go(next) ==
    IF next = "idle" THEN End ELSE pc' = next /\ UNCHANGED <<task, copy, taken, seen>>

\* fs::write of session.toml: it truncates and then writes, so a failure can
\* leave the old text or a torn one.
Write(agreement) ==
    record' \in IF "fail" \in World THEN {agreement, record, Torn} ELSE {agreement}

(***************************************************************************)
(* Opening: flow::open after policy has allowed it.                        *)
(***************************************************************************)
\* Mutant: a directory that is there already is taken over.
CreateOver ==
    /\ up /\ Idle /\ ~Held /\ app = "none"
    /\ container.at = "container" /\ container.name = Recorded
    /\ record' = Unknown /\ taken' = container.holds
    /\ pc' = "extract" /\ task' = "open" /\ copy' = Unknown
    /\ ours' = {} /\ lied' = FALSE
    /\ UNCHANGED <<container, content, siblings, editor, watch, holding, seen,
                   counts, landed, examined, refused>>

\* session::create: the directory, and a record that knows no agreement.  The
\* container has been opened: taken is what that handle reads.
Create ==
    /\ up /\ Idle /\ ~Dir /\ ~Held /\ app = "none"
    /\ container.at = "container" /\ container.name = Recorded
    /\ record' = Unknown /\ taken' = container.holds
    /\ pc' = "extract" /\ task' = "open" /\ copy' = Unknown
    /\ ours' = {} /\ lied' = FALSE
    /\ UNCHANGED <<container, content, siblings, editor, watch, holding, seen,
                   counts, landed, examined, refused>>

\* extract::extract up to dest.commit.
Extract ==
    /\ pc = "extract"
    /\ content' = taken /\ ours' = ours \cup {taken}
    /\ examined' = TRUE /\ refused' = FALSE
    /\ Go("agree")
    /\ UNCHANGED <<container, siblings, record, editor, watch, holding, counts,
                   landed, lied>>

\* Mutant: the extraction is never noted.
AgreeOnExtractionUnnoted ==
    /\ pc = "agree"
    /\ pc' = "launch" /\ coming' = {} /\ queued' = {}
    /\ UNCHANGED <<disk, editor, holding, task, copy, taken, seen, counts, history>>

\* extract::extract's note_agreement, best effort, and the mark carried over.
AgreeOnExtraction ==
    /\ pc = "agree"
    /\ copy' = taken /\ Write(taken)
    /\ pc' = "launch" /\ coming' = {} /\ queued' = {}
    /\ UNCHANGED <<container, content, siblings, editor, holding, task, taken,
                   seen, counts, history>>

\* Watch::on has the directory, the desktop is given the file, and the table
\* takes the session, or cannot tell what its container is and drops it.  An
\* application may put a lock file beside it.
Launch ==
    /\ pc = "launch"
    /\ app' = "idle" /\ siblings' \in BOOLEAN
    /\ \/ live' = TRUE /\ held' = copy
       \/ "fail" \in World /\ UNCHANGED <<live, held>>
    /\ End
    /\ UNCHANGED <<container, content, record, saves, watch, up, lingering,
                   pending, counts, history>>

\* A failure of any of the three takes the directory with it.
OpenFails ==
    /\ "fail" \in World /\ pc \in {"extract", "agree", "launch"}
    /\ record' = NoDir /\ content' = Nothing
    /\ End
    /\ UNCHANGED <<container, siblings, editor, watch, holding, counts, history>>

(***************************************************************************)
(* What the resident instance begins on a turn, a request or an answer.    *)
(***************************************************************************)
\* Mutant: only the first change drained is looked at.
PumpFirstOnly ==
    /\ up /\ Idle /\ live /\ queued # {}
    /\ queued' = {}
    /\ IF queued = {"Content"} THEN Begin("pump", "compare", held) ELSE End
    /\ UNCHANGED <<disk, editor, coming, holding, counts, history>>

\* Opened::pump: nothing is done unless a content change was drained.
Pump ==
    /\ up /\ Idle /\ live /\ queued # {}
    /\ queued' = {}
    /\ IF "Content" \in queued THEN Begin("pump", "compare", held) ELSE End
    /\ UNCHANGED <<disk, editor, coming, holding, counts, history>>

\* Mutant: a close that does not pump.
FinishUnpumped(t) ==
    /\ up /\ Idle /\ live
    /\ live' = FALSE /\ held' = Unknown /\ queued' = {}
    /\ Begin(t, "siblings", held)
    /\ UNCHANGED <<disk, editor, coming, up, lingering, pending, counts, history>>

\* Resident::close and the draining of stand_down: the session leaves the table
\* and Opened::close pumps once more.
Finish(t) ==
    /\ up /\ Idle /\ live
    /\ live' = FALSE /\ held' = Unknown /\ queued' = {}
    /\ Begin(t, IF "Content" \in queued THEN "compare" ELSE "siblings", held)
    /\ UNCHANGED <<disk, editor, coming, up, lingering, pending, counts, history>>
Close == Finish("close")

\* Resident::stand_down, begun.
Quit ==
    \/ Finish("quit")
    \/ /\ up /\ Idle /\ ~live
       /\ Begin("quit", "standdown", held)
       /\ UNCHANGED <<disk, editor, watch, holding, counts, history>>

\* Mutant: the change is looked at and left in the channel.
NoticeLingeringPeek ==
    /\ up /\ Idle /\ lingering /\ queued # {}
    /\ UNCHANGED vars

\* Lingering::has_settled draining a change, which starts the quiet period over.
NoticeLingering ==
    /\ up /\ Idle /\ lingering /\ queued # {}
    /\ queued' = {}
    /\ UNCHANGED <<disk, editor, coming, holding, step, counts, history>>

\* Mutant: what has settled stays among what is lingering.
SettledAndKept ==
    /\ up /\ Idle /\ lingering /\ queued = {}
    /\ Dir /\ ~siblings
    /\ Begin("settled", "compare", held)
    /\ UNCHANGED <<disk, editor, watch, holding, counts, history>>

\* Lingering::has_settled answering yes: nothing came for the quiet period, and
\* the content directory can be read and holds no sibling.
Settled ==
    /\ up /\ Idle /\ lingering /\ queued = {}
    /\ Dir /\ ~siblings
    /\ lingering' = FALSE /\ held' = Unknown
    /\ Begin("settled", "compare", held)
    /\ UNCHANGED <<disk, editor, watch, up, live, pending, counts, history>>

\* Resident::open of the same container while this session is not in the table:
\* ask_about_what_was_left scans the disk, and does not ask who holds what.
Reopen ==
    /\ "reopen" \in World
    /\ up /\ Idle /\ ~live /\ Readable /\ container.at # "gone"
    /\ Begin("reopen", "compare", record)
    /\ UNCHANGED <<disk, editor, watch, holding, counts, history>>

\* Resident::settle with WriteBack: no comparison, straight to the write-back.
AnswerWriteBack ==
    /\ up /\ Idle /\ pending > 0
    /\ pending' = pending - 1
    /\ Begin("answer", "check", IF Readable THEN record ELSE Unknown)
    /\ UNCHANGED <<disk, editor, watch, up, live, lingering, held, counts, history>>

\* Resident::settle with Discard.
AnswerDiscard ==
    /\ up /\ Idle /\ pending > 0
    /\ pending' = pending - 1
    /\ IF Dir THEN Begin("discard", "remove", copy) ELSE End
    /\ UNCHANGED <<disk, editor, watch, up, live, lingering, held, counts, history>>

\* let_go_of_the_unanswered, where nothing is standing to keep the question.
LetGo ==
    /\ up /\ Idle /\ pending > 0
    /\ pending' \in 0 .. pending - 1
    /\ UNCHANGED <<disk, editor, watch, up, live, lingering, held, step, counts,
                   history>>

\* main::recover_one, run by a person: refused only for a session listed as open.
Command ==
    /\ "command" \in World
    /\ Idle /\ Readable /\ ~live
    /\ \/ Begin("command", "check", record)
       \/ Begin("command_discard", "remove", record)
    /\ UNCHANGED <<disk, editor, watch, holding, counts, history>>

\* run's exit rule, with nothing standing.
Exit ==
    /\ up /\ Idle /\ ~Held
    /\ up' = FALSE
    /\ UNCHANGED <<disk, editor, watch, live, lingering, pending, held, step,
                   counts, history>>

\* Mutant: a record that does not parse is taken for one that knows no agreement.
StartDespiteTorn ==
    /\ ~up /\ Idle
    /\ up' = TRUE
    /\ IF Dir THEN Begin("sweep", "compare", IF Readable THEN record ELSE Unknown)
              ELSE UNCHANGED step
    /\ UNCHANGED <<disk, editor, watch, live, lingering, pending, held, counts, history>>

\* main::open of a new instance: resident::sweep of what scan can read.
Start ==
    /\ ~up /\ Idle
    /\ up' = TRUE
    /\ IF Readable THEN Begin("sweep", "compare", record)
                   ELSE UNCHANGED step
    /\ UNCHANGED <<disk, editor, watch, live, lingering, pending, held, counts, history>>

(***************************************************************************)
(* The file operations a task goes through.                                *)
(***************************************************************************)
\* Where a task goes when there is nothing to write, and when a write-back has
\* succeeded.  A close looks at the siblings; recovery removes.
WhenQuiet == CASE task \in {"close", "quit"}    -> "siblings"
               [] task \in {"settled", "sweep"} -> "remove"
               [] OTHER                         -> "idle"
WhenWritten == CASE task \in {"close", "quit"} -> "siblings"
                 [] task = "pump"              -> "idle"
                 [] OTHER                      -> "remove"

\* recover::state, and what each caller does with it.  save_if_changed takes
\* every state but the quiet ones to the write-back; recovery takes its own
\* edits there, and a conflict becomes a question.
Compare ==
    /\ pc = "compare"
    /\ examined' = TRUE
    /\ LET course == Course(State(content, container, copy)) IN
       \/ course = "Sweep" /\ Go(WhenQuiet) /\ UNCHANGED pending
       \/ /\ \/ course = "WriteBack" /\ task # "sweep"
             \/ course = "Ask" /\ task \in {"pump", "close", "quit"}
          /\ pc' = "check"
          /\ seen' = IF container.at = "container" THEN container.holds ELSE Nothing
          /\ UNCHANGED <<pending, task, copy, taken>>
       \/ /\ course = "Ask" /\ task \in {"settled", "reopen"}
          /\ pending' = IF task = "reopen" /\ pending > 0 THEN pending ELSE pending + 1
          /\ End
       \/ course # "Sweep" /\ task = "sweep" /\ End /\ UNCHANGED pending
    /\ UNCHANGED <<disk, editor, watch, up, live, lingering, held, counts, ours,
                   landed, refused, lied>>

\* write_back up to the opening of source and destination: the content file and
\* the container are opened, and the container must still be the same one.
Reachable == content # Nothing /\ container.at = "container" /\ container.name = Recorded
Check ==
    /\ pc = "check" /\ Reachable
    /\ taken' = content
    /\ pc' = "repack"
    /\ UNCHANGED <<disk, editor, watch, holding, task, copy, seen, counts, history>>

\* Repack::write: the bytes are read through the handle Check opened, which is
\* the file as it is now or, where the application has since renamed another
\* over it, as it was.
Repack ==
    /\ pc = "repack"
    /\ taken' \in {taken, content}
    /\ pc' = "commit"
    /\ UNCHANGED <<disk, editor, watch, holding, task, copy, seen, counts, history>>

\* Destination::commit: a rename over whatever is at the path by now.
Commit ==
    /\ pc = "commit"
    /\ container' = [at |-> "container", name |-> Recorded, holds |-> taken]
    /\ landed' = landed \cup {taken} /\ ours' = ours \cup {taken}
    /\ Go("readback")
    /\ UNCHANGED <<content, siblings, record, editor, watch, holding, counts, examined, refused, lied>>

\* The container is opened again and what it holds is noted, best effort.
ReadBack ==
    /\ pc = "readback"
    /\ IF container.at = "container"
       THEN /\ copy' = container.holds /\ Write(container.holds)
            /\ lied' = (lied \/ container.holds \notin ours)
       ELSE UNCHANGED <<copy, record, lied>>
    /\ held' = IF task = "pump" THEN copy' ELSE held
    /\ pc' = "count" /\ UNCHANGED task
    /\ UNCHANGED <<container, content, siblings, editor, watch, up, live,
                   lingering, pending, taken, seen, counts, ours, landed,
                   examined, refused>>

\* Session::note_write_back, the last thing write_back does.
Count ==
    /\ pc = "count"
    /\ record' = copy
    /\ Go(WhenWritten)
    /\ UNCHANGED <<container, content, siblings, editor, watch, holding, counts, history>>

\* Mutant: put_it_back removes the session whether or not it could write.
FailAndRemove ==
    /\ \/ pc = "check" /\ ~Reachable
       \/ "fail" \in World /\ pc \in {"check", "repack", "commit", "count"}
    /\ refused' = TRUE
    /\ pending' = IF task = "answer" THEN pending + 1 ELSE pending
    /\ Go(IF task \in {"settled", "reopen"} THEN "remove"
          ELSE IF task = "quit" THEN "standdown" ELSE "idle")
    /\ UNCHANGED <<disk, editor, watch, up, live, lingering, held, counts, ours,
                   landed, examined, lied>>

\* write_back returns an error, from the check, a file operation, or the record
\* of a commit that has happened.  A session that was closing or lingering is
\* let go and stays on disk; a question goes back on the list.
Fail ==
    /\ \/ pc = "check" /\ ~Reachable
       \/ "fail" \in World /\ pc \in {"check", "repack", "commit", "count"}
    /\ record' \in IF pc = "count" THEN {record, Torn} ELSE {record}
    /\ refused' = TRUE
    /\ pending' = IF task = "answer" THEN pending + 1 ELSE pending
    /\ Go(IF task = "quit" THEN "standdown" ELSE "idle")
    /\ UNCHANGED <<container, content, siblings, editor, watch, up, live,
                   lingering, held, counts, ours, landed, examined,
                   lied>>

\* Opened::close asks the directory whether the application is still working:
\* if so, or if it cannot be read, the session and its watch linger, if not the
\* directory goes.
Siblings ==
    /\ pc = "siblings"
    /\ \/ /\ siblings \/ "fail" \in World
          /\ lingering' = TRUE /\ held' = copy
          /\ Go(IF task = "quit" THEN "standdown" ELSE "idle")
       \/ /\ ~siblings
          /\ Go("remove") /\ UNCHANGED <<lingering, held>>
    /\ UNCHANGED <<disk, editor, watch, up, live, pending, counts,
                   history>>

\* Session::remove.  The callers ignore its failure.
Remove ==
    /\ pc = "remove"
    /\ record' = NoDir /\ content' = Nothing /\ siblings' = FALSE
    /\ coming' = {} /\ queued' = {}
    /\ examined' = FALSE /\ refused' = FALSE
    /\ Go(IF task = "quit" THEN "standdown" ELSE "idle")
    /\ UNCHANGED <<container, editor, holding, counts, ours, landed, lied>>
RemoveFails ==
    /\ "fail" \in World /\ pc = "remove"
    /\ Go(IF task = "quit" THEN "standdown" ELSE "idle")
    /\ UNCHANGED <<disk, editor, watch, holding, counts, history>>

\* The rest of stand_down: a lingering session with nothing to say goes, the
\* other is left, the questions are withdrawn, and the process ends.
StandDown ==
    /\ pc = "standdown"
    /\ lingering' = FALSE /\ held' = Unknown
    /\ IF lingering /\ IsQuiet(State(content, container, held))
       THEN Go("remove") /\ examined' = TRUE /\ UNCHANGED <<up, pending>>
       ELSE Go("idle") /\ up' = FALSE /\ pending' = 0 /\ UNCHANGED examined
    /\ UNCHANGED <<disk, editor, watch, live, counts, ours,
                   landed, refused, lied>>

(***************************************************************************)
(* Everybody else.                                                         *)
(***************************************************************************)
\* The instance dies, and a command under way with it.  What is left is what is on disk, with
\* session.toml torn where it was being written.
Crash ==
    /\ "crash" \in World /\ crashes < MaxCrashes
    /\ up \/ ~Idle
    /\ crashes' = crashes + 1
    /\ record' \in IF pc \in {"agree", "readback", "count"} THEN {record, Torn} ELSE {record}
    /\ up' = FALSE /\ live' = FALSE /\ lingering' = FALSE /\ pending' = 0
    /\ held' = Unknown /\ coming' = {} /\ queued' = {}
    /\ End
    /\ UNCHANGED <<container, content, siblings, editor, others, history>>

\* A recover command, which is a process of its own, dies alone.
CommandDies ==
    /\ "crash" \in World /\ crashes < MaxCrashes
    /\ task \in {"command", "command_discard"}
    /\ crashes' = crashes + 1
    /\ record' \in IF pc \in {"readback", "count"} THEN {record, Torn} ELSE {record}
    /\ End
    /\ UNCHANGED <<container, content, siblings, editor, watch, holding, others, history>>

\* The application begins to save: over the content file, or beside it.
BeginSave ==
    /\ app = "idle" /\ Dir /\ saves < MaxSaves
    /\ saves' = saves + 1
    /\ \/ /\ app' = "half" /\ content' = [by |-> "half", n |-> saves + 1]
          /\ examined' = FALSE /\ refused' = FALSE
          /\ Notice({"Content"}) /\ UNCHANGED siblings
       \/ /\ app' = "temp" /\ siblings' = TRUE
          /\ Notice({"Sibling"}) /\ UNCHANGED <<content, examined, refused>>
    /\ UNCHANGED <<container, record, queued, holding, step, counts, ours,
                   landed, lied>>

\* It finishes: the content file is the whole save, by the last write or by a
\* rename of the temporary over it, which may leave a backup behind.  A save
\* whose directory has gone goes nowhere.
EndSave ==
    /\ app \in {"half", "temp"}
    /\ app' = "idle"
    /\ IF Dir
       THEN /\ content' = [by |-> "app", n |-> saves]
            /\ examined' = FALSE /\ refused' = FALSE
            /\ siblings' \in IF app = "temp" THEN BOOLEAN ELSE {siblings}
            /\ Notice(IF app = "temp" THEN Change ELSE {"Content"})
       ELSE UNCHANGED <<content, examined, refused, siblings, coming>>
    /\ UNCHANGED <<container, record, saves, queued, holding, step, counts,
                   ours, landed, lied>>

\* It finishes with the document, and clears up after itself or leaves a backup
\* or a lock file there for good.
Leave ==
    /\ app = "idle"
    /\ app' = "none"
    /\ \/ siblings' = FALSE /\ Notice(IF siblings THEN {"Sibling"} ELSE {})
       \/ "litter" \in World /\ UNCHANGED <<siblings, coming>>
    /\ UNCHANGED <<container, content, record, saves, queued, holding, step,
                   counts, history>>

\* The watch's handler puts what the platform reported in the channel.
Deliver ==
    /\ coming # {}
    /\ queued' = queued \cup coming /\ coming' = {}
    /\ UNCHANGED <<disk, editor, holding, step, counts, history>>
LoseEvent ==
    /\ "lose_event" \in World /\ coming # {}
    /\ coming' = {}
    /\ UNCHANGED <<disk, editor, queued, holding, step, counts, history>>

\* Another program writes the container, puts a container of another name in
\* its place, moves it away, or leaves something there that cannot be read.
OtherWrites ==
    /\ "other" \in World /\ others < MaxOthers
    /\ others' = others + 1
    /\ container' \in
         [at : {"container"}, name : Names, holds : {[by |-> "other", n |-> others + 1]}]
         \cup {[container EXCEPT !.at = a] : a \in {"gone", "unreadable"}}
    /\ UNCHANGED <<content, siblings, record, editor, watch, holding, step,
                   crashes, history>>

-----------------------------------------------------------------------------
Opening == Create \/ Extract \/ AgreeOnExtraction \/ Launch \/ OpenFails
Working == \/ Compare \/ Check \/ Repack \/ Commit \/ ReadBack \/ Count \/ Fail
           \/ Siblings \/ Remove \/ RemoveFails \/ StandDown
Requests == Close \/ Quit \/ Reopen \/ AnswerWriteBack \/ AnswerDiscard \/ Command
Turns == Pump \/ NoticeLingering \/ Settled \/ LetGo \/ Exit \/ Start
Outside == \/ Crash \/ CommandDies \/ BeginSave \/ EndSave \/ Leave \/ Deliver \/ LoseEvent
           \/ OtherWrites

Next == Opening \/ Working \/ Requests \/ Turns \/ Outside

Spec == Init /\ [][Next]_vars

\* The loop goes round: a task under way goes on, and every request is followed
\* by a turn, which drains what has been delivered and asks the lingering
\* session whether it has settled, so no stream of requests can starve those;
\* the platform delivers; an application finishes a save it has begun.  Nobody
\* has to save, close, quit, answer or come back.
Fairness ==
    /\ WF_vars(Working \/ Extract \/ AgreeOnExtraction \/ Launch)
    /\ SF_vars(Pump) /\ SF_vars(NoticeLingering) /\ SF_vars(Settled)
    /\ WF_vars(Deliver) /\ WF_vars(EndSave)
FairSpec == Spec /\ Fairness

-----------------------------------------------------------------------------
(***************************************************************************)
(* Properties.                                                             *)
(***************************************************************************)
\* The content file is a whole save that is in no container.
Unsaved == content.by = "app" /\ content \notin landed

\* The directory goes with such a save in it, and nobody has asked for that.
Asked == {"discard", "command_discard"}
Loses == Dir /\ ~Dir' /\ Unsaved /\ task \notin Asked

\* An edit the tool has compared is never lost, through closes, crashes,
\* sweeps, recoveries, failures and questions: a directory goes with a save
\* that is in no container only when that save arrived after the last look at
\* it, or when a close follows a write-back that was refused.
ExaminedEditsSurvive ==
    [][Loses /\ examined => refused /\ task \in {"close", "quit"}]_vars

\* A close loses a save nobody has compared only where the watch has still to
\* bring word of it: what has been reported by the time of the last pump is
\* written back or kept.
ClosesLoseOnlyTheUnheard ==
    [][Loses /\ ~examined /\ task \in {"close", "quit"}
        => "Content" \in coming \cup queued]_vars

\* A close or a quit takes no edit with it, but one so new that the watch has
\* still to bring word of it: not one that the platform never reported, and not
\* one whose write-back was refused.
ClosesKeepTheEdit ==
    [][Loses /\ task \in {"close", "quit"} => "Content" \in coming \cup queued]_vars

\* The session as the abstract specification sees it: the edit there is to keep,
\* which edits have landed, what has been done about it, and what it may expect.
Outstanding == IF Unsaved THEN content ELSE Nothing
AppVersion  == {v \in Version : v.by = "app"}
Delivered   == landed \cap AppVersion
Compared    == Unsaved /\ examined
Declined    == Unsaved /\ refused
Prospect    == IF task \in Asked THEN "asked"
               ELSE IF task \in {"close", "quit"} THEN "closing" ELSE "keeping"

Saving      == app \in {"half", "temp"}

Promise == INSTANCE Custody WITH
    Edits <- AppVersion, None <- Nothing, edit <- Outstanding, landed <- Delivered,
    looked <- Compared, refused <- Declined, leave <- Prospect, saving <- Saving

\* Whatever crashes, fails, is lost or is run beside it, a session keeps the
\* promise: no step of the tool takes an edit or writes over it but as Custody
\* says, and what has landed once has landed.
KeepsCustody == Promise!Spec

\* A write-back replaces what another program put in the container.
Overwrites ==
    /\ container.at = "container" /\ container.holds.by = "other"
    /\ container.holds \notin ours
    /\ container' # container /\ others' = others

\* Recovery writes into a container by itself only over what the session put or
\* found there: what another program wrote, and recovery saw, is overwritten
\* only when a person says so, or after a note of agreement that was a lie.
RecoveryKeepsOthersWork ==
    [][Overwrites /\ task \in {"settled", "reopen"} /\ seen = container.holds => lied]_vars

\* A live session does not replace what it has seen another program put in its
\* container: save_if_changed's comment says that a container replaced underneath
\* a live session goes to the write-back to be refused and reported.
LiveKeepsOthersWork ==
    [][Overwrites /\ task \in {"pump", "close", "quit"} => seen # container.holds]_vars

\* Where no file operation fails, nobody is asked anything unless somebody else
\* has touched the container or an instance died.
OnlyConflictsAreAsked ==
    "fail" \notin World /\ pending > 0 => others > 0 \/ crashes > 0

\* A directory whose session.toml a crash has torn, and that nobody holds in
\* memory, is left alone for good: scan passes over it, so no sweep takes it, no
\* open and no command reaches it, and nobody but the application touches the
\* edit that may be in it.  Nobody is told of it either.
Orphaned == record = Torn /\ ~live /\ ~lingering /\ pending = 0 /\ pc \in {"idle", "standdown"}
TornIsLeftAlone ==
    [][Orphaned => Orphaned' /\ (content' # content => app # "none")]_vars

\* Nothing but what an application has beside its file keeps a lingering session
\* from settling, unless somebody opens its container again or recovers it
\* meanwhile: its directory is there to be looked at, whatever failed on the way,
\* and no question about it has been put that settling would put once more.
Alone == {"reopen", "command"} \cap World = {}
LingeringCanSettle == Alone /\ lingering => Dir /\ pending = 0

\* A finished save of a live session reaches the container, unless the next
\* save, the close, or a refusal comes first.
SavesLand ==
    \A n \in 1 .. MaxSaves :
        (live /\ content = [by |-> "app", n |-> n])
            ~> (\/ [by |-> "app", n |-> n] \in landed
                \/ saves > n \/ ~live \/ refused)

\* A closed session does not linger for ever once its application has gone and
\* left nothing beside its file.  One that leaves a backup there for good makes
\* it linger as long as the process lives, as watch.rs says it must.
LingeringEnds == (lingering /\ app = "none" /\ ~siblings) ~> ~lingering

-----------------------------------------------------------------------------
(***************************************************************************)
(* The inductive invariant behind ExaminedEditsSurvive,                    *)
(* RecoveryKeepsOthersWork, OnlyConflictsAreAsked,                         *)
(* ClosesLoseOnlyTheUnheard and LingeringCanSettle.                        *)
(***************************************************************************)
\* Which step belongs to which task, and who holds a session in the table.
StepsMatch ==
    /\ Idle <=> task = "none"
    /\ Idle => copy = Unknown
    /\ (pc \in {"extract", "agree", "launch"}) <=> (task = "open")
    /\ pc = "siblings" => task \in {"close", "quit"}
    /\ pc = "standdown" => task = "quit"
    /\ ~up => ~live /\ task \in {"none", "command", "command_discard"}
    /\ live => ~lingering /\ pending = 0 /\ task \in {"none", "pump"}
    /\ task = "pump" => live /\ pc # "remove"
    /\ task = "open" => ~lingering /\ pending = 0 /\ app = "none"
    /\ pc \in {"extract", "agree", "repack", "commit"} => taken # Nothing
    /\ pc = "repack" => content # Nothing

\* An edit that has been compared and is in no container.
Neglected == examined /\ Unsaved

\* Where such an edit can be, step by step: it is the one being packed, or its
\* write-back was refused, or somebody asked for it to go.
EditsAccounted ==
    /\ container.holds.by = "app" => container.holds \in landed
    /\ ~Dir => content = Nothing /\ task # "open"
    /\ pc = "extract" /\ taken.by = "app" => taken \in landed
    /\ pc \in {"extract", "agree", "launch", "readback", "count"} => ~Neglected
    /\ pc \in {"repack", "commit"} /\ Neglected => taken = content
    /\ Neglected /\ live /\ Idle => refused
    /\ Neglected /\ pc = "siblings" => refused
    /\ pc = "remove" /\ Neglected => \/ task \in Asked
                                     \/ refused /\ task \in {"close", "quit"}

\* Every note of an agreement, on disk or in memory, is of the session's own
\* bytes or comes after a lie, and recovery packs only where it agrees with
\* what it saw.
AgreementsAccounted ==
    /\ \A a \in {record, copy, held} : a \in Version => a \in ours \/ lied
    /\ held \in Version => live \/ lingering
    /\ pc = "agree" => taken \in ours
    /\ pc \in {"check", "repack", "commit"} /\ task \in {"settled", "reopen"}
         => seen \in {Nothing, copy}

\* Where nothing fails, nobody else has touched the container, and no instance
\* has died.
Undisturbed == "fail" \notin World /\ others = 0 /\ crashes = 0

\* Then every agreement, in the record and in memory, is of what the container
\* holds, but between a commit and the notes of it: on disk, with the task, in
\* the table and with a session that lingers.  Nothing is ever a conflict.
AgreementsKept ==
    Undisturbed =>
        /\ container.at = "container" /\ container.name = Recorded
        /\ pending = 0 /\ task \notin {"answer", "discard"}
        /\ pc \in {"extract", "agree"} => taken = container.holds
        /\ Dir /\ pc \notin {"extract", "agree", "readback", "count"}
             => record = container.holds
        /\ pc \in {"launch", "compare", "check", "repack", "commit", "count", "siblings"}
             => copy = container.holds
        /\ live /\ pc # "readback" => held = container.holds
        /\ lingering /\ Dir /\ pc \notin {"readback", "count", "remove"}
             => held = container.holds
        /\ lingering /\ task \in {"close", "quit"} => pc \in {"standdown", "remove"}

\* Where no event is lost, an edit of a live or a closing session that has not been
\* compared is about to be, or is in an event that nobody has drained.
Reported ==
    /\ pc \in {"agree", "launch"} => examined
    /\ /\ "lose_event" \notin World
       /\ Unsaved /\ ~examined
       /\ live \/ task \in {"close", "quit"}
       /\ pc \notin {"compare", "standdown"}
       => "Content" \in coming \cup queued

\* A session in memory, where nobody reopens or recovers it, is one with a
\* directory and no question, which no task but the loop's own is at work on.
Lingers ==
    Alone =>
      /\ live \/ lingering => Dir
      /\ lingering => up /\ pending = 0 /\ pc \in {"idle", "standdown"}
      /\ task \in {"close", "quit"} /\ pc \notin {"standdown", "remove"} => Dir /\ pending = 0

\* All that the proofs carry from one step to the next.
IndInv ==
    /\ TypeOK /\ StepsMatch /\ EditsAccounted /\ AgreementsAccounted
    /\ AgreementsKept /\ Reported /\ Lingers
===============================================================================
