# A specification of slipcase-open

slipcase-open opens the content file of a `.slpc` container in its usual
application and writes every save back. The promise is about other people's
bytes: an edit is not lost, nobody else's change is written over, and a person
is asked only when the program cannot know. This directory has a TLA+ model of
the parts of the program that have to keep that promise, what TLC finds of them
on small instances, and what TLAPS proves of them for all.

Contents:

1. The system
2. The modules, and how they correspond to the code
3. What is checked
4. What is proved
5. Where the code and its comments disagree
6. What is not modelled

## 1. The system

### Components

| component | source | state it keeps | operations |
|---|---|---|---|
| session life cycle | `flow.rs`, `session.rs` | a directory with the content file and `session.toml`; in memory the record and the watch | open, pump, save_if_changed, close, has_settled, create, scan, note_agreement, note_write_back, remove |
| extraction | `extract.rs` | none | the first write of the content file, and the first agreement |
| watch | `watch.rs` | a channel of changes | on, drain, siblings_present, drop |
| write-back | `writeback.rs` | none | write_back: check, repack, commit, read back, count |
| recovery decisions | `recover.rs` | none | state (seven of them), course, is_quiet |
| resident instance | `resident.rs` | the table of live sessions, the lingering ones, the pending questions, the troubles | open, close, list, turn (pump_all, ask_about_what_has_settled, act_on_answers, let_go_of_the_unanswered), stand_down, sweep, run |
| table and identity | `table.rs`, `identity.rs` | entries of identity, path and session | insert, find_mut, refresh, remove, drain |
| front door | `endpoint.rs`, `ipc.rs` | a Unix socket in the file system, or a named pipe, which its server can lose; connections | connect, bind, incoming, ask, take, answer |
| command line | `main.rs` | none | open, stay or see out, sessions, close, recover |
| policy | `policy/*` | none; files or registry keys that others write | read a layer, resolve four of them, decide |
| extensions and content check | `extension.rs`, `content.rs` | none | the key of a name, what leading bytes are |
| presentation | `present/*`, `outside.rs` | notifications and the numbers recorded for them, answers, message boxes; an icon, a menu, and what is shown and chosen, each behind a lock | ask, withdraw, listen, answers, insist; show, taken, redress, offer |
| launcher | `platform.rs` | none | hand a file to the desktop |

### How they interact

An `open` connects to the door. If somebody answers, the request goes to them
and the invocation ends; if not, it binds, sweeps what was left and is quiet,
opens the container itself and serves. One thread accepts connections and sends
them to the loop; the loop takes one request, then makes one turn. On a desktop a
thread listens for what became of notifications; on Windows the icon has a
thread with a message loop, and each message box a thread. The platform's
watcher has a thread of its own that puts changes in a channel per session. The
application, other programs and other invocations of slipcase-open act whenever
they like: on the content file, on the container, on the session directory
(`recover` is a process of its own and touches the disk itself).

The disk is the only thing shared by all of them. Nothing in it is locked; what
protects a container is a comparison before the write and an atomic rename, and
what protects an edit is `session.toml`'s note of what the two sides last agreed
on.

### What is hard

- **Interleaving.** A write-back is five file operations with the application,
  other programs and the watch acting between them. Binding a socket is up to
  four.
- **Failure and restart.** Each operation may fail, and the process may die
  between any two; a later instance starts from the directory alone.
- **Delivery.** Events may be late, several for one save, or lost.
- **Ordering.** Questions, answers, timeouts, closes and reopens about one
  session come in any order, from several sources.
- **Stale state.** A table of identities that renames invalidate, this program's
  and others'; a scan that does not know who holds what; a menu built from a list
  that has changed since.
- **People.** A button can be pressed between the service's showing it and the
  process's recording its number, or after the question has been settled some
  other way; a warning can go with the process before it has been seen.

`PROJECT.json` lists each hazard at its line, with the properties that would
catch it, or why none does yet.

### What makes each component correct

| component | properties |
|---|---|
| session, write-back, recovery | an edit that has been compared is not lost; a close loses only what it could not have heard of; a directory with a torn record is left alone; recovery does not overwrite another's work; nobody is asked without a conflict; saves land; lingering ends |
| resident, table | a container has one live session, and recovery leaves live sessions alone, wherever the table could know; what was left comes first; no button outlives its question |
| front door | one instance; a new one takes nothing another is serving; a request is handed over once; a caller is attended to, and hears back |
| presentation | a button is of a question that is held; a question that is held can be answered; a press is on its way until it is acted on; a trouble goes only by what was picked or became of its own session; a warning is not taken down unseen; the icon catches up |
| policy | a refusal that stands is not got round by a change elsewhere; a suppressed configuration neither adds nor breaks; the decision is the strongest layers'; an administered refusal can be told for one |

## 2. The modules, and how they correspond to the code

`PROJECT.json` maps every definition to its lines. In outline:

**`Recovery`** is `recover.rs` as operators: `State`, `Course`, `IsQuiet`, and
the vocabulary of versions. A version says who wrote it (`packed` at the
start, `app`, a `half` of a save, `other`) and counts; two versions are equal
where their CRCs are. `Record` is what `session.toml` says: an agreed version,
`Unknown`, `Torn` (does not parse), `NoDir`.

**`SessionLife`** (the core) is one session over its whole life, over crashes
and restarts. `pc` is the file operation the instance is about to do, `task`
what for. The tasks are the callers, the steps are shared:

| action | code |
|---|---|
| `Create`, `Extract`, `AgreeOnExtraction`, `Launch`, `OpenFails` | `flow::open`, `session::create`, `extract::extract` |
| `Pump` | `Opened::pump`: drains the channel; nothing more without a content change |
| `Compare` | `recover::state` and what its caller does: `save_if_changed` (pump, close, quit), `put_it_back` or the question (settled, reopen), the removal (sweep) |
| `Check`, `Repack`, `Commit`, `ReadBack`, `Count`, `Fail` | `write_back` |
| `Close`, `Quit`, `Siblings`, `Remove`, `RemoveFails`, `StandDown` | `Opened::close`, `Resident::close`, `stand_down`, `Session::remove` |
| `NoticeLingering`, `Settled` | `Lingering::has_settled` |
| `Reopen` | `ask_about_what_was_left`, for this session |
| `AnswerWriteBack`, `AnswerDiscard`, `LetGo` | `settle`, `let_go_of_the_unanswered` |
| `Command` | `recover_one` |
| `Exit`, `Start`, `Crash` | the end of `run`, a new `open` with its sweep, a kill |
| `BeginSave`, `EndSave`, `Leave`, `Deliver`, `LoseEvent`, `OtherWrites` | the application, the watch, other programs |
| `CommandDies` | a `recover` command killed while the instance lives on |

Every environment action may come between any two of the instance's steps. An
application that leaves may leave something beside its file for good
(`"litter"`), which `has_settled` then reads as an application at work.
Saves come in both forms: over the content file in place, with a half-written
version in between, and beside it with a rename. The history variables (`ours`,
`landed`, `examined`, `refused`, `lied`) are read by the properties and by no
action. `World` says which misfortunes may happen, so that a run can ask what
holds without some of them, and a theorem holds for every choice.

**`Custody`** is what all of that promises, and nothing else: an edit that is in
the session directory and in no container stays there until it lands in one,
unless its own application saves over it, a person asks for it to go, nobody has
looked at it yet, or it was refused and then the session was closed. It has six
variables and six actions. `SessionLife` has the refinement mapping
(`Outstanding`, `Delivered`, `Compared`, `Declined`, `Prospect`, and
`Promise == INSTANCE Custody WITH ...`), and `KeepsCustody` is `Promise!Spec`.

**`Resident`** is the instance with several sessions and several names for
files. A file operation is one step here, because `SessionLife` has the steps;
what is kept is the table with its identities, the three lists, the questions on
a screen, and the order of a multi-step open (`Open`, `Look` once for each
leftover, `Fresh`). A path names a file by its identity, or no file, and every
write-back renames a new file over the path, as `Destination::commit` does; the
identity of a file that is gone may come again. `pump_all` writes back one session
after the other (`Pump`) and then refreshes those it has written (`Refresh`; `due`
is its list). Other programs replace a container, take it away, or make one path
another name of the other's file, at any time (`OtherReplaces`, `OtherRemoves`,
`OtherLinks`). `recover::state` is summarised as `Unchanged`, `Edited` or
`Diverged`, and an edit here is one whose event has been reported. `unnoticed` is
history: the paths of live sessions on which the file has changed without the
table's being told. `MCResident` gives it symmetry for TLC.

**`FrontDoor`** is how invocations become, reach and leave the instance, with
`kind` either a socket (whose name is a file that outlives its listener and that
anybody can unlink) or a pipe (whose name is the listener's). `Bind`, `Probe`,
`Clear` and `Rebind` are the four system calls of `endpoint::bind` on Unix; on a
pipe only `Bind` happens. `Accept` is the accepting thread, `Handle` one round of
`run`, `Lost` the accepting thread on Windows finding that a caller has gone or
that the next pipe cannot be made, which ends it and the door with it,
`Disconnected` the loop's finding the thread gone, `Leave` the loop's end, `Deaf`
the thread's last accept, with nobody to send to, `StandDown` and `End` the process
going. `Hang` is what `ipc::ask` makes of a connection that closes before it is
answered: an error, with which the invocation ends.

**`Handover`** is what all of that promises of the request of one invocation: its
own process becomes an instance and sees to it, or it is given to an instance,
once, and it is over when it is answered, given up, or the instance has ended. It
has two variables, who is with whom and whose request is over, and three actions.
`FrontDoor` has the mapping (`With`, and `Promise == INSTANCE Handover WITH ...`):
a process is with itself from the bind until it ends, and with the listener it has
connected to while it waits. `HandsOverOnce` is `Promise!Spec`. The abstract
specification is a relation and not a function, so that being in two queues is
something the mapping can show and the promise forbids.

**`Policy`** is the decision inside an open. The three layers that have a source
can be changed by somebody between any two steps; `ReadMachine`, `ReadUser`,
`ReadConfiguration` or `SkipConfiguration` are `resolve`'s four reads in its
order, each of which may find a layer broken; `Decide` is `decide`, `Inspect` the
content check, `Launch` the rest of `flow::open`. `MayExtend`, `Over`, `Denied`
and `Managed` are the folds over the layers. `since` is history: everything each
layer has said during the open. `MCPolicy` has the layers TLC is given.

**`Present`**, **`Channel`**, **`Tray`** and **`Presence`** are the instance as a
person meets it. `Present` is the vocabulary of `present/mod.rs`: answers,
troubles, moods, what a list is shown. `Channel` is the four channels behind one
trait: a notification is on the `screen`, is `putting` between `Notify`'s return
and the recording of its number, is `recorded`; a press and a closing are signals
on the `bus`, which a thread of its own turns into `answers` (a toast's handler
does so itself). A withdrawal that the service does not carry out leaves a button
that nothing has a number of any more (`stuck`) and that can still be pressed.
`Tray` is the icon's thread: `Show` from the loop, `Redress`, `Offer`, `Pick` on
the other side of the locks, and `ShellRestarts`, by which the icon is added again
with its first colour. `menu` is the copy of the troubles that an open menu was
built from; `stale`, `meant` and `restarted` are history. `Presence` extends both with the
loop, in the order `run` and `turn` have it:

| action | code |
|---|---|
| `Tick`, `Disconnected`, `Request`, `Close` | what arrives within a tick, or that nothing can any more, `Resident::handle`, `close` |
| `NothingToOpen`, `AsksFirst`, `RecoverFails`, `Opens`, `Refuses`, `Misrepresents` | `Resident::open`, `ask_about_what_was_left`, `put_it_back` |
| `Stay` | `main.rs`: `open`'s `has_a_reason_to_stay` |
| `Asked` | the rest of a channel's `ask`, after the call |
| `PumpAll`, `Settled` | `pump_all`, `ask_about_what_has_settled` |
| `TakeAnswers`, `DealtWith`, `Reveal`, `Insists`, `Settles`, `LetGo` | `act_on_answers`, `settle`, `let_go_of_the_unanswered`, `stop_asking` |
| `ShowAndTake`, `StandDown`, `SeeOut` | the end of a round of `run`, `stand_down`, `see_out` |
| `Hears`, `Redresses` | the listening thread, the icon's |
| `Presses`, `PressesStuck`, `Closes`, `SeesBox`, `AtTheIcon`, `Command`, `Restarts` | a person, the `recover` command, the shell |

`owed` and `excused` are history: the presses made while their question was held
and not acted on yet, and the questions of which it is known why nobody can
answer them; `elsewhere` has the questions held that the command has settled.
`Worlds` is what may happen together: each world has its happenings and its bounds,
and a behaviour is in one of them. The theorems are for every set of worlds.
`MCPresence` has the four that TLC is given.

**`SessionLifeProofs`**, **`CustodyProofs`**, **`FrontDoorProofs`**,
**`HandoverProofs`**, **`ResidentProofs`**, **`PresenceProofs`**,
**`TroubleProofs`** and **`PolicyProofs`** have the theorems.

`SessionLife` extends `Recovery`. `Resident` and `FrontDoor` meet `SessionLife`
in what each leaves to it: one says which directories an instance acts on and
when, the other who is the instance. `Presence` has the same loop as `Resident`, with
the channel, the threads and the icon in place of the table and the files: a
session is open, lingering or none there, and a settled one goes, is put back, or
is asked about, whichever it is. `Policy` is what comes before `Create` in
`SessionLife`, where a refusal is an open that never begins.

### Abstractions

- Content is a version, never bytes; a CRC collision is left out.
- `recover::state` reads content file, container and both CRCs in one step. The
  next step is a separate one, so what it decided may be stale when used.
- `write_back`'s check of the name and its opening of the source are one step;
  the bytes packed are those at the check or at the repack (the handle is open
  over a rename).
- `Session::remove` takes everything or nothing.
- A `recover` command runs between two tasks of the instance, not inside one. It
  may die alone.
- The names of directories do not come again within a second.
- In `Resident` a directory whose removal fails after an answer's write-back has
  landed is one whose write-back was committed and could not be counted: the
  question goes back, and the directory agrees with its container.
- `Resident` leaves out the icon's troubles, which are in `Presence`; a question
  is asked and recorded in one step there, and in two in `Presence`.
- `Presence` puts a question among those held in the step of the call that shows
  it; the code does so when the call has returned, but only the loop's thread
  reads the list.
- In `Presence` a person at the icon acts just before the loop takes what was
  chosen, which is the only place where it is read or what is shown changes.
- A desktop's `withdraw` that cannot make its proxy returns without forgetting the
  numbers; that one is not told apart from one that is forgotten and not closed.
- A report, which is a statement with nothing behind it, is not on the screen.
- `FrontDoor` leaves out what is in a request: it is answered, opens, or closes.
- In `Policy` an extension is the key it is compared as, and an entry of a list
  the key it folds to, or one of the entries that match nothing.

## 3. What is checked

Bounds are constants: `MaxSaves`, `MaxOthers`, `MaxCrashes`. One save is enough
for an edit to exist, two for an edit to follow a note about another. One crash
is enough to leave each intermediate state of the disk, and another program's
one write to come between any two steps. `Resident` has two paths, which is what
a hard link takes, and two sessions, which is what one has to come between, and
two moves of applications and other programs together (`MaxMoves`): a container
replaced and then linked, an edit and a replacement, two edits. `left_beside`
needs one path, three sessions and no move. `FrontDoor` has three openers: two to race and one to be
the debris. `Policy` has a document's extension and a program's, eight layers
that each do one thing to the decision (two of them with suppression), a broken
one, and one change at any moment. `Presence` has one session (`Sessions`), two
notifications about it at once (`MaxAsks`: the one that was answered and the one
put again); and, in the guards, one message box at a time and one line picked a
turn. A world has how many troubles there may be at a time (`troubles`) and how
many presses not yet acted on (`presses`). `MCPresence` has four worlds: a question
and what can go wrong with it (a write-back or a removal fails, an open is refused,
a notification is not shown, is closed, cannot be withdrawn), with one trouble and
one press; a question that the `recover` command settles, with one of each; an icon
with two troubles, refusals, a restarting shell and a door that is lost, and no
press; two troubles with saves that fail and land, and no press. A press and a
second trouble meet in nothing but the mood and the exit rule, and all of it at
once is beyond TLC. One session is enough for the races, which are all between
threads over one question; sessions meet only in the mood, the exit rule and the
list of troubles, and the theorems are for any number of them and any worlds.

| run | module | what it shows |
|---|---|---|
| `session_others` | SessionLife | another program writes between any two steps, events are lost, an instance dies, the container is opened again, `recover` is run, two saves: `IndInv`, `ExaminedEditsSurvive`, `RecoveryKeepsOthersWork`, `KeepsCustody`, and `OnlyConflictsAreAsked`: nobody is asked anything unless another program touched the container or an instance died; `TornIsLeftAlone`: what is in a directory whose record is torn stays as it was |
| `session_progress` | SessionLife | `IndInv`, `SavesLand`, `LingeringEnds` under fairness, `ClosesLoseOnlyTheUnheard`, `ExaminedEditsSurvive`, and `LingeringCanSettle`: nothing but what its application has beside the file stands in the way of a lingering session; with failures, a crash and applications that leave a backup for good |
| `front_door` | FrontDoor | both kinds of door, with a crash and with pipes lost: `IndInv`, `OnePipeInstance`, `SweepsSpareTheServed`, `CallersAreAttended`: whoever waits is with a process that will come to it, `HandsOverOnce`, and `CallersHearBack` under fairness |
| `resident` | MCResident | hard links made before and during, leftovers, failures, containers replaced, taken away and linked by other programs: `IndInv`, `NoDeadButtons`, and where the table has not been left behind, `OneSessionEach` and `LiveIsNotRecovered` |
| `presence` | MCPresence | every channel, prompts and icons, with failures, notifications that cannot be shown or withdrawn or are closed, a shell that restarts, a door that is lost, and `recover` beside it: `TypeOK`, `IndInv`, `NoButtonOutlivesItsQuestion`, `StrandedOnlyAsKnown`, `OwedIsOnItsWay`: a press owed an answer is in nobody's blind spot, `WarningsAreSeen`, `OnlyTheWindowIsMissed`, `TroublesAreNotLost`, and under fairness `PressesAreActedOn` and `IconCatchesUp` |
| `policy` | MCPolicy | every combination of layers, one changed in the middle: `IndInv`, `StandingRefusalsHold`, `GateHolds`, `DecisionsAreTheReference`, `RefusalsAreExplained` |
| `lost_edit`, `live_conflict`, `lingering_reopened`, `two_instances`, `left_beside`, `held_unseen` | SessionLife, FrontDoor, Resident, MCPresence | counterexamples; see 5 |

`CHECK_DEADLOCK FALSE` is in every configuration but `Policy.cfg`: the program
may stop (the exit rule, `End`) and a bounded environment runs out of things to
do. In `Policy` there can always be another open.

**Mutants.** Each property of a passing run has a mutant of a modelled
definition that breaks it: a sweep that takes whatever nobody has to be asked
about, a close that does not pump, a pump that looks at the first change only, a
`put_it_back` that removes after failing, an agreement that is never noted, a
state that ignores the agreement, a channel that is peeked, a lookup by path
alone, a refresh that forgets, a question not withdrawn, a
pipe without `FILE_FLAG_FIRST_PIPE_INSTANCE`, a bad request left unanswered, a
list that appends when it does not say, policies asked in the wrong order, a
configuration read although suppressed, a user's denials left out, a second
notification of a session that is not recorded, a withdrawal that takes back the
first it finds, a folder shown without the question being put again, answers
cleared on the way out, an exit rule that forgets what is on the icon, a list
that is not told of a new mood, a session created over another's directory, a
start that sweeps a directory with a torn record, a settled session that stays on
the list after its directory has gone, a loop that leaves with requests it has not
taken, a caller that tries again after being cut off, a dismissal that takes every
trouble with it.

**Fairness.** `SessionLife`: the steps of a task (one thread, no waiting on
anybody) weakly; `Pump`, `NoticeLingering` and `Settled` strongly, because `run`
makes a turn after every request and every 250 ms whichever came, and a turn
looks at every session, so a stream of other work cannot keep it from them; the
platform's delivery and an application finishing the save it has begun, weakly.
Nothing makes anybody save, close, answer, quit or come back. `FrontDoor`: each
process's own steps, the accepting thread (which accepts or finds its pipe lost)
and the loop, weakly; nobody has to close a session or leave. `Presence`: the
loop, the listening thread, the icon's thread and the passing of `PULSE`, weakly;
nothing a person does need ever happen. `SavesLand` excuses a save that the next
save overtakes, that a close takes over, or that is refused; `LingeringEnds` asks
of the application that it has gone and left nothing beside its file, because
`watch.rs` says that one which leaves a backup for good makes the session linger
as long as the process lives. `IconCatchesUp` is of a mood that lasts, and asks
nothing else to happen; after the shell has restarted, what it says is that the
icon has its first colour.

## 4. What is proved

All of it with `tlapm`, to the last leaf, for every value of the constants but
where a theorem says otherwise. The
assumptions are the named `ASSUME`s of the modules: `World`, and what may happen in
each of `Worlds`, is a set of the happenings and the bounds are natural numbers; `Nobody` is no process and the
kinds are socket or pipe; and there are finitely many sessions
(`SessionsAssumption`), which there are because each was opened by somebody in the
life of one process, and which the list of troubles needs, because it is made of
the set of those that one pump found. TLC checks each of them on every run.

Every invariant and every step property that a passing run checks is stated by a
theorem. What is left to TLC alone is liveness.

### SessionLifeProofs

| theorem | statement |
|---|---|
| `TypeCorrect` | `Spec => []TypeOK` |
| `Invariant` | `Spec => []IndInv` |
| `EditsSurvive` | `Spec => ExaminedEditsSurvive` |
| `RecoveryKeeps` | `Spec => RecoveryKeepsOthersWork` |
| `OnlyConflicts` | `Spec => []OnlyConflictsAreAsked` |
| `UnheardOnly` | `Spec => ClosesLoseOnlyTheUnheard`, where no event is lost |
| `CanSettle` | `Spec => []LingeringCanSettle` |
| `TornIsLeft` | `Spec => TornIsLeftAlone` |

`ExaminedEditsSurvive` is not inductive: whether a directory that goes has an
unsaved edit in it depends on how the step before `Remove` was reached. The
invariant says, of every place the program can be in, where an edit can be that
has been compared and is in no container:

- `StepsMatch`: which step belongs to which task, and that nothing is live, say,
  while the instance is down. Without it the case for `Remove` would have to
  consider tasks that never get there.
- `EditsAccounted`: such an edit is the one being packed; or the session is
  live, lingering or left with nothing under way; or its write-back was refused;
  or somebody asked for it to go. In particular the extraction, the read-back
  and the count never see one, and `Remove` sees one only for a discard or for a
  close after a refusal.
- `AgreementsAccounted`: each note of an agreement, on disk, in memory or in a
  task's hands, is of bytes this session extracted or packed, or comes after a
  note that was not (`lied`, which `ReadBack` sets when another program wrote
  the container between the commit and the read). That is what makes "edited"
  mean "edited here", and with it `seen \in {Nothing, copy}` when recovery
  packs.
- `AgreementsKept`: where nothing fails, nobody else has written and nothing has
  died (`Undisturbed`), every agreement, in the record and in memory, is of what
  the container holds, but between a commit and the notes of it. It is written
  place by place, because the commit changes the container first, the record
  next, and the table or the lingering session last. `OnlyConflicts` follows: a
  question takes two differences, and there is only ever one.
- `Reported`: where no event is lost, an edit that a live or a closing session has
  not compared is about to be, or is in an event that nobody has drained. Whatever
  drains a content event goes to the comparison, and whatever changes the content
  file sends one. `UnheardOnly` reads it at `Remove`; the assumption that no event
  is lost is the one the `lost_edit` run shows to be needed.

- `Lingers`: where nobody reopens or recovers a session, one that is in memory has
  its directory, and one that lingers has no question against it and no task at
  work on it. `CanSettle` is the half of `LingeringEnds` that is safety: with it,
  only what the application has beside its file and the fairness of the turns are
  left. Its condition is the one that the `lingering_reopened` run shows to be
  needed.

`TornIsLeft` needs `StepsMatch` only: with the instance idle or down, nothing live
or lingering and no question held, each step that could reach the directory is
guarded by a record that parses.

`WhoRemoves` and `WhoWrites` then reduce the action properties to the one
step that could violate each. `TypeOK` begins with `Flags`, the Boolean variables
as a set, because they and the rest need different provers.

### CustodyProofs

| theorem | statement |
|---|---|
| `Custodian` | `Spec => KeepsCustody` |

`SessionLife` implements `Custody`: the initial state maps to the initial state
(`CustodyInit`), and under `IndInv` every step to a step of it or to a stutter
(`CustodyStep`). Five lemmas are shared by the actions, one for each way a step
can look from above: `Turning` (nothing of it is seen), `Knowing` (something was
compared or refused), `Going` (the edit goes where it may), `Beginning` and
`Finishing` (a save); `Landing` is the commit. The hard case is `Going` at
`Remove`, where `EditsAccounted` says which tasks get there with an edit.

### FrontDoorProofs

| theorem | statement |
|---|---|
| `Invariant` | `Spec => []IndInv` |
| `OnePipe` | `Spec => []OnePipeInstance` |
| `SweepsSpare` | `Spec => SweepsSpareTheServed` |
| `Attended` | `Spec => []CallersAreAttended` |

For any number of invocations, crashes and lost pipes. Both properties are of the
instances whose door is open: one that has lost its pipe still has sessions to
close while the next one begins. `OnePipeInstance` needs more than itself: an opener binds where the name is free, and a free name has to mean that
nobody with an open door is sweeping, opening or serving. `PipeHeld` says so
(whoever has an open door has the name), and that nobody on a pipe ever probes or clears.
The same argument fails for a socket at `Clear`, which takes a name from whoever
has it; `two_instances` is that failure.

`Attended` holds for both doors, with any number of instances. `DoorsKept` is what
it takes: a listener is open only while its process is the instance or leaving, a
queue has somebody in it only where there is a listener or a loop to come to it,
and whoever waits is in one. Each way of hanging up empties the queue and sends off
whoever was in it in the same step; `Dropping` is that step once for all of them,
and `Undropped` every other. `EndsOf` has who is in a queue that grows at one end
and shrinks at the other. `QueuesKept`, that whoever is in a queue does nothing else
any more, is for the next module.

### HandoverProofs

| theorem | statement |
|---|---|
| `HandedOnce` | `Spec => HandsOverOnce` |

`FrontDoor` implements `Handover`. Under `IndInv` each step is `Become`
(`BecomingTheInstance`), `Give` (`Connecting`), `Conclude`, or a stutter
(`Unmoved`). `Concluding` says what it takes for a set of requests to be over at
once, and `HangingUp` and `Ending` that a listener dropped, a loop left and a
process ended or killed each are such a set: the callers cut off, with the process
itself where it ends. `Give` needs `DoorsKept`, for the process at the other end to
be an instance, and `QueuesKept`, for the caller to be in no queue already.

### ResidentProofs

| theorem | statement |
|---|---|
| `Invariant` | `Spec => []IndInv` |
| `OneEach` | `Spec => []OneSessionEach` |
| `NotRecovered` | `Spec => []LiveIsNotRecovered` |
| `ButtonsLive` | `Spec => []NoDeadButtons` |

For any number of paths, sessions, files and moves of other programs, with links
made at any time. `OneEach` and `NotRecovered` are of the paths where the table has
not been left behind (`Noted`); that no path is open twice (`Distinct`) is of all of
them. An identity in the table goes stale whenever somebody puts a new file at the
path, so that "no two entries are of one file" says nothing of the next step. What
does:

- `Current`: an entry on such a path remembers the file that the path names, or
  will when `pump_all` has refreshed it (`due`), and no two such paths name one
  file. A rename is of a file that no path names, and a link that would break this
  changes the path it is made at. `Replaced` has the first; `TableKept` and
  `Refiled` the rest.
- `ClearOf`: an open under way is of a path that has no entry, and what it looks
  for is the file of no such path. Without it, an open that has looked at one
  leftover could recover another that is live, or insert a second entry.
- `NotBoth`: no session is live and lingering.

`Recovers` and `Clears` are what every put-back and every open that begins or goes
on have in common, and each action is one of the lemmas named for it.

### PresenceProofs

| theorem | statement |
|---|---|
| `Invariant` | `Spec => []IndInv` |
| `ButtonsHeld` | `Spec => []NoButtonOutlivesItsQuestion` |
| `WindowOnly` | `Spec => OnlyTheWindowIsMissed` |
| `Stranded` | `Spec => []StrandedOnlyAsKnown` |
| `Warnings` | `Spec => []WarningsAreSeen` |
| `OnTheWay` | `Spec => []OwedIsOnItsWay` |

For any number of sessions, notifications, presses and troubles, every set of
worlds and every channel.

- `Screened`: what is on a screen is about a question that is held, and is
  recorded, or is being recorded by the loop; and nothing is held once the loop
  has stood down. A withdrawal works by what is recorded, so the proof needs that
  nothing is being recorded when one is made: the loop's thread does both. One that
  could not be withdrawn is not on the `screen` any more but `stuck`.
- `Signalled`: what the bus says is of notifications that have left the screen,
  the closing of one is the last that is said of it, and a press still owed is of
  one that is recorded or being so. That a closing comes last is what keeps the
  listening thread from forgetting a number before it has looked the press up.

- `InHand` and `Awaited`: a question that is held and not excused is on the
  screen, or in a press that is owed on the bus, or in an answer put down, or in
  one taken and not yet acted on. `StrandedOnlyAsKnown` alone is not inductive: a
  press on the bus counts for it though its number may no longer be recorded, and
  answers in hand would be lost if more were taken, which `InHand` excludes.
- `OwedIsOnItsWay` is inductive with those: a signal leaves the bus in the step that
  puts its answer down, unless its number was never recorded, where the press is
  owed no more; and the loop takes all that was put down, when it has nothing in
  hand. It is the safety half of `PressesAreActedOn`.
- `Backed`: a question that is held has its directory, unless the `recover` command
  has settled it (`elsewhere`). `ButtonsHeld` takes it with `Screened`.
- `Warned`: a loop on its way out with something on its icon was told to go, or has
  lost its door. Those are the only ways there where there is an icon, because the
  exit rule and `has_a_reason_to_stay` both look at it.

The lemmas are one for each thing the channel can do (`Steady`, `Putting`,
`AskedAbout`, `Withdrawing`, `Records`, `Heard`, `ClosesOne`, `Pressing`,
`OneStuck`), with what
the loop may do in the same step as hypotheses; each action is then one of them.
`Awaited` has the same list again (`Unmoved`, `AskedAwaited`, `WithdrawnAwaited`,
`HeardAwaited`, `ClosedAwaited`, `PressedAwaited`), and `StillAwaited` for one
session under all of them; `OwedIsOnItsWay` has `LoopCarries`, `HearsCarries`,
`ClosesCarries`, `PressesCarries` and `OthersCarry`; `Warned` has `LoopWarned` and
`OthersWarned`, and `Backed` has `AsksBacked`.

### TroubleProofs

| theorem | statement |
|---|---|
| `Types` | `Spec => []TypeOK` |
| `TroublesKept` | `Spec => TroublesAreNotLost` |

The list of troubles is a sequence, to which a turn may add what several sessions
have met, and from which it takes by a test. Neither needs an induction over the
list: `Noted` appends a finite set put in a row, and `Dismiss` gives each place that
is kept its rank among them. `Listing` and `Ranks` say what is in such a sequence,
and that it is one. `Dismissing` and `Noting` are then the two methods: a dismissal
takes every trouble that was meant and no other, a note keeps what there is and adds
what is new. `Pumped` composes them for a pump of all the sessions and `PutDownOnly`
for the icon's menu, and `TroublesStep` has every action. That what is dismissed at
the icon was picked takes an invariant of its own, `Faithful`: what was chosen is
what a line picked may have stood for, and a menu that nothing has gone from begins
both what is shown and what is wrong by now, so that a line of it is the same
trouble in all three. `Grows` has why: what does not lose a trouble only adds at
the end (`NotedAfter`, `DismissingNone`), and `FaithfulStep` every action. `TrayStep`, `PlaceStep`,
`SessionStep` and `QuestionStep` are the other variables' types.

### PolicyProofs

| theorem | statement |
|---|---|
| `Invariant` | `Spec => []IndInv` |
| `RefusalsHold` | `Spec => []StandingRefusalsHold` |
| `Gate` | `Spec => []GateHolds` |
| `Reference` | `Spec => []DecisionsAreTheReference` |
| `Explained` | `Spec => []RefusalsAreExplained` |

For any extensions, any set of layers and any number of changes. A decision may
be made of layers that never stood together, because they are read one after the
other; the invariant keeps what does hold of it: each was there during the open
(`ReadsAreReal`), a configuration that was not consulted reads as silent, an
outcome is the decision of what was read (`DecisionsAreMade`), and a failure has
a broken layer behind it (`FailuresAreReal`). `Refuses`, `AllowedIsListed` and
`AllowedIsTheReference` are about the folds themselves, and the five theorems
follow from the two kinds of facts.

### Only model-checked

`SavesLand`, `LingeringEnds`, `CallersHearBack`, `PressesAreActedOn` and
`IconCatchesUp` are liveness under fairness, which is out of the prover's reach. Of
three of them the part that is safety is a property of its own, and proved:
`LingeringCanSettle`, `CallersAreAttended` and `OwedIsOnItsWay` say that whatever
has to happen can, and that what it is to happen to has not been dropped on the
way; TLC then shows that it does. `SavesLand` has `ClosesLoseOnlyTheUnheard` and
`ExaminedEditsSurvive` beside it. The counterexamples of section 5 are TLC's too.

## 5. Where the code and its comments disagree

Each is a run whose property states what a comment or the README says, and the
trace TLC gives is a short story:

- **`lost_edit`** The close compares the content file only if an event is in the
  channel. A save whose event the platform dropped is deleted by it, unseen, and
  so is one whose event a pump had drained before its write-back failed (the
  folder is read-only, say). `watch.rs` calls the close the backstop for the
  first; the README says that quitting writes back anything outstanding.
- **`live_conflict`** Another program replaces the container of a live session.
  The next save goes over it, and nobody is told. `save_if_changed`'s comment
  (`flow.rs:379-384`) says of a container replaced underneath a live session that it
  goes to the write-back "to be refused and reported"; the write-back refuses a
  container that is gone, unreadable or renamed inside, and no other.
- **`lingering_reopened`** A closed session lingers; the container is opened
  again, and the leftover's edit is put back and its directory removed. `has_settled` reads a
  directory that is gone, takes the error for "still working", and the instance
  never becomes idle.
- **`two_instances`** On a socket, an opener whose probe was refused unlinks
  whatever is there by then, which can be the socket that another has bound in
  between. Both are instances.
- **`left_beside`** Two leftovers on one container, from an instance that could
  not put the first back. The next open puts one back, which renames the
  container and so changes its identity; the second no longer matches the
  identity taken at the start and a fresh session opens beside it.

- **`held_unseen`** An answer's write-back fails. The notification was withdrawn
  before; the question goes back among those held "so there is something to make
  [a second attempt] with", and nothing shows it again: an open of the container
  finds it held and does not ask, and where questions stand nobody lets go of it.

Met while modelling, and stated by no run:

- *The pipe's door.* On Windows, a caller that has gone before the thread comes to
  it, or one handle that cannot be made, ends the iterator; the loop takes that for
  the end and stands down. A comment in `resident.rs` says such a caller is not
  an event. `FrontDoor` has it (`Lost`, `Disconnected`).
- *A name made later.* `table.rs` says that a container with a live session is not
  opened twice, and that path and identity together see to it (lines 6-8, 17-31).
  They do where the only renames are those `pump_all` refreshes. Where another
  program replaces the container of a live session, takes it away, or makes the path
  a name of another's file, the entry's identity is of a file that is gone; a hard
  link made to the new one is found by neither. An open of it then starts a second
  session, or asks about the live one's directory, or puts its edit back and removes
  it. A put-back from another directory onto a live path, and a write-back that was
  committed and could not be counted, leave the entry behind in the same way. In
  `Resident` the path is `unnoticed` from there on, and `OneSessionEach` and
  `LiveIsNotRecovered` are of the others. A close may take out another's entry by
  such an identity, and one whose container has gone finds none.
- *A picked position.* A menu's line is a position, looked up in the list as it is
  when it is picked. Where the one above it has cleared itself, picking one
  dismisses the next, unread. The comment (`tray.rs:436-441`) thinks only of a
  position that is gone. `Tray` has it (`Pick`), and `TroublesAreNotLost` excuses a
  menu that something has gone from and no other.
- *A restarted shell.* On `TaskbarCreated` the icon is added again as it was first
  added (`tray.rs:384-386`), in the colour of *settled*, and nothing redresses it
  until something changes: a trouble or a question that stays is not to be seen.
  `IconCatchesUp` says so.
- *A lost door.* The loop ends when the accepting thread has (`resident.rs:1044`),
  with whatever is on its icon: `WarningsAreSeen` excuses it.
- *A withdrawal that fails.* Both desktops ignore it and forget the number
  (`freedesktop.rs:273-279`, `toast.rs:145-151`): the button stays, and what is
  pressed there finds nobody, or, on Windows, whatever question is held by then.
  `Channel` has it (`stuck`).
- *The first listening.* The desktop's thread subscribes after `connect` has
  returned, so that a press could come before there is anybody to hear it.
- *Seeing out.* After `run`, `see_out` waits for a box while the accepting thread
  still has the door: a caller is accepted by a process that is on its way out.
- *`recover` beside an instance.* `present/mod.rs:346-351` has the same question
  answered at the command line as a case for taking it back. Nothing does: the
  command is a process of its own, and the instance is not told. The button stays
  until it is pressed or the time is up; to write back then fails, and the question
  stays held. `Presence` has it (`Command`, `elsewhere`), and
  `NoButtonOutlivesItsQuestion` excuses exactly that.
- *Troubles that stay.* A `recover` trouble is dismissed by no later success, and
  a close that fails notes none.
- *A late answer.* A press made just before a question is let go of is applied to
  the question as it was put again, if it was.
- *A user's own deny* goes with a suppressed configuration, though
  `policy/mod.rs` says that nothing overrides one.
- *`confirm_each_write_back`* is read, resolved and printed, and nothing else looks
  at it.

The other hazards of `PROJECT.json` that no property covers have a note there: a
container double-clicked while its close's question is pending is not opened after the
answer; an instance that has left its loop is still closing sessions while the
next one sweeps. A directory whose record a crash tore is never found, and
`TornIsLeftAlone` says that nothing touches it either.

## 6. What is not modelled

- The launcher: one call to the desktop, with no state. Its failure is that of an
  open.
- The formats on the wire and on disk, the names and permissions of the endpoint,
  the root and the permissions of directories, the trust-zone mark: data, with no
  order of steps to get wrong.
- Printing, parsing of arguments, registration, translation and packaging.
- Reports, the words of a notification, the drawing of the icon.
- The reduction of platform events to changes, and the wait for a Windows watcher
  to stop (`Watch::drop`), which is inside `Remove`.
- A `recover` command inside a task of the instance: two actors with a step each
  would square the state of `SessionLife`.
- A directory's name coming again within the second.
- One composed model of `SessionLife`, `Resident` and `Presence`. Each is the whole
  instance for the properties it has, with the others summarised; their product is
  out of TLC's reach, and nothing found so far needs two of them at once.
