------------------------------- MODULE Presence -------------------------------
(***************************************************************************)
(* The instance as a person meets it: the loop of the resident instance,   *)
(* with its channel and its standing list, from the request that started   *)
(* it to the end of the process.  Sessions are what the other modules say; *)
(* here is what is asked, shown, answered, and missed.                     *)
(*                                                                         *)
(* A container has one session here, and one directory left behind; what a *)
(* lingering session did is forgotten when its container is opened again.  *)
(*                                                                         *)
(* Sources: src/src/resident.rs and main.rs, outside.rs, present/mod.rs.   *)
(***************************************************************************)
EXTENDS Channel, Tray

CONSTANTS
    Worlds          \* what may happen, and the bounds a behaviour keeps to

Happenings == {"fail",          \* a write-back, a recovery or a removal fails
               "refuse",        \* an open fails
               "unreachable",   \* a notification cannot be shown
               "close",         \* a person closes a notification unanswered
               "command",       \* the recover command settles what is asked about
               "stuck",         \* a notification cannot be withdrawn
               "restart",       \* the shell restarts
               "lost_door"}     \* the thread that accepts callers ends

\* Bounds: so many troubles at once, and so many presses not yet acted on.  They
\* differ from world to world, for each is to be looked at with what it needs.
ASSUME PresenceAssumption ==
    Worlds \subseteq [may : SUBSET Happenings, troubles : Nat, presses : Nat]

VARIABLES
    world,      \* which of Worlds this is
    pc,         \* where the loop's thread is
    of, back,   \* what an open or a question under way is about, and what follows it
    prompt,     \* from_a_command_line
    standing,   \* there is an icon, and Standing::holding
    running,    \* resident::run has begun
    session,    \* the session of each container
    left,       \* directories left behind that a person has to decide about
    held,       \* Resident::pending
    follows,    \* those of held with a container to open once they are settled
    batch,      \* the answers taken and not yet acted on
    troubles,   \* Resident::troubles
    pulse,      \* wrote_back is less than PULSE ago
    owed,       \* history: pressed while its question was held, and not acted on
    excused,    \* history: held, and why it cannot be answered is known
    elsewhere,  \* history: held, and settled by the recover command
    quit,       \* history: a person chose to quit
    lost        \* history: the loop ended because nobody could reach it any more

asked == <<held, follows, excused, elsewhere>>
shows == <<troubles, pulse>>
loop  == <<pc, of, back, running>>
vars  == <<world, channelVars, trayVars, loop, prompt, standing, session, left,
           held, follows, batch, troubles, pulse, owed, excused, elsewhere, quit, lost>>

Places == {"request", "open", "asking", "stay", "turn", "settling", "answers",
           "show", "leaving", "seeing", "gone"}

\* The type invariant.
TypeOK ==
    /\ world \in Worlds /\ ChannelTypeOK /\ TrayTypeOK
    /\ pc \in Places /\ of \in Sessions /\ back \in Places
    /\ prompt \in BOOLEAN /\ standing \in BOOLEAN /\ running \in BOOLEAN
    /\ session \in [Sessions -> {"none", "open", "lingering"}]
    /\ left \subseteq Sessions /\ held \subseteq Sessions /\ follows \subseteq held
    /\ batch \in Seq(Answer) /\ troubles \in Seq(Trouble) /\ Len(troubles) <= world.troubles
    /\ pulse \in BOOLEAN /\ quit \in BOOLEAN /\ lost \in BOOLEAN
    /\ owed \subseteq Notification /\ excused \subseteq Sessions /\ elsewhere \subseteq Sessions

\* main's open and stand_by: what there is to speak through and to show on.
\* Only Windows has an icon, none is raised at a prompt, and only stand_by,
\* which is Windows too, runs the loop with nothing opened first.  Bound: they are
\* looked at where there are toasts, and a prompt too, which matters to boxes only.
Init ==
    /\ world \in Worlds /\ ChannelInit /\ TrayInit
    /\ prompt \in BOOLEAN /\ standing \in BOOLEAN /\ running \in BOOLEAN
    /\ standing => ~prompt
    /\ standing \/ prompt \/ running => channel = "toast"
    /\ pc = "request" /\ of \in Sessions /\ back = "turn"
    /\ session = [s \in Sessions |-> "none"]
    /\ left \in SUBSET Sessions
    /\ held = {} /\ follows = {} /\ batch = <<>>
    /\ troubles = <<>> /\ pulse = FALSE
    /\ owed = {} /\ excused = {} /\ elsewhere = {} /\ quit = FALSE /\ lost = FALSE

-----------------------------------------------------------------------------
Busy == {s \in Sessions : session[s] # "none"}
IsIdle == Busy = {} /\ held = {}

\* Resident::mood.
Mood == Worst({Severity(troubles[i].kind) : i \in DOMAIN troubles}
              \cup {IF held = {} THEN "Settled" ELSE "Look"}
              \cup {IF pulse THEN "Working" ELSE "Settled"})

\* Resident::listed: the open and the lingering, the held, and what a scan finds.
Listed == Busy \cup held \cup left

\* Resident::note, of one and of several: the same one twice is one trouble.
Named(kind, who) == {[kind |-> kind, of |-> s] : s \in who}
AllOf(from) == {from[i] : i \in DOMAIN from}
Noted(new) == troubles \o Ext!SetToSeq(new \ AllOf(troubles))
Note(new) == Len(Noted(new)) <= world.troubles /\ troubles' = Noted(new)

Quiet == UNCHANGED channelVars
Goes(to) == pc' = to /\ UNCHANGED <<of, back, running>>
Returns == pc' = back /\ back' = "turn" /\ UNCHANGED <<of, running>>
SamePeople == UNCHANGED <<world, prompt, standing, quit, lost>>

\* Withdrawing, which may not take one off the screen, and nobody is told.
TakeBack(gone) ==
    \E kept \in IF "stuck" \in world.may THEN SUBSET gone ELSE {{}} : Withdraw(gone, kept)

(***************************************************************************)
(* A request, and the asking it may come to.                               *)
(***************************************************************************)
\* Nothing arrives within TICK, or what arrives is a ping, a list, or a request
\* this build cannot read.
Tick ==
    /\ pc = "request" /\ running
    /\ Goes("turn")
    /\ Quiet /\ SamePeople
    /\ UNCHANGED <<trayVars, session, left, asked, batch, shows, owed>>

\* The thread that accepts callers has ended, and the loop with it.  Only a pipe's
\* does: an error in accepting on a socket is passed over.
Disconnected ==
    /\ pc = "request" /\ running /\ channel = "toast" /\ "lost_door" \in world.may
    /\ Goes("leaving")
    /\ lost' = TRUE
    /\ Quiet
    /\ UNCHANGED <<world, trayVars, prompt, standing, quit, session, left, asked, batch, shows, owed>>

\* An open.  The first comes before the loop, in main's open.
Request(s) ==
    /\ pc = "request"
    /\ pc' = "open" /\ of' = s /\ back' = IF running THEN "turn" ELSE "stay"
    /\ UNCHANGED running
    /\ Quiet /\ SamePeople
    /\ UNCHANGED <<trayVars, session, left, asked, batch, shows, owed>>

\* A close: the session is cleared, or stays behind with its edit, or lingers.
Close(s) ==
    /\ pc = "request" /\ running /\ session[s] = "open"
    /\ \E then \in {"none", "lingering"} : session' = [session EXCEPT ![s] = then]
    /\ Goes("turn")
    /\ Quiet /\ SamePeople
    /\ UNCHANGED <<trayVars, left, asked, batch, shows, owed>>

\* Resident::open: a live session is brought forward, and a question that is
\* held already is not asked again.
NothingToOpen ==
    /\ pc = "open"
    /\ session[of] = "open" \/ of \in left \cap held
    /\ Returns
    /\ Quiet /\ SamePeople
    /\ UNCHANGED <<trayVars, session, left, asked, batch, shows, owed>>

\* Channel::ask, up to where the notification is on the screen or is not.
Ask(s, to) ==
    /\ \/ Put(s) /\ UNCHANGED excused
       \/ "unreachable" \in world.may /\ Quiet /\ excused' = excused \cup {s}
    /\ of' = s /\ back' = to /\ pc' = "asking"
    /\ UNCHANGED running

\* ask_about_what_was_left.
AsksFirst ==
    /\ pc = "open" /\ session[of] # "open" /\ of \in left \ held
    /\ Ask(of, back)
    /\ follows' = follows \cup {of} /\ held' = held \cup {of}
    /\ SamePeople /\ UNCHANGED elsewhere
    /\ UNCHANGED <<trayVars, session, left, batch, shows, owed>>

\* What the call did is recorded.  The question was put among those held in one
\* step with the call: the loop's thread alone reads them.
Asked ==
    /\ pc = "asking"
    /\ Record
    /\ Returns
    /\ SamePeople
    /\ UNCHANGED <<trayVars, session, left, asked, batch, shows, owed>>

\* put_it_back, of an edit in another directory of the container, fails.
RecoverFails ==
    /\ pc = "open" /\ session[of] # "open" /\ "fail" \in world.may
    /\ Note(Named("recover", {of}))
    /\ Quiet /\ SamePeople
    /\ UNCHANGED <<trayVars, loop, session, left, asked, batch, pulse, owed>>

\* flow::open: a session, a refusal, or a content file that is not what it says.
Nothings == pc = "open" /\ session[of] # "open" /\ of \notin left
Opens ==
    /\ Nothings
    /\ session' = [session EXCEPT ![of] = "open"]
    /\ Returns
    /\ Quiet /\ SamePeople
    /\ UNCHANGED <<trayVars, left, asked, batch, shows, owed>>
Refuses ==
    /\ Nothings /\ "refuse" \in world.may
    /\ Note(Named("open", {of}))
    /\ Returns
    /\ Quiet /\ SamePeople
    /\ UNCHANGED <<trayVars, session, left, asked, batch, pulse, owed>>
\* Bound: one box at a time.
Misrepresents ==
    /\ Nothings /\ boxes = 0
    /\ Insist /\ Note(Named("content", {of}))
    /\ Returns
    /\ SamePeople
    /\ UNCHANGED <<trayVars, session, left, asked, batch, pulse, owed>>

\* Mutant: the exit rule as it was, before there was an icon.
IsNotIdle == ~IsIdle

\* has_a_reason_to_stay.
HasAReasonToStay == ~IsIdle \/ (troubles # <<>> /\ standing)
Stay ==
    /\ pc = "stay"
    /\ running' = HasAReasonToStay
    /\ pc' = IF HasAReasonToStay THEN "request" ELSE "seeing"
    /\ UNCHANGED <<of, back>>
    /\ Quiet /\ SamePeople
    /\ UNCHANGED <<trayVars, session, left, asked, batch, shows, owed>>

(***************************************************************************)
(* A turn.                                                                 *)
(***************************************************************************)
\* Mutant: whatever there is goes with those that were meant.
DismissAll(gone, from) == IF gone = {} THEN from ELSE <<>>

\* Resident::dismiss: the others stay, in their order.
Dismiss(gone, from) ==
    LET kept  == {i \in DOMAIN from : from[i] \notin gone}
        at(k) == CHOOSE i \in kept : Cardinality({j \in kept : j <= i}) = k
    IN [k \in 1 .. Cardinality(kept) |-> from[at(k)]]

\* The open menu is of a list that something has gone from.
Outdated == stale' = (stale \/ (menu # <<>> /\ AllOf(troubles) \ AllOf(troubles') # {}))

\* pump_all: some sessions' saves land, and some fail.
IsOpen == {s \in Sessions : session[s] = "open"}
PumpAll ==
    /\ pc = "turn"
    /\ \E landed \in SUBSET IsOpen : \E failed \in SUBSET (IsOpen \ landed) :
         LET noted == Noted(Named("writeback", failed)) IN
         /\ failed # {} => "fail" \in world.may
         /\ Len(noted) <= world.troubles
         /\ troubles' = Dismiss(Named("writeback", landed), noted)
         /\ pulse' = (pulse \/ landed # {})
    /\ Outdated
    /\ Goes("settling")
    /\ Quiet /\ SamePeople
    /\ UNCHANGED <<shown, chosen, posted, icon, menu, restarted, meant,
                   session, left, asked, batch, owed>>

\* ask_about_what_has_settled, for one session: it is removed, or put back, or
\* that fails, or a person is asked.
Settled(s) ==
    /\ pc = "settling" /\ session[s] = "lingering"
    /\ session' = [session EXCEPT ![s] = "none"]
    /\ \/ Goes(pc) /\ Quiet /\ UNCHANGED <<left, asked, troubles>>
       \/ /\ "fail" \in world.may
          /\ Note(Named("recover", {s}))
          /\ Goes(pc) /\ Quiet /\ UNCHANGED <<left, asked>>
       \/ /\ s \notin left \cup held
          /\ Ask(s, pc)
          /\ left' = left \cup {s} /\ held' = held \cup {s}
          /\ UNCHANGED <<follows, elsewhere, troubles>>
    /\ SamePeople
    /\ UNCHANGED <<trayVars, batch, pulse, owed>>

\* act_on_answers takes what there is by now, and settles each.
TakeAnswers ==
    /\ pc = "settling"
    /\ batch' = answers /\ Drained
    /\ Goes("answers")
    /\ SamePeople
    /\ UNCHANGED <<trayVars, session, left, asked, shows, owed>>

NextAnswer == batch # <<>> /\ pc = "answers" /\ batch' = Tail(batch)
Answered == Head(batch).about
Owing(gone) == {n \in owed : n.about \notin gone}

\* Resident::settle: nothing is held about it any more, and that is said.
DealtWith ==
    /\ NextAnswer /\ Answered \notin held
    /\ owed' = Owing({Answered})
    /\ UNCHANGED loop /\ Quiet /\ SamePeople
    /\ UNCHANGED <<trayVars, session, left, asked, shows>>

\* Mutant: the folder is shown, and the question is not put again.
RevealsOnly ==
    /\ NextAnswer /\ Answered \in held /\ Head(batch).choice = "reveal"
    /\ owed' = Owing({Answered})
    /\ UNCHANGED loop /\ Quiet /\ SamePeople
    /\ UNCHANGED <<trayVars, session, left, asked, shows>>

\* Reveal is not yet: the question stays, and is put again.
Reveal ==
    /\ NextAnswer /\ Answered \in held /\ Head(batch).choice = "reveal"
    /\ Ask(Answered, "answers")
    /\ owed' = Owing({Answered})
    /\ SamePeople
    /\ UNCHANGED <<trayVars, session, left, held, follows, elsewhere, shows>>

\* A write-back that fails puts the question back among those held.
Insists ==
    /\ NextAnswer /\ Answered \in held /\ Head(batch).choice = "write-back"
    /\ "fail" \in world.may \/ Answered \notin left
    /\ TakeBack({Answered})
    /\ excused' = excused \cup {Answered} /\ owed' = Owing({Answered})
    /\ UNCHANGED loop /\ SamePeople
    /\ UNCHANGED <<trayVars, session, left, held, follows, elsewhere, shows>>

\* Mutant: the container that was to follow is kept.
StopAskingOnly(gone) ==
    /\ TakeBack(gone)
    /\ held' = held \ gone /\ UNCHANGED follows
    /\ excused' = excused \ gone /\ elsewhere' = elsewhere \ gone /\ owed' = Owing(gone)

\* A question is answered, or stop_asking takes it back, for each of these.
StopAsking(gone) ==
    /\ TakeBack(gone)
    /\ held' = held \ gone /\ follows' = follows \ gone
    /\ excused' = excused \ gone /\ elsewhere' = elsewhere \ gone /\ owed' = Owing(gone)

\* It is settled, and the open it held up follows.  A directory that does not go
\* is still there for it.
Settles ==
    /\ NextAnswer /\ Answered \in held
    /\ \/ Head(batch).choice = "write-back" /\ Answered \in left /\ left' = left \ {Answered}
       \/ Head(batch).choice = "discard" /\ left' = left \ {Answered}
       \/ Head(batch).choice = "discard" /\ "fail" \in world.may /\ left' = left
    /\ StopAsking({Answered})
    /\ IF Answered \in follows
       THEN pc' = "open" /\ of' = Answered /\ back' = "answers" /\ UNCHANGED running
       ELSE UNCHANGED loop
    /\ SamePeople
    /\ UNCHANGED <<trayVars, session, shows>>

\* Mutant: what has come in the meantime is cleared with what was acted on.
LetGoAndClear ==
    /\ pc = "answers" /\ batch = <<>>
    /\ Drained
    /\ Goes("show")
    /\ SamePeople
    /\ UNCHANGED <<trayVars, session, left, asked, batch, shows, owed>>

\* let_go_of_the_unanswered: none, where let_questions_stand was called.
LetGo ==
    /\ pc = "answers" /\ batch = <<>>
    /\ \E gone \in SUBSET held : (standing => gone = {}) /\ StopAsking(gone)
    /\ Goes("show")
    /\ SamePeople
    /\ UNCHANGED <<trayVars, session, left, batch, shows>>

(***************************************************************************)
(* The standing list, and leaving.                                         *)
(***************************************************************************)
Now == [lines |-> Listed, troubles |-> troubles, mood |-> Mood]

\* Mutant: only the lists are compared.
ListsChanged == Listed # shown.lines \/ troubles # shown.troubles

\* What was last shown is what the tray has: both begin as nothing.
Changed == Now # shown

\* The standing list is told, if something changed, and asked what was chosen.
\* The loop goes on, or ends by the exit rule.
Chosen == AllOf(chosen)
ShowAndTake ==
    /\ pc = "show"
    /\ IF standing /\ Changed THEN Show(Now) ELSE UNCHANGED <<shown, posted>>
    /\ Taken
    /\ troubles' = Dismiss({t \in Trouble : PutDown(t) \in Chosen}, troubles)
    /\ Outdated
    /\ Goes(IF Quit \in Chosen \/ (IsIdle /\ ~standing) THEN "leaving" ELSE "request")
    /\ Quiet /\ SamePeople
    /\ UNCHANGED <<icon, menu, restarted, session, left, asked, batch, pulse, owed>>

\* stand_down: every session is closed, and every question put down.
StandDown ==
    /\ pc = "leaving"
    /\ session' = [s \in Sessions |-> "none"]
    /\ StopAsking(held)
    /\ Goes("seeing")
    /\ SamePeople
    /\ UNCHANGED <<trayVars, left, batch, shows>>

\* see_out, and the end of the process.
SeeOut ==
    /\ pc = "seeing"
    /\ prompt \/ boxes = 0
    /\ Goes("gone")
    /\ Quiet /\ SamePeople
    /\ UNCHANGED <<trayVars, session, left, asked, batch, shows, owed>>

(***************************************************************************)
(* The other threads, and everybody else.                                  *)
(***************************************************************************)
Alive == pc # "gone"
LoopSame == UNCHANGED <<world, loop, session, batch, shows, prompt, standing, lost>>

\* Presses on the bus, and what every press not acted on yet is about.
Waiting == {i \in DOMAIN bus : bus[i].choice \in Keys}
Abouts(from) == {from[i].about : i \in DOMAIN from}
Pressed == {bus[i].of.about : i \in Waiting} \cup Abouts(answers) \cup Abouts(batch)

Hears ==
    /\ Alive /\ Listen
    /\ LET n == Head(bus).of IN
       IF Unheard /\ n \in owed
       THEN owed' = owed \ {n} /\ excused' = excused \cup {n.about}
       ELSE UNCHANGED <<owed, excused>>
    /\ LoopSame
    /\ UNCHANGED <<trayVars, left, held, follows, elsewhere, quit>>

\* Bounds: so many presses, and none to be shown what no number is left for.
Presses(n) ==
    /\ Alive /\ Cardinality(Waiting) + Len(answers) + Len(batch) < world.presses
    /\ \E key \in Keys : /\ Press(n, key)
                         /\ key = "reveal" => Unused(n.about) # {}
    /\ owed' = IF n.about \in held THEN owed \cup {n} ELSE owed
    /\ LoopSame
    /\ UNCHANGED <<trayVars, left, asked, quit>>

\* What is pressed of a question nobody could take back is about whatever is held
\* of that session by then.
PressesStuck(s) ==
    /\ Alive /\ Cardinality(Waiting) + Len(answers) + Len(batch) < world.presses
    /\ \E key \in Keys : /\ PressStuck(s, key)
                         /\ key = "reveal" => Unused(s) # {}
    /\ LoopSame
    /\ UNCHANGED <<trayVars, left, asked, owed, quit>>

Closes(n) ==
    /\ Alive /\ "close" \in world.may
    /\ Dismissed(n)
    /\ excused' = IF n.about \in held THEN excused \cup {n.about} ELSE excused
    /\ LoopSame
    /\ UNCHANGED <<trayVars, left, held, follows, elsewhere, owed, quit>>

SeesBox ==
    /\ Alive /\ CloseBox
    /\ LoopSame
    /\ UNCHANGED <<trayVars, left, asked, owed, quit>>

Redresses ==
    /\ Alive /\ Redress
    /\ LoopSame /\ Quiet
    /\ UNCHANGED <<left, asked, owed, quit>>

Restarts ==
    /\ Alive /\ standing /\ "restart" \in world.may
    /\ ShellRestarts
    /\ LoopSame /\ Quiet
    /\ UNCHANGED <<left, asked, owed, quit>>

\* What is picked is read, and what is shown changes, in one place of the loop, so
\* that a person may be taken to do things at the icon just before it.  Bound: one
\* is picked a turn.
AtTheIcon ==
    /\ pc = "show" /\ standing /\ chosen = <<>>
    /\ \/ (Offer(troubles) \/ Escape \/ \E i \in DOMAIN menu : Pick(i)) /\ UNCHANGED quit
       \/ PickQuit /\ quit' = TRUE
    /\ LoopSame /\ Quiet
    /\ UNCHANGED <<left, asked, owed>>

\* The recover command settles a session in a process of its own.
Command(s) ==
    /\ "command" \in world.may /\ s \in left
    /\ left' = left \ {s}
    /\ elsewhere' = elsewhere \cup (held \cap {s})
    /\ LoopSame /\ Quiet
    /\ UNCHANGED <<trayVars, held, follows, excused, owed, quit>>

PulseEnds ==
    /\ pulse /\ pulse' = FALSE
    /\ Quiet /\ SamePeople
    /\ UNCHANGED <<trayVars, loop, session, left, asked, batch, troubles, owed>>

Requests == Tick \/ Disconnected \/ \E s \in Sessions : Request(s) \/ Close(s)
Opening == \/ NothingToOpen \/ AsksFirst \/ RecoverFails
           \/ Opens \/ Refuses \/ Misrepresents \/ Stay
Answering == TakeAnswers \/ DealtWith \/ Reveal \/ Insists \/ Settles
Turn == Asked \/ PumpAll \/ (\E s \in Sessions : Settled(s)) \/ Answering \/ LetGo
Standing == ShowAndTake \/ StandDown \/ SeeOut
Loop == Requests \/ Opening \/ Turn \/ Standing

Person == \/ \E n \in screen : Presses(n) \/ Closes(n)
          \/ SeesBox \/ AtTheIcon
          \/ \E s \in Sessions : Command(s) \/ PressesStuck(s)

Next == Loop \/ Hears \/ Redresses \/ Restarts \/ PulseEnds \/ Person

\* The loop's thread, the one that listens and the icon's are scheduled, time
\* passes, and nothing a person does need ever happen.
Fairness ==
    /\ WF_vars(Loop) /\ WF_vars(Hears) /\ WF_vars(Redresses) /\ WF_vars(PulseEnds)

Spec == Init /\ [][Next]_vars
FairSpec == Spec /\ Fairness

-----------------------------------------------------------------------------
\* No button outlives its question, however often that was asked: what is on a
\* screen to be pressed, and could be withdrawn, is about a session held by a
\* process that is there to act, whose directory is there to be acted on unless
\* the recover command has settled it.  Nothing withdraws the button then: no
\* process tells the one that holds the question.
NoButtonOutlivesItsQuestion ==
    \A n \in screen : Alive /\ n.about \in held /\ n.about \in left \cup elsewhere

\* No question is held that nobody can answer, except for what is known: the
\* person closed it, it could not be shown, its press came before its record,
\* or the answer could not be carried out.
StrandedOnlyAsKnown ==
    HasButtons => held \subseteq {n.about : n \in screen} \cup Pressed \cup excused

\* A press about a question that is held is lost only between the service's
\* having shown it and the number's being recorded.
OnlyTheWindowIsMissed ==
    [][Unheard /\ bus' = Tail(bus) /\ Head(bus).of \in owed
         => pc = "asking" /\ Head(bus).of \in putting]_vars

\* A press that is owed an answer is on its way to the loop: on the bus, among
\* what the thread has put down, or among what the loop has in hand.  It is never
\* read by one thread and dropped before the other has it.
OnItsWay(n) ==
    \/ \E i \in DOMAIN bus : bus[i].choice \in Keys /\ bus[i].of = n
    \/ \E i \in DOMAIN answers : answers[i].about = n.about
    \/ \E i \in DOMAIN batch : batch[i].about = n.about
OwedIsOnItsWay == \A n \in owed : OnItsWay(n)

\* A trouble goes only where the person has picked that one, or where a save of its
\* own session is pumped and lands.  It goes with another's line, unread, where
\* the list has lost a trouble between the menu's being opened and the pick: the
\* line is a position, and by then another's.
TroublesAreNotLost ==
    [][\A t \in AllOf(troubles) \ AllOf(troubles') :
         \/ pc = "show" /\ t \in meant
         \/ pc = "turn" /\ t.kind = "writeback" /\ session[t.of] = "open"]_vars

\* A press is acted on, unless that window lost it, or the instance had let go
\* of the question by then and said so.
Owed(s) == \E n \in owed : n.about = s
PressesAreActedOn == \A s \in Sessions : Owed(s) ~> ~Owed(s)

\* A warning is not taken down unseen: a process that was not started from a
\* command line ends with no box up, and with nothing on its icon that nobody
\* has put down, unless it was told to quit or nobody could reach it any more.
WarningsAreSeen ==
    ~Alive /\ ~prompt => boxes = 0 /\ (standing /\ troubles # <<>> => quit \/ lost)

\* The icon catches up: where the mood lasts, whatever it is and one that came of
\* time alone included, the icon comes to have it, without anything else having to
\* happen; but where the shell has restarted since the icon was last dressed it has
\* the colour it was first added with, until something else changes.
Looping == running /\ pc \notin {"leaving", "seeing", "gone"}
IconCatchesUp ==
    <>[](standing /\ Looping) /\ <>[][Mood' = Mood]_vars
        => <>[](icon = IF restarted THEN "Settled" ELSE Mood)

\* A question that is held where it can stand is one that a person can answer: it
\* is on the screen, or will be again, or will be held no more.
HeldIsAnswerable ==
    \A s \in Sessions : standing /\ s \in held ~> s \notin held \/ \E n \in screen : n.about = s

-----------------------------------------------------------------------------
(***************************************************************************)
(* The inductive invariant behind NoButtonOutlivesItsQuestion,             *)
(* OnlyTheWindowIsMissed, StrandedOnlyAsKnown, OwedIsOnItsWay and          *)
(* WarningsAreSeen.                                                        *)
(***************************************************************************)
\* What is on a screen is of a question held, and is recorded or is being so by
\* the loop, which has nothing held by the time it waits for boxes or has ended.
Screened ==
    /\ \A n \in screen : n.about \in held
    /\ screen \subseteq recorded \cup putting
    /\ putting # {} => pc = "asking"
    /\ pc \in {"seeing", "gone"} => held = {}
    /\ back \in {"turn", "stay", "settling", "answers"}

\* A signal is of a notification that has left the screen; the press of one comes
\* before the closing of it, and nothing else does; and an owed press still on
\* the bus is of one recorded or being so.
Signalled ==
    /\ \A i \in DOMAIN bus : bus[i].of \notin screen
    /\ \A i, j \in DOMAIN bus : i < j /\ bus[i].of = bus[j].of => bus[j].choice = "closed"
    /\ \A i \in DOMAIN bus :
         bus[i].choice \in Keys /\ bus[i].of \in owed => bus[i].of \in recorded \cup putting

\* There are answers in hand only where they are being acted on, or what comes of
\* one of them is.
InHand ==
    /\ batch \in Seq(Answer)
    /\ batch # <<>> => pc = "answers" \/ (pc \in {"asking", "open"} /\ back = "answers")

\* Somebody can press a button about a session, or has, and it is not lost.
Awaits(s) ==
    \/ \E n \in screen : n.about = s
    \/ \E i \in DOMAIN bus : bus[i].choice \in Keys /\ bus[i].of \in owed /\ bus[i].of.about = s
    \/ \E i \in DOMAIN answers : answers[i].about = s
    \/ \E i \in DOMAIN batch : batch[i].about = s
Awaited == HasButtons => \A s \in held \ excused : Awaits(s)

\* What is held is about a directory that is there, or that the recover command
\* has dealt with.
Backed == held \subseteq left \cup elsewhere

\* A loop that is on its way out, with something on its icon, was told to go, and
\* one that was started by no command line has seen its boxes out.
Warned ==
    /\ \A i \in DOMAIN chosen : chosen[i] = Quit => quit
    /\ pc \in {"leaving", "seeing", "gone"} /\ standing /\ troubles # <<>> => quit \/ lost
    /\ pc = "gone" /\ ~prompt => boxes = 0

\* All that the proofs carry from one step to the next.
OnScreen == ChannelTypeOK /\ Screened /\ Signalled
IndInv == OnScreen /\ InHand /\ Awaited /\ OwedIsOnItsWay /\ Backed /\ Warned
===============================================================================
