-------------------------------- MODULE Channel --------------------------------
(***************************************************************************)
(* The channel the instance speaks through: questions put on a screen, the *)
(* buttons a person presses, the thread that turns a press into an answer, *)
(* and the boxes that must not be missed.                                  *)
(*                                                                         *)
(* A desktop's service gives a notification a number, which is recorded    *)
(* after it is on the screen, and says what became of it on a bus.  A      *)
(* toast's button calls a handler that knows what it is about.  A service  *)
(* without actions, and a terminal, have no buttons.                       *)
(*                                                                         *)
(* Sources: src/src/present/mod.rs, freedesktop.rs, toast.rs, terminal.rs. *)
(***************************************************************************)
EXTENDS Present

CONSTANT MaxAsks    \* how many notifications about a session matter at once

ASSUME AsksAssumption == MaxAsks \in Nat

VARIABLES
    channel,    \* which of Channels this process found
    screen,     \* the notifications with buttons on the screen
    putting,    \* the one put on it and not yet recorded, if there is one
    recorded,   \* the notifications the process can withdraw or look up
    stuck,      \* sessions with one on the screen that it no longer can
    bus,        \* signals the service has sent and the thread has not read
    answers,    \* what the thread has put down
    boxes       \* message boxes up, and the threads that show them

channelVars == <<channel, screen, putting, recorded, stuck, bus, answers, boxes>>

Channels == {"desktop", "statements", "toast", "terminal"}
Notification == [number : 1 .. MaxAsks, about : Sessions]
Signal == [of : Notification, choice : Keys \cup {"closed"}]

\* The type invariant of a channel.
ChannelTypeOK ==
    /\ channel \in Channels
    /\ screen \subseteq Notification /\ recorded \subseteq Notification
    /\ putting \subseteq Notification /\ stuck \subseteq Sessions
    /\ bus \in Seq(Signal) /\ answers \in Seq(Answer)
    /\ boxes \in Nat

ChannelInit ==
    /\ channel \in Channels
    /\ screen = {} /\ putting = {} /\ recorded = {} /\ stuck = {}
    /\ bus = <<>> /\ answers = <<>> /\ boxes = 0

HasButtons == channel \in {"desktop", "toast"}

-----------------------------------------------------------------------------
\* A number the service has not given is one that nothing refers to any more.
Unused(s) ==
    {n \in Notification : /\ n.about = s /\ n \notin screen \cup recorded \cup putting
                          /\ \A i \in DOMAIN bus : bus[i].of # n}
Given(s) == CHOOSE n \in Unused(s) : TRUE

\* Channel::ask up to Notify or Show returning.  Its failure is ignored.  What
\* has no buttons cannot be pressed, and is not kept on the screen here.
Put(s) ==
    /\ HasButtons => Unused(s) # {}
    /\ putting' = IF HasButtons THEN {Given(s)} ELSE {}
    /\ screen' = screen \cup putting'
    /\ UNCHANGED <<channel, recorded, stuck, bus, answers, boxes>>

\* Mutant: a session that has one recorded keeps that one.
RecordFirst ==
    /\ recorded' = recorded \cup {n \in putting : \A m \in recorded : m.about # n.about}
    /\ putting' = {}
    /\ UNCHANGED <<channel, screen, stuck, bus, answers, boxes>>

\* The rest of it: the number, or the toast, is recorded against the session,
\* whatever has happened to it since.
Record ==
    /\ recorded' = recorded \cup putting /\ putting' = {}
    /\ UNCHANGED <<channel, screen, stuck, bus, answers, boxes>>

\* A notification that cannot be closed is forgotten like the rest: it stays on
\* the screen, and nothing refers to it.
Recorded(gone) == {n \in recorded : n.about \in gone}
Forgets(n, kept) ==
    /\ kept \subseteq {m.about : m \in n \cap screen}
    /\ screen' = screen \ n /\ recorded' = recorded \ n /\ stuck' = stuck \cup kept
    /\ UNCHANGED <<channel, putting, bus, answers, boxes>>

\* Mutant: the first notification found is taken back.
WithdrawOne(gone, kept) ==
    Forgets({n \in Recorded(gone) : \A m \in recorded : m.about = n.about => n.number <= m.number},
            kept)

\* Channel::withdraw, for each of these sessions: every notification recorded
\* about it is closed, but for those that cannot be.  What has been answered
\* already stays answered.
Withdraw(gone, kept) == Forgets(Recorded(gone), kept)

\* A person presses a button, and the notification goes.
Press(n, choice) ==
    /\ n \in screen
    /\ screen' = screen \ {n}
    /\ IF channel = "desktop"
       THEN /\ bus' = bus \o <<[of |-> n, choice |-> choice], [of |-> n, choice |-> "closed"]>>
            /\ UNCHANGED answers
       ELSE /\ answers' = Append(answers, [about |-> n.about, choice |-> choice])
            /\ UNCHANGED bus
    /\ UNCHANGED <<channel, putting, recorded, stuck, boxes>>

\* One that nothing refers to: a signal of its number finds nobody, and a toast's
\* handler still knows what it is about.
PressStuck(s, choice) ==
    /\ s \in stuck
    /\ stuck' = stuck \ {s}
    /\ answers' = IF channel = "toast" THEN Append(answers, [about |-> s, choice |-> choice])
                  ELSE answers
    /\ UNCHANGED <<channel, screen, putting, recorded, bus, boxes>>

\* A person, or the service, closes one unanswered.  A toast says nothing of it.
Dismissed(n) ==
    /\ n \in screen
    /\ screen' = screen \ {n}
    /\ bus' = IF channel = "desktop" THEN Append(bus, [of |-> n, choice |-> "closed"]) ELSE bus
    /\ UNCHANGED <<channel, putting, recorded, stuck, answers, boxes>>

\* The thread Desktop::listen starts, reading one signal.  A press is of the
\* session its number is recorded against, or of nobody's.
Unheard == bus # <<>> /\ Head(bus).choice \in Keys /\ Head(bus).of \notin recorded
Listen ==
    /\ bus # <<>>
    /\ bus' = Tail(bus)
    /\ LET signal == Head(bus) IN
       /\ recorded' = IF signal.choice = "closed" THEN recorded \ {signal.of} ELSE recorded
       /\ answers' = IF signal.choice \in Keys /\ signal.of \in recorded
                     THEN Append(answers, [about |-> signal.of.about, choice |-> signal.choice])
                     ELSE answers
    /\ UNCHANGED <<channel, screen, putting, stuck, boxes>>

\* Channel::answers: all there are, and none left.
Drained == answers' = <<>> /\ UNCHANGED <<channel, screen, putting, recorded, stuck, bus, boxes>>

\* Channel::insist: a box on a thread of its own, where there is such a thing.
Insist ==
    /\ boxes' = IF channel = "toast" THEN boxes + 1 ELSE boxes
    /\ UNCHANGED <<channel, screen, putting, recorded, stuck, bus, answers>>
CloseBox ==
    /\ boxes > 0
    /\ boxes' = boxes - 1
    /\ UNCHANGED <<channel, screen, putting, recorded, stuck, bus, answers>>
===============================================================================
