------------------------------- MODULE FrontDoor -------------------------------
(***************************************************************************)
(* How one of several invocations becomes the resident instance, how the   *)
(* others hand their request to it, and how it leaves: the socket or pipe, *)
(* the accepting thread, the request loop, and the sweep a new instance    *)
(* begins with.                                                            *)
(*                                                                         *)
(* The two kinds of door differ in what holds the name.  A socket's name   *)
(* is a file that outlives its listener and that anybody may unlink; a     *)
(* pipe's name is the listener's own.                                      *)
(*                                                                         *)
(* Sources: src/src/endpoint.rs, main.rs, ipc.rs, and resident.rs for run  *)
(* and sweep.                                                              *)
(***************************************************************************)
EXTENDS Naturals, Sequences

CONSTANTS
    Openers,    \* invocations of slipcase-open open
    Askers,     \* invocations of sessions, close and recover, which never bind
    Containers, \* the containers there are
    Kinds,      \* the doors to consider, from {"socket", "pipe"}
    Nobody,     \* no process
    MaxCrashes  \* how many invocations are killed

Processes == Openers \cup Askers

ASSUME NobodyAssumption == Nobody \notin Processes
ASSUME KindsAssumption == Kinds \subseteq {"socket", "pipe"}
ASSUME CrashAssumption == MaxCrashes \in Nat

VARIABLES
    kind,       \* the platform's kind of door
    name,       \* whose listener the door's name leads to, alive or debris
    open,       \* the processes whose listener is open
    backlog,    \* connections a listener has and its thread has not accepted
    inbox,      \* connections accepted and sent to the loop
    pc,         \* what each invocation is about to do
    sessions,   \* the containers each instance holds sessions on
    dirs,       \* session directories on disk: whose, and on which container
    crashes

vars == <<kind, name, open, backlog, inbox, pc, sessions, dirs, crashes>>

\* A connection is the caller waiting at its other end, or one made only to see
\* whether anybody was there.
Probing == Nobody

Step == {"connect", "bind", "probe", "clear", "rebind", "again", "waiting",
         "sweep", "first", "serve", "down", "done", "killed"}

\* The type invariant.
TypeOK ==
    /\ kind \in Kinds /\ name \in Processes \cup {Nobody}
    /\ open \subseteq Openers
    /\ backlog \in [Openers -> Seq(Processes \cup {Probing})]
    /\ inbox \in [Openers -> Seq(Processes \cup {Probing})]
    /\ pc \in [Processes -> Step]
    /\ sessions \in [Openers -> SUBSET Containers]
    /\ dirs \subseteq Openers \X Containers
    /\ crashes \in Nat

Init ==
    /\ kind \in Kinds /\ name = Nobody /\ open = {}
    /\ backlog = [p \in Openers |-> <<>>] /\ inbox = [p \in Openers |-> <<>>]
    /\ pc = [p \in Processes |-> "connect"]
    /\ sessions = [p \in Openers |-> {}] /\ dirs = {}
    /\ crashes = 0

-----------------------------------------------------------------------------
Go(p, next) == pc' = [pc EXCEPT ![p] = next]
Reached == name \in open
Busy == kind = "pipe" /\ name \in open /\ backlog[name] # <<>>
\* Mutant: who is cut off tries once more, as who loses the bind does.
HangAndRetry(conns, p, next) ==
    pc' = [q \in Processes |-> IF q = p THEN next
                               ELSE IF q \in conns /\ pc[q] = "waiting" THEN "again"
                               ELSE pc[q]]

\* Everybody at the other end of these connections finds them closed, and ends
\* with the error; p goes on to next.
Hang(conns, p, next) ==
    pc' = [q \in Processes |-> IF q = p THEN next
                               ELSE IF q \in conns /\ pc[q] = "waiting" THEN "done"
                               ELSE pc[q]]
Ends(conns) == {conns[i] : i \in DOMAIN conns}

\* The name once p's listener has been dropped.  A socket's Drop unlinks
\* whatever is at the path; a pipe's name goes with its own handles.
NameWithout(p) == IF kind = "socket" \/ name = p THEN Nobody ELSE name

(***************************************************************************)
(* Handing over, and becoming the instance.                                *)
(***************************************************************************)
\* hand_over, tried before binding and again after losing the bind.  A pipe
\* whose one waiting handle is taken is busy, and a caller that has been told
\* so often enough takes it that nobody is there.
Connect(p) ==
    /\ pc[p] \in {"connect", "again"}
    /\ \/ /\ Reached /\ ~Busy
          /\ backlog' = [backlog EXCEPT ![name] = Append(@, p)]
          /\ Go(p, "waiting")
       \/ /\ ~Reached \/ Busy
          /\ Go(p, IF pc[p] = "connect" /\ p \in Openers THEN "bind" ELSE "done")
          /\ UNCHANGED backlog
    /\ UNCHANGED <<kind, name, open, inbox, sessions, dirs, crashes>>

Bound(p) ==
    /\ name' = p /\ open' = open \cup {p}
    /\ Go(p, "sweep")

\* Mutant: the pipe is created without FILE_FLAG_FIRST_PIPE_INSTANCE.
BindAnyway(p) ==
    /\ pc[p] = "bind"
    /\ IF name = Nobody \/ kind = "pipe" THEN Bound(p)
       ELSE Go(p, "probe") /\ UNCHANGED <<name, open>>
    /\ UNCHANGED <<kind, backlog, inbox, sessions, dirs, crashes>>

\* endpoint::bind: the name is free, or a socket's is looked into and a pipe's
\* is refused.
Bind(p) ==
    /\ pc[p] = "bind"
    /\ IF name = Nobody THEN Bound(p)
       ELSE /\ Go(p, IF kind = "socket" THEN "probe" ELSE "again")
            /\ UNCHANGED <<name, open>>
    /\ UNCHANGED <<kind, backlog, inbox, sessions, dirs, crashes>>

\* The connection that tells a rival from debris.
Probe(p) ==
    /\ pc[p] = "probe"
    /\ IF Reached
       THEN /\ backlog' = [backlog EXCEPT ![name] = Append(@, Probing)]
            /\ Go(p, "again")
       ELSE Go(p, "clear") /\ UNCHANGED backlog
    /\ UNCHANGED <<kind, name, open, inbox, sessions, dirs, crashes>>

\* remove_file of whatever is at the path by now, and the second bind.
Clear(p) ==
    /\ pc[p] = "clear"
    /\ Go(p, IF name = Nobody THEN "again" ELSE "rebind")
    /\ name' = Nobody
    /\ UNCHANGED <<kind, open, backlog, inbox, sessions, dirs, crashes>>
Rebind(p) ==
    /\ pc[p] = "rebind"
    /\ IF name = Nobody THEN Bound(p) ELSE Go(p, "again") /\ UNCHANGED <<name, open>>
    /\ UNCHANGED <<kind, backlog, inbox, sessions, dirs, crashes>>

(***************************************************************************)
(* The instance.                                                           *)
(***************************************************************************)
\* resident::sweep, told that nothing is live: any session directory that is
\* quiet goes, whoever's it is.
Sweep(p) ==
    /\ pc[p] = "sweep"
    /\ dirs' \in SUBSET dirs
    /\ Go(p, "first")
    /\ UNCHANGED <<kind, name, open, backlog, inbox, sessions, crashes>>

\* Its own request.  With nothing to stay for, the listener is dropped, and
\* whoever had connected to it meanwhile is cut off.
First(p) ==
    /\ pc[p] = "first"
    /\ \/ \E c \in Containers :
             /\ sessions' = [sessions EXCEPT ![p] = {c}]
             /\ dirs' = dirs \cup {<<p, c>>}
          /\ Go(p, "serve")
          /\ UNCHANGED <<name, open, backlog>>
       \/ /\ open' = open \ {p} /\ name' = NameWithout(p)
          /\ backlog' = [backlog EXCEPT ![p] = <<>>]
          /\ Hang(Ends(backlog[p]), p, "done")
          /\ UNCHANGED <<sessions, dirs>>
       \* an icon is up and a trouble is on it
       \/ /\ kind = "pipe" /\ Go(p, "serve")
          /\ UNCHANGED <<name, open, backlog, sessions, dirs>>
    /\ UNCHANGED <<kind, inbox, crashes>>

\* The accepting thread, while there is a loop to send to.
Accept(p) ==
    /\ pc[p] = "serve" /\ p \in open /\ backlog[p] # <<>>
    /\ inbox' = [inbox EXCEPT ![p] = Append(@, Head(backlog[p]))]
    /\ backlog' = [backlog EXCEPT ![p] = Tail(@)]
    /\ UNCHANGED <<kind, name, open, pc, sessions, dirs, crashes>>

\* On a pipe, a caller that went before the thread came to it, or no handle to
\* be had for the next one: the handle with the caller at it is dropped, the
\* iterator ends, and the listener goes with its thread.
Lost(p) ==
    /\ pc[p] = "serve" /\ kind = "pipe" /\ p \in open /\ backlog[p] # <<>>
    /\ open' = open \ {p} /\ name' = NameWithout(p)
    /\ backlog' = [backlog EXCEPT ![p] = <<>>]
    /\ Hang(Ends(backlog[p]), p, "serve")
    /\ UNCHANGED <<kind, inbox, sessions, dirs, crashes>>

\* The loop finds that out once it has taken every request it had been sent.
Disconnected(p) ==
    /\ pc[p] = "serve" /\ p \notin open /\ inbox[p] = <<>>
    /\ Go(p, "down")
    /\ UNCHANGED <<kind, name, open, backlog, inbox, sessions, dirs, crashes>>

\* Mutant: a request that cannot be read is dropped and not answered.
HandleUnanswered(p) ==
    /\ pc[p] = "serve" /\ inbox[p] # <<>>
    /\ inbox' = [inbox EXCEPT ![p] = Tail(@)]
    /\ UNCHANGED <<kind, name, open, backlog, pc, sessions, dirs, crashes>>

\* One round of run: a request taken, handled and answered.  A connection that
\* carries none is answered too, to nobody.
Handle(p) ==
    /\ pc[p] = "serve" /\ inbox[p] # <<>>
    /\ inbox' = [inbox EXCEPT ![p] = Tail(@)]
    /\ LET q == Head(inbox[p]) IN
       /\ IF q \in Processes /\ pc[q] = "waiting" THEN Go(q, "done") ELSE UNCHANGED pc
       /\ \/ UNCHANGED <<sessions, dirs>>      \* refused, brought forward, listed
          \/ \E c \in Containers :             \* opened
               /\ q \in Openers /\ c \notin sessions[p]
               /\ sessions' = [sessions EXCEPT ![p] = @ \cup {c}]
               /\ dirs' = dirs \cup {<<p, c>>}
          \/ \E c \in sessions[p] :            \* closed
               /\ q \in Askers
               /\ sessions' = [sessions EXCEPT ![p] = @ \ {c}]
               /\ dirs' = dirs \ {<<p, c>>}
    /\ UNCHANGED <<kind, name, open, backlog, crashes>>

\* Mutant: what the loop had been sent and had not taken is kept until the end.
LeaveUntaken(p) ==
    /\ pc[p] = "serve"
    /\ sessions[p] = {} \/ kind = "pipe"
    /\ Go(p, "down")
    /\ UNCHANGED <<kind, name, open, backlog, inbox, sessions, dirs, crashes>>

\* run returns, by the exit rule or by the icon's Quit.  The receiver goes with
\* it, and every request it had not taken.
Leave(p) ==
    /\ pc[p] = "serve"
    /\ sessions[p] = {} \/ kind = "pipe"
    /\ inbox' = [inbox EXCEPT ![p] = <<>>]
    /\ Hang(Ends(inbox[p]), p, "down")
    /\ UNCHANGED <<kind, name, open, backlog, sessions, dirs, crashes>>

\* The thread accepts once more, finds no loop to send to, and ends: the caller
\* is cut off and the listener dropped.
Deaf(p) ==
    /\ pc[p] = "down" /\ p \in open /\ backlog[p] # <<>>
    /\ open' = open \ {p} /\ name' = NameWithout(p)
    /\ backlog' = [backlog EXCEPT ![p] = <<>>]
    /\ Hang(Ends(backlog[p]), p, "down")
    /\ UNCHANGED <<kind, inbox, sessions, dirs, crashes>>

\* Resident::stand_down closes the sessions one by one, and the process ends.
StandDown(p) ==
    /\ pc[p] = "down"
    /\ \E c \in sessions[p] :
         /\ sessions' = [sessions EXCEPT ![p] = @ \ {c}]
         /\ dirs' \in {dirs, dirs \ {<<p, c>>}}
    /\ UNCHANGED <<kind, name, open, backlog, inbox, pc, crashes>>

\* What the end of a process leaves: connections closed, the name of a pipe
\* free, the file of a socket where it was.
Gone(p, end) ==
    /\ open' = open \ {p}
    /\ name' = IF kind = "pipe" /\ name = p THEN Nobody ELSE name
    /\ IF p \in Openers
       THEN /\ backlog' = [backlog EXCEPT ![p] = <<>>]
            /\ inbox' = [inbox EXCEPT ![p] = <<>>]
            /\ sessions' = [sessions EXCEPT ![p] = {}]
            /\ Hang(Ends(backlog[p]) \cup Ends(inbox[p]), p, end)
       ELSE Go(p, end) /\ UNCHANGED <<backlog, inbox, sessions>>
    /\ UNCHANGED <<kind, dirs>>
End(p) ==
    /\ pc[p] = "down" /\ sessions[p] = {}
    /\ Gone(p, "done") /\ UNCHANGED crashes
Crash(p) ==
    /\ pc[p] \notin {"done", "killed"} /\ crashes < MaxCrashes
    /\ crashes' = crashes + 1
    /\ Gone(p, "killed")

Becoming(p) == Bind(p) \/ Probe(p) \/ Clear(p) \/ Rebind(p) \/ Sweep(p) \/ First(p)
Serving(p)  ==
    \/ Accept(p) \/ Lost(p) \/ Disconnected(p) \/ Handle(p)
    \/ Leave(p) \/ Deaf(p) \/ StandDown(p) \/ End(p)

Next ==
    \/ \E p \in Processes : Connect(p) \/ Crash(p)
    \/ \E p \in Openers : Becoming(p) \/ Serving(p)

Spec == Init /\ [][Next]_vars

\* Processes run; a thread accepts and a loop takes what it is sent.  Nobody
\* has to close a session or leave.
Fairness ==
    /\ \A p \in Processes : WF_vars(Connect(p))
    /\ \A p \in Openers : /\ WF_vars(Becoming(p)) /\ WF_vars(Accept(p) \/ Lost(p))
                          /\ WF_vars(Handle(p)) /\ WF_vars(Disconnected(p))
                          /\ WF_vars(Deaf(p)) /\ WF_vars(StandDown(p) \/ End(p))
FairSpec == Spec /\ Fairness

-----------------------------------------------------------------------------
Instances == {p \in Openers : pc[p] \in {"sweep", "first", "serve"}}

\* There is one instance: no two invocations have bound the door and are
\* sweeping, opening or serving.
OneInstance == \A p, q \in Instances : p = q

\* On a pipe there is one with its door open, at any moment: the name is the
\* listener's own, and goes only with it.
OnePipeInstance == kind = "pipe" => \A p, q \in Instances \cap open : p = q

\* On a pipe, the sweep an instance begins with takes no directory of a session
\* that another is serving whose door is open.
SweepsSpareTheServed ==
    [][\A d \in dirs \ dirs' :
         kind = "pipe" /\ pc[d[1]] = "serve" /\ d[1] \in open
             => d[2] \notin sessions'[d[1]]]_vars

\* Whoever waits at a connection waits at that of a process that will come to it:
\* in the backlog of a listener that is open, with a thread to accept from it or a
\* process whose end closes it, or in the inbox of a loop that is running.  A
\* caller that waits anywhere else would wait for ever: nothing times out.
Handed(p) == Ends(backlog[p]) \cup Ends(inbox[p])
CallersAreAttended ==
    \A q \in Processes : pc[q] = "waiting" =>
        \E p \in Openers \ {q} :
            \/ q \in Ends(backlog[p]) /\ p \in open /\ pc[p] \in {"sweep", "first", "serve", "down"}
            \/ q \in Ends(inbox[p]) /\ pc[p] = "serve"

\* Every caller that has connected is answered or told that nobody will.
CallersHearBack == \A p \in Processes : pc[p] = "waiting" ~> pc[p] # "waiting"

-----------------------------------------------------------------------------
(***************************************************************************)
(* Where each request is: with its own process while that opens, serves or *)
(* leaves, with whoever has its connection while it waits, and otherwise   *)
(* with nobody, yet or any more.                                           *)
(***************************************************************************)
Instance == {"sweep", "first", "serve", "down"}
With == {w \in Processes \X Openers :
            \/ pc[w[1]] \in Instance /\ w[1] = w[2]
            \/ pc[w[1]] = "waiting" /\ w[1] \in Handed(w[2])}

Promise == INSTANCE Handover
    WITH Invocations <- Processes, Residents <- Openers,
         with <- With, over <- {q \in Processes : pc[q] \in {"done", "killed"}}

\* Every request is kept, handed over once, or given up, and is not with two
\* instances, nor with one after another, nor with one that has gone: who is cut off
\* does not try again, for what it asked may have been done.
HandsOverOnce == Promise!Spec

-----------------------------------------------------------------------------
(***************************************************************************)
(* The inductive invariant behind OnePipeInstance, SweepsSpareTheServed,   *)
(* CallersAreAttended and HandsOverOnce.                                   *)
(***************************************************************************)
\* Only the listener with the name of the pipe is open, an instance sweeps and
\* opens with it open, and nobody takes a pipe for debris.
PipeHeld ==
    kind = "pipe" =>
        /\ \A p \in open : name = p
        /\ \A p \in Openers : pc[p] \in {"sweep", "first"} => p \in open
        /\ \A p \in Processes : pc[p] \notin {"probe", "clear", "rebind"}

\* Behind CallersAreAttended.
\*
\* A listener is open only while its process is the instance or is leaving, a loop
\* has an inbox only while it runs, and a caller is where it will be attended to.
DoorsKept ==
    /\ \A p \in open : pc[p] \in {"sweep", "first", "serve", "down"}
    /\ \A p \in Openers : backlog[p] # <<>> => p \in open
    /\ \A p \in Openers : inbox[p] # <<>> => pc[p] = "serve"
    /\ \A q \in Processes : pc[q] = "waiting" => \E p \in Openers : q \in Handed(p)

\* Behind HandsOverOnce.
\*
\* Whoever is in a queue has connected and does nothing else any more.
HasHandedOver == {"waiting", "done", "killed"}
QueuesKept ==
    \A p \in Openers : \A q \in Handed(p) \ {Probing} : pc[q] \in HasHandedOver

\* All that the proofs carry from one step to the next.
IndInv == TypeOK /\ PipeHeld /\ DoorsKept /\ QueuesKept
===============================================================================
