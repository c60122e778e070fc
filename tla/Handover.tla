-------------------------------- MODULE Handover --------------------------------
(***************************************************************************)
(* What the front door promises about the request of an invocation, and    *)
(* all that it promises.  An invocation becomes an instance and sees to    *)
(* its request itself, or hands it to an instance, once: a request that    *)
(* has been handed over is not sent again, to that instance or another,    *)
(* whatever becomes of it, for it may have been acted on.  It is with      *)
(* nobody but a process that is an instance, and does not outlast it.      *)
(*                                                                         *)
(* FrontDoor implements this.                                              *)
(*                                                                         *)
(* Sources: src/src/main.rs for hand_over, open and the commands that      *)
(* reach the instance, and src/src/endpoint.rs.                            *)
(***************************************************************************)
CONSTANTS
    Invocations,  \* all of them
    Residents     \* those that can become an instance

VARIABLES
    with,  \* pairs of an invocation and the instance that has its request
    over   \* the invocations whose request was answered, or will not be

handoverVars == <<with, over>>

Init == with = {} /\ over = {}

\* Nobody has the request of q, and nobody has had it.
Unplaced(q) == q \notin over /\ \A w \in with : w[1] # q

\* Who has its own request is an instance.
IsInstance(p) == <<p, p>> \in with

Become(p) ==
    /\ Unplaced(p)
    /\ with' = with \cup {<<p, p>>} /\ UNCHANGED over

Give(q, p) ==
    /\ Unplaced(q) /\ IsInstance(p)
    /\ with' = with \cup {<<q, p>>} /\ UNCHANGED over

\* Requests are answered or given up, and with the request of an instance, which
\* is how one ends, every request it has.
Conclude(done) ==
    /\ done # {} /\ done \cap over = {}
    /\ \A w \in with : w[2] \in done => w[1] \in done
    /\ over' = over \cup done
    /\ with' = {w \in with : w[1] \notin done}

Next ==
    \/ \E p \in Residents : Become(p) \/ \E q \in Invocations : Give(q, p)
    \/ \E done \in SUBSET Invocations : Conclude(done)

Spec == Init /\ [][Next]_handoverVars
===============================================================================
