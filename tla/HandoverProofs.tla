----------------------------- MODULE HandoverProofs -----------------------------
(***************************************************************************)
(* That the front door keeps the promise of Handover: every step of        *)
(* FrontDoor is a step of it, or changes nothing it sees.                  *)
(***************************************************************************)
EXTENDS FrontDoorProofs

Ended == {"done", "killed"}

\* A process has not begun, is the instance, waits, or has ended.
SameStage(q) ==
    /\ pc'[q] \in Instance <=> pc[q] \in Instance
    /\ pc'[q] = "waiting" <=> pc[q] = "waiting"
    /\ pc'[q] \in Ended <=> pc[q] \in Ended

\* Nobody but an instance, or one that is leaving, has anybody in a queue.
LEMMA WhoHasQueues ==
    ASSUME IndInv, NEW p \in Openers, Handed(p) # {} PROVE pc[p] \in Instance
<1>1. backlog[p] # <<>> \/ inbox[p] # <<>>
  BY EndsOf DEF Handed
<1> QED
  BY <1>1 DEF IndInv, DoorsKept, Instance

\* Whoever has not connected is in no queue.
LEMMA NotYet ==
    ASSUME IndInv, NEW q \in Processes, pc[q] \notin HasHandedOver, NEW p \in Openers
    PROVE  q \notin Handed(p)
BY NobodyAssumption DEF IndInv, QueuesKept, Probing, Processes

\* A step that changes neither how far anybody is nor who waits where.
LEMMA Unmoved ==
    ASSUME \A q \in Processes : SameStage(q),
           \A p \in Openers : \A q \in Processes :
               pc[q] = "waiting" => (q \in Handed(p)' <=> q \in Handed(p))
    PROVE  UNCHANGED Promise!handoverVars
<1>1. With' = With
  BY DEF With, SameStage
<1>2. {q \in Processes : pc[q] \in {"done", "killed"}}'
        = {q \in Processes : pc[q] \in {"done", "killed"}}
  BY DEF SameStage, Ended
<1> QED
  BY <1>1, <1>2 DEF Promise!handoverVars

\* A step by which some end that had not, with all that was given to them, and
\* by which nobody else is anywhere else.
LEMMA Concluding ==
    ASSUME NEW done \in SUBSET Processes, done # {},
           \A q \in done : pc[q] \notin Ended /\ pc'[q] \in Ended,
           \A q \in Processes \ done : SameStage(q),
           \A p \in Openers : \A q \in Processes \ done :
               pc[q] = "waiting" => (q \in Handed(p)' <=> q \in Handed(p)),
           \A p \in done \cap Openers : \A q \in Handed(p) \cap Processes :
               pc[q] = "waiting" => q \in done
    PROVE  Promise!Next
<1> DEFINE over == {q \in Processes : pc[q] \in {"done", "killed"}}
<1>1. over' = over \cup done /\ done \cap over = {}
  BY DEF SameStage, Ended
<1>2. \A w \in With : w[2] \in done => w[1] \in done
  BY DEF With
<1>3. With' = {w \in With : w[1] \notin done}
  <2>1. \A q \in done : pc'[q] \notin Instance /\ pc'[q] # "waiting"
    BY DEF Ended, Instance
  <2> QED
    BY <2>1 DEF With, SameStage
<1>4. Promise!Conclude(done)
  BY <1>1, <1>2, <1>3 DEF Promise!Conclude
<1> QED
  BY <1>4 DEF Promise!Next

\* A process that hangs up, and ends or goes on, takes with it those it cuts off.
LEMMA HangingUp ==
    ASSUME IndInv, NEW p \in Openers, NEW next \in {"serve", "down", "done", "killed"},
           NEW conns, Hang(conns, p, next), pc[p] \notin Ended,
           next \notin Ended => pc[p] \in Instance,
           next \in Ended => Handed(p) \subseteq conns,
           \A o \in Openers \ {p} : Handed(o)' = Handed(o),
           Handed(p)' \subseteq Handed(p), Handed(p) \subseteq Handed(p)' \cup conns
    PROVE  Promise!Next \/ UNCHANGED Promise!handoverVars
<1> DEFINE cut  == {q \in Processes \ {p} : q \in conns /\ pc[q] = "waiting"}
           done == IF next \in Ended THEN cut \cup {p} ELSE cut
<1> USE DEF Processes
<1>1. /\ pc'[p] = next
      /\ \A q \in cut : pc'[q] = "done"
      /\ \A q \in Processes \ {p} : q \notin cut => pc'[q] = pc[q]
  BY DEF Hang, IndInv, TypeOK
<1>2. \A q \in done : pc[q] \notin Ended /\ pc'[q] \in Ended
  BY <1>1 DEF Ended
<1>3. \A q \in Processes \ done : SameStage(q)
  BY <1>1 DEF SameStage, Ended, Instance
<1>4. \A o \in Openers : \A q \in Processes \ done :
          pc[q] = "waiting" => (q \in Handed(o)' <=> q \in Handed(o))
  <2> SUFFICES ASSUME NEW q \in Processes \ done, pc[q] = "waiting"
               PROVE  q \in Handed(p)' <=> q \in Handed(p)
    OBVIOUS
  <2>1. q # p
    BY DEF Instance
  <2> QED
    BY <2>1
<1>5. ASSUME NEW o \in done \cap Openers, NEW q \in Handed(o) \cap Processes, pc[q] = "waiting"
      PROVE  q \in done
  <2>1. pc[o] # "waiting"
    BY <1>5, WhoHasQueues DEF Instance
  <2>2. o = p /\ next \in Ended
    BY <2>1
  <2> QED
    BY <1>5, <2>2
<1>6. CASE done = {}
  <2> HIDE DEF done
  <2> QED
    BY <1>3, <1>4, <1>6, Unmoved
<1>7. CASE done # {}
  <2>1. done \in SUBSET Processes
    OBVIOUS
  <2> HIDE DEF done
  <2> QED
    BY <1>2, <1>3, <1>4, <1>5, <1>7, <2>1, Concluding
<1> QED
  BY <1>6, <1>7

\* An invocation that binds the door becomes an instance.
LEMMA BecomingTheInstance ==
    ASSUME IndInv, NEW p \in Openers, pc[p] \in {"bind", "rebind"}, Bound(p), UNCHANGED <<backlog, inbox>>
    PROVE  Promise!Next
<1> USE DEF Processes
<1>1. /\ pc'[p] = "sweep"
      /\ \A q \in Processes \ {p} : pc'[q] = pc[q]
  BY DEF Bound, Go, IndInv, TypeOK
<1>2. \A o \in Openers : Handed(o)' = Handed(o)
  BY DEF Handed
<1>3. With' = With \cup {<<p, p>>}
  BY <1>1, <1>2 DEF With, Instance
<1>4. {q \in Processes : pc[q] \in {"done", "killed"}}'
        = {q \in Processes : pc[q] \in {"done", "killed"}}
  BY <1>1
<1>5. \A w \in With : w[1] # p
  BY DEF With, Instance
<1>6. Promise!Become(p)
  BY <1>3, <1>4, <1>5 DEF Promise!Become, Promise!Unplaced
<1> QED
  BY <1>6 DEF Promise!Next

\* One that connects gives its request to the instance at the other end, or is
\* where it was, or has nowhere to go and ends.
LEMMA Connecting ==
    ASSUME IndInv, NEW p \in Processes, Connect(p)
    PROVE  Promise!Next \/ UNCHANGED Promise!handoverVars
<1> USE DEF Processes
<1>0. /\ pc[p] \in {"connect", "again"} /\ pc[p] \notin HasHandedOver
      /\ pc \in [Processes -> Step] /\ UNCHANGED <<name, inbox>>
      /\ backlog \in [Openers -> Conns]
  BY DEF Connect, HasHandedOver, IndInv, TypeOK, Conns
<1>1. \A o \in Openers : p \notin Handed(o)
  BY <1>0, NotYet
<1>2. CASE name \in open /\ backlog' = [backlog EXCEPT ![name] = Append(@, p)] /\ Go(p, "waiting")
  <2>1. name \in Openers /\ pc[name] \in Instance
    BY <1>2 DEF IndInv, TypeOK, DoorsKept, Instance
  <2>2. Ends(backlog'[name]) = Ends(backlog[name]) \cup {p}
    BY <1>0, <1>2, <2>1, EndsOf
  <2>3. /\ Handed(name)' = Handed(name) \cup {p}
        /\ \A o \in Openers \ {name} : Handed(o)' = Handed(o)
    <3>1. inbox' = inbox /\ \A o \in Openers \ {name} : backlog'[o] = backlog[o]
      BY <1>0, <1>2, <2>1
    <3> QED
      BY <1>0, <2>2, <3>1 DEF Handed
  <2>4. pc'[p] = "waiting" /\ \A q \in Processes \ {p} : pc'[q] = pc[q]
    BY <1>0, <1>2 DEF Go
  <2>5. With' = With \cup {<<p, name>>}
    <3>1. ASSUME NEW q \in Processes, NEW o \in Openers
          PROVE  <<q, o>> \in With' <=> <<q, o>> \in With \/ (q = p /\ o = name)
      <4>1. CASE q = p
        BY <1>0, <1>1, <2>1, <2>3, <2>4, <4>1 DEF With, Instance
      <4>2. CASE q # p
        <5>1. q \in Handed(o)' <=> q \in Handed(o)
          BY <1>0, <2>3, <4>2
        <5> QED
          BY <2>4, <4>2, <5>1 DEF With
      <4> QED
        BY <4>1, <4>2
    <3>2. With \subseteq Processes \X Openers /\ With' \subseteq Processes \X Openers
      BY DEF With
    <3> QED
      BY <2>1, <3>1, <3>2
  <2>6. {q \in Processes : pc[q] \in {"done", "killed"}}'
          = {q \in Processes : pc[q] \in {"done", "killed"}}
    BY <1>0, <2>4
  <2>7. <<name, name>> \in With /\ \A w \in With : w[1] # p
    BY <1>0, <2>1 DEF With, Instance
  <2>8. Promise!Give(p, name)
    BY <1>0, <2>5, <2>6, <2>7 DEF Promise!Give, Promise!Unplaced, Promise!IsInstance
  <2> QED
    BY <2>1, <2>8 DEF Promise!Next
<1>3. CASE UNCHANGED backlog /\ (Go(p, "bind") \/ Go(p, "done"))
  <2>1. \A o \in Openers : Handed(o)' = Handed(o)
    BY <1>0, <1>3 DEF Handed
  <2>2. \A q \in Processes \ {p} : SameStage(q)
    BY <1>0, <1>3 DEF Go, SameStage
  <2>3. CASE Go(p, "bind")
    <3>1. SameStage(p)
      BY <1>0, <2>3 DEF Go, SameStage, Instance, Ended
    <3> QED
      BY <2>1, <2>2, <3>1, Unmoved
  <2>4. CASE Go(p, "done")
    <3>1. pc[p] \notin Ended /\ pc'[p] \in Ended
      BY <1>0, <2>4 DEF Go, Ended
    <3>2. p \in Openers => Handed(p) = {}
      BY <1>0, WhoHasQueues DEF Instance
    <3> DEFINE done == {p}
    <3>3. /\ done \in SUBSET Processes /\ done # {}
          /\ \A q \in done : pc[q] \notin Ended /\ pc'[q] \in Ended
          /\ \A q \in Processes \ done : SameStage(q)
          /\ \A o \in done \cap Openers : Handed(o) = {}
      BY <2>2, <3>1, <3>2
    <3> HIDE DEF done
    <3> QED
      BY <2>1, <3>3, Concluding
  <2> QED
    BY <1>3, <2>3, <2>4
<1> QED
  BY <1>2, <1>3 DEF Connect, Reached

\* A request that is answered is over, and nothing else is.
LEMMA Answering ==
    ASSUME IndInv, NEW p \in Openers, Handle(p)
    PROVE  Promise!Next \/ UNCHANGED Promise!handoverVars
<1> USE DEF Processes
<1> DEFINE q == Head(inbox[p])
<1>0. /\ pc \in [Processes -> Step] /\ inbox \in [Openers -> Conns]
      /\ inbox[p] # <<>> /\ inbox' = [inbox EXCEPT ![p] = Tail(@)] /\ UNCHANGED backlog
      /\ IF q \in Processes /\ pc[q] = "waiting" THEN Go(q, "done") ELSE UNCHANGED pc
  BY DEF Handle, IndInv, TypeOK, Conns
<1>1. Ends(inbox[p]) = Ends(inbox'[p]) \cup {q}
  BY <1>0, EndsOf
<1> HIDE DEF q
<1>2. \A o \in Openers : Handed(o)' \subseteq Handed(o) /\ Handed(o) \subseteq Handed(o)' \cup {q}
  BY <1>0, <1>1 DEF Handed
<1>3. CASE q \in Processes /\ pc[q] = "waiting"
  <2>1. /\ pc'[q] = "done" /\ \A r \in Processes \ {q} : SameStage(r)
    BY <1>0, <1>3 DEF Go, SameStage
  <2>2. q \in Openers => Handed(q) = {}
    BY <1>3, WhoHasQueues DEF Instance
  <2> DEFINE done == {q}
  <2>3. /\ done \in SUBSET Processes /\ done # {}
        /\ \A r \in done : pc[r] \notin Ended /\ pc'[r] \in Ended
        /\ \A r \in Processes \ done : SameStage(r)
        /\ \A o \in done \cap Openers : Handed(o) = {}
        /\ \A o \in Openers : \A r \in Processes \ done : r \in Handed(o)' <=> r \in Handed(o)
    BY <1>2, <1>3, <2>1, <2>2 DEF Ended
  <2> HIDE DEF done
  <2> QED
    BY <2>3, Concluding
<1>4. CASE ~(q \in Processes /\ pc[q] = "waiting")
  <2>1. pc' = pc
    BY <1>0, <1>4
  <2> QED
    BY <1>2, <1>4, <2>1, Unmoved DEF SameStage
<1> QED
  BY <1>3, <1>4

\* So is that of a process that ends or is killed, with all that it had.
LEMMA Ending ==
    ASSUME IndInv, NEW p \in Processes, NEW end \in Ended, Gone(p, end), pc[p] \notin Ended
    PROVE  Promise!Next \/ UNCHANGED Promise!handoverVars
<1> USE DEF Processes
<1>1. CASE p \in Openers
  <2>1. /\ Hang(Ends(backlog[p]) \cup Ends(inbox[p]), p, end)
        /\ backlog' = [backlog EXCEPT ![p] = <<>>] /\ inbox' = [inbox EXCEPT ![p] = <<>>]
    BY <1>1 DEF Gone
  <2>2. /\ \A o \in Openers \ {p} : Handed(o)' = Handed(o)
        /\ Handed(p)' = {}
    BY <1>1, <2>1, EndsOf DEF Handed, IndInv, TypeOK
  <2>3. Handed(p) = Ends(backlog[p]) \cup Ends(inbox[p])
    BY DEF Handed
  <2> QED
    BY <1>1, <2>1, <2>2, <2>3, HangingUp DEF Ended
<1>2. CASE p \notin Openers
  <2>1. UNCHANGED <<backlog, inbox>> /\ Go(p, end)
    BY <1>2 DEF Gone
  <2>2. \A o \in Openers : Handed(o)' = Handed(o)
    BY <2>1 DEF Handed
  <2> DEFINE done == {p}
  <2>3. /\ done \in SUBSET Processes /\ done # {}
        /\ \A q \in done : pc[q] \notin Ended /\ pc'[q] \in Ended
        /\ \A q \in Processes \ done : SameStage(q)
        /\ \A o \in done \cap Openers : Handed(o) = {}
    BY <1>2, <2>1 DEF Go, SameStage, IndInv, TypeOK
  <2> HIDE DEF done
  <2> QED
    BY <2>2, <2>3, Concluding
<1> QED
  BY <1>1, <1>2

\* Every step of the front door is one of the promise, or nothing to it.
LEMMA StepKeeps ==
    IndInv /\ [Next]_vars => Promise!Next \/ UNCHANGED Promise!handoverVars
<1> SUFFICES ASSUME IndInv, [Next]_vars
             PROVE  Promise!Next \/ UNCHANGED Promise!handoverVars
  OBVIOUS
<1> DEFINE Kept == Promise!Next \/ UNCHANGED Promise!handoverVars
<1>0. pc \in [Processes -> Step] /\ Openers \subseteq Processes
  BY DEF IndInv, TypeOK, Processes
<1>a. backlog \in [Openers -> Conns] /\ inbox \in [Openers -> Conns]
  BY DEF IndInv, TypeOK, Conns
<1>1. ASSUME NEW p \in Processes, Connect(p) PROVE Kept
  BY <1>1, Connecting
<1>2. ASSUME NEW p \in Processes, Crash(p) PROVE Kept
  BY <1>2, Ending DEF Crash, Ended
<1>3. ASSUME NEW p \in Openers, Bind(p) \/ Rebind(p) PROVE Kept
  <2>1. CASE Bound(p)
    BY <1>3, <2>1, BecomingTheInstance DEF Bind, Rebind
  <2>2. CASE ~Bound(p)
    <3>1. \A q \in Processes : SameStage(q)
      BY <1>0, <1>3, <2>2 DEF Bind, Rebind, Go, SameStage, Instance, Ended
    <3>2. \A o \in Openers : Handed(o)' = Handed(o)
      BY <1>3 DEF Bind, Rebind, Handed
    <3> QED
      BY <3>1, <3>2, Unmoved
  <2> QED
    BY <2>1, <2>2
<1>4. ASSUME NEW p \in Openers, Clear(p) \/ Sweep(p) \/ Disconnected(p) \/ StandDown(p) PROVE Kept
  <2>1. \A q \in Processes : SameStage(q)
    BY <1>0, <1>4 DEF Clear, Sweep, Disconnected, StandDown, Go, SameStage, Instance, Ended
  <2>2. \A o \in Openers : Handed(o)' = Handed(o)
    BY <1>4 DEF Clear, Sweep, Disconnected, StandDown, Handed
  <2> QED
    BY <2>1, <2>2, Unmoved
<1>5. ASSUME NEW p \in Openers, Probe(p) PROVE Kept
  <2>1. \A q \in Processes : SameStage(q)
    BY <1>0, <1>5 DEF Probe, Go, SameStage, Instance, Ended
  <2>2. \A o \in Openers : \A q \in Processes : q \in Handed(o)' <=> q \in Handed(o)
    <3>1. CASE name \in open /\ backlog' = [backlog EXCEPT ![name] = Append(@, Probing)]
      <4>1. name \in Openers /\ UNCHANGED <<name, inbox>>
        BY <1>5, <3>1 DEF Probe, IndInv, TypeOK
      <4>2. Ends(backlog'[name]) = Ends(backlog[name]) \cup {Probing}
        BY <1>a, <3>1, <4>1, EndsOf
      <4>3. \A o \in Openers : Ends(backlog'[o]) \in {Ends(backlog[o]), Ends(backlog[o]) \cup {Probing}}
        BY <1>a, <3>1, <4>1, <4>2
      <4> QED
        BY <4>1, <4>3, NobodyAssumption DEF Handed, Probing
    <3>2. CASE UNCHANGED backlog
      BY <1>5, <3>2 DEF Probe, Handed
    <3> QED
      BY <1>5, <3>1, <3>2 DEF Probe, Reached
  <2> QED
    BY <2>1, <2>2, Unmoved
<1>6. ASSUME NEW p \in Openers, First(p) PROVE Kept
  <2>1. inbox[p] = <<>>
    BY <1>6 DEF First, IndInv, DoorsKept
  <2>2. CASE UNCHANGED backlog /\ Go(p, "serve")
    <3>1. \A q \in Processes : SameStage(q)
      BY <1>0, <1>6, <2>2 DEF First, Go, SameStage, Instance, Ended
    <3>2. \A o \in Openers : Handed(o)' = Handed(o)
      BY <1>6, <2>2 DEF First, Handed
    <3> QED
      BY <3>1, <3>2, Unmoved
  <2>3. CASE backlog' = [backlog EXCEPT ![p] = <<>>] /\ Hang(Ends(backlog[p]), p, "done")
    <3>1. UNCHANGED inbox /\ pc[p] \notin Ended
      BY <1>6 DEF First, Ended
    <3>2. Handed(p) = Ends(backlog[p]) /\ Handed(p)' = {}
      BY <1>a, <2>1, <2>3, <3>1, EndsOf DEF Handed
    <3>3. \A o \in Openers \ {p} : Handed(o)' = Handed(o)
      BY <1>a, <2>3, <3>1 DEF Handed
    <3> QED
      BY <2>3, <3>1, <3>2, <3>3, HangingUp DEF Ended
  <2> QED
    BY <1>6, <2>2, <2>3 DEF First
<1>7. ASSUME NEW p \in Openers, Accept(p) PROVE Kept
  <2>1. /\ Ends(inbox'[p]) = Ends(inbox[p]) \cup {Head(backlog[p])}
        /\ Ends(backlog[p]) = Ends(backlog'[p]) \cup {Head(backlog[p])}
    BY <1>a, <1>7, EndsOf, Connections DEF Accept
  <2>2. \A o \in Openers : Handed(o)' = Handed(o)
    BY <1>a, <1>7, <2>1 DEF Accept, Handed
  <2> QED
    BY <1>7, <2>2, Unmoved DEF Accept, SameStage
<1>8. ASSUME NEW p \in Openers, Handle(p) PROVE Kept
  BY <1>8, Answering
<1>9. ASSUME NEW p \in Openers, Lost(p) \/ Deaf(p) PROVE Kept
  <2>1. /\ Hang(Ends(backlog[p]), p, pc[p]) /\ pc[p] \in {"serve", "down"}
        /\ UNCHANGED inbox /\ backlog' = [backlog EXCEPT ![p] = <<>>]
    BY <1>9 DEF Lost, Deaf
  <2>2. /\ \A o \in Openers \ {p} : Handed(o)' = Handed(o)
        /\ Handed(p)' \subseteq Handed(p) /\ Handed(p) \subseteq Handed(p)' \cup Ends(backlog[p])
    BY <1>a, <2>1, EndsOf DEF Handed
  <2> QED
    BY <2>1, <2>2, HangingUp DEF Ended, Instance
<1>10. ASSUME NEW p \in Openers, Leave(p) PROVE Kept
  <2>1. /\ Hang(Ends(inbox[p]), p, "down") /\ pc[p] = "serve"
        /\ UNCHANGED backlog /\ inbox' = [inbox EXCEPT ![p] = <<>>]
    BY <1>10 DEF Leave
  <2>2. /\ \A o \in Openers \ {p} : Handed(o)' = Handed(o)
        /\ Handed(p)' \subseteq Handed(p) /\ Handed(p) \subseteq Handed(p)' \cup Ends(inbox[p])
    BY <1>a, <2>1, EndsOf DEF Handed
  <2> QED
    BY <2>1, <2>2, HangingUp DEF Ended, Instance
<1>11. ASSUME NEW p \in Openers, End(p) PROVE Kept
  BY <1>0, <1>11, Ending DEF End, Ended
<1>12. CASE UNCHANGED vars
  <2>1. \A o \in Openers : Handed(o)' = Handed(o)
    BY <1>12 DEF vars, Handed
  <2> QED
    BY <1>12, <2>1, Unmoved DEF vars, SameStage
<1>13. ASSUME NEW p \in Openers, Becoming(p) PROVE Kept
  BY <1>13, <1>3, <1>4, <1>5, <1>6 DEF Becoming
<1>14. ASSUME NEW p \in Openers, Serving(p) PROVE Kept
  BY <1>14, <1>4, <1>7, <1>8, <1>9, <1>10, <1>11 DEF Serving
<1> QED
  BY <1>1, <1>2, <1>12, <1>13, <1>14 DEF Next

\* At first nobody has been handed anything.
LEMMA NothingHandedYet == Init => Promise!Init
<1> SUFFICES ASSUME Init PROVE Promise!Init
  OBVIOUS
<1>1. \A q \in Processes : pc[q] = "connect"
  BY DEF Init
<1> QED
  BY <1>1 DEF Promise!Init, With, Instance

\* The front door implements Handover, for any number of invocations and whichever
\* of them die: each request is seen to by its own process or handed over once, and
\* is over with the instance that has it.
THEOREM HandedOnce == Spec => HandsOverOnce
<1>1. Init => Promise!Init
  BY NothingHandedYet
<1>2. IndInv /\ [Next]_vars => [Promise!Next]_Promise!handoverVars
  BY StepKeeps
<1> QED
  BY <1>1, <1>2, Invariant, PTL DEF Spec, HandsOverOnce, Promise!Spec
===============================================================================
