---------------------------- MODULE FrontDoorProofs ----------------------------
(***************************************************************************)
(* What holds of the front door for any number of invocations and crashes: *)
(* the types, that a pipe has one instance, what follows for the sweep     *)
(* that an instance begins with, and that no caller waits forgotten.       *)
(***************************************************************************)
EXTENDS FrontDoor, TLAPS

Conns == Seq(Processes \cup {Probing})

\* What the actions do to the connections at a listener.
LEMMA Connections ==
    /\ <<>> \in Conns
    /\ \A s \in Conns : \A q \in Processes \cup {Probing} : Append(s, q) \in Conns
    /\ \A s \in Conns : s # <<>> => /\ Head(s) \in Processes \cup {Probing}
                                    /\ Tail(s) \in Conns
  BY DEF Conns

\* Cutting callers off sends each of them to its end and p to the step given.
LEMMA HangType ==
    ASSUME NEW p \in Processes, NEW next \in Step, NEW conns,
           pc \in [Processes -> Step], Hang(conns, p, next)
    PROVE  /\ pc' \in [Processes -> Step]
           /\ pc'[p] = next
           /\ \A q \in Processes : q # p => pc'[q] \in {pc[q], "done"}
  BY DEF Hang, Step

\* One step of one process preserves the type invariant.
LEMMA TypeStep == TypeOK /\ [Next]_vars => TypeOK'
<1> SUFFICES ASSUME TypeOK, [Next]_vars PROVE TypeOK'
  OBVIOUS
<1>0. backlog \in [Openers -> Conns] /\ inbox \in [Openers -> Conns]
  BY DEF TypeOK, Conns
<1> USE DEF TypeOK, Processes
<1>1. ASSUME NEW p \in Processes, Connect(p) PROVE TypeOK'
  <2>1. pc' \in [Processes -> Step]
    BY <1>1 DEF Connect, Go, Step
  <2>2. backlog' \in [Openers -> Conns]
    <3>1. CASE name \in open
      <4>1. Append(backlog[name], p) \in Conns
        BY <1>0, <3>1, Connections
      <4> QED
        BY <1>0, <1>1, <4>1 DEF Connect
    <3> QED
      BY <1>0, <1>1, <3>1 DEF Connect, Reached
  <2> QED
    BY <1>1, <2>1, <2>2 DEF Conns, Connect
<1>2. ASSUME NEW p \in Openers, Bind(p) PROVE TypeOK'
  BY <1>2 DEF Bind, Bound, Go, Step
<1>3. ASSUME NEW p \in Openers, Probe(p) PROVE TypeOK'
  <2>1. pc' \in [Processes -> Step]
    BY <1>3 DEF Probe, Go, Step
  <2>2. backlog' \in [Openers -> Conns]
    <3>1. CASE name \in open
      <4>1. Append(backlog[name], Probing) \in Conns
        BY <1>0, <3>1, Connections
      <4> QED
        BY <1>0, <1>3, <4>1 DEF Probe
    <3> QED
      BY <1>0, <1>3, <3>1 DEF Probe, Reached
  <2> QED
    BY <1>3, <2>1, <2>2 DEF Conns, Probe
<1>4. ASSUME NEW p \in Openers, Clear(p) PROVE TypeOK'
  BY <1>4 DEF Clear, Go, Step
<1>5. ASSUME NEW p \in Openers, Rebind(p) PROVE TypeOK'
  BY <1>5 DEF Rebind, Bound, Go, Step
<1>6. ASSUME NEW p \in Openers, Sweep(p) PROVE TypeOK'
  BY <1>6 DEF Sweep, Go, Step
<1>7. ASSUME NEW p \in Openers, First(p) PROVE TypeOK'
  <2>1. pc' \in [Processes -> Step]
    BY <1>7, HangType DEF First, Go, Step
  <2>2. backlog' \in [Openers -> Conns]
    BY <1>7, <1>0, Connections DEF First
  <2>3. sessions' \in [Openers -> SUBSET Containers] /\ dirs' \subseteq Openers \X Containers
    BY <1>7 DEF First
  <2> QED
    BY <1>7, <2>1, <2>2, <2>3 DEF Conns, First, NameWithout
<1>8. ASSUME NEW p \in Openers, Accept(p) PROVE TypeOK'
  <2>1. backlog' \in [Openers -> Conns] /\ inbox' \in [Openers -> Conns]
    <3>1. /\ Append(inbox[p], Head(backlog[p])) \in Conns
          /\ Tail(backlog[p]) \in Conns
      BY <1>0, <1>8, Connections DEF Accept
    <3> QED
      BY <1>0, <1>8, <3>1 DEF Accept
  <2> QED
    BY <1>8, <2>1 DEF Conns, Accept
<1>9. ASSUME NEW p \in Openers, Handle(p) PROVE TypeOK'
  <2>1. pc' \in [Processes -> Step]
    BY <1>9 DEF Handle, Go, Step
  <2>2. inbox' \in [Openers -> Conns]
    BY <1>9, <1>0, Connections DEF Handle
  <2>3. sessions' \in [Openers -> SUBSET Containers]
    <3>1. \/ sessions' = sessions
          \/ \E c \in Containers : sessions' = [sessions EXCEPT ![p] = @ \cup {c}]
          \/ \E c \in sessions[p] : sessions' = [sessions EXCEPT ![p] = @ \ {c}]
      BY <1>9 DEF Handle
    <3> QED
      BY <3>1
  <2>4. dirs' \subseteq Openers \X Containers
    BY <1>9 DEF Handle
  <2> QED
    BY <1>9, <2>1, <2>2, <2>3, <2>4 DEF Conns, Handle
<1>10. ASSUME NEW p \in Openers, Leave(p) PROVE TypeOK'
  <2>1. pc' \in [Processes -> Step]
    BY <1>10, HangType DEF Leave, Step
  <2>2. inbox' \in [Openers -> Conns]
    BY <1>10, <1>0, Connections DEF Leave
  <2> QED
    BY <1>10, <2>1, <2>2 DEF Conns, Leave
<1>11. ASSUME NEW p \in Openers, Deaf(p) PROVE TypeOK'
  <2>1. pc' \in [Processes -> Step]
    BY <1>11, HangType DEF Deaf, Step
  <2>2. backlog' \in [Openers -> Conns]
    BY <1>11, <1>0, Connections DEF Deaf
  <2> QED
    BY <1>11, <2>1, <2>2 DEF Conns, Deaf, NameWithout
<1>12. ASSUME NEW p \in Openers, StandDown(p) PROVE TypeOK'
  BY <1>12 DEF StandDown
<1>17. ASSUME NEW p \in Openers, Lost(p) PROVE TypeOK'
  <2>1. pc' \in [Processes -> Step]
    BY <1>17, HangType DEF Lost, Step
  <2>2. backlog' \in [Openers -> Conns]
    BY <1>17, <1>0, Connections DEF Lost
  <2> QED
    BY <1>17, <2>1, <2>2 DEF Conns, Lost, NameWithout
<1>18. ASSUME NEW p \in Openers, Disconnected(p) PROVE TypeOK'
  BY <1>18 DEF Disconnected, Go, Step
<1>13. ASSUME NEW p \in Processes, NEW end \in Step, Gone(p, end), crashes' \in Nat
       PROVE  TypeOK'
  <2>1. pc' \in [Processes -> Step]
    BY <1>13, HangType DEF Gone, Go
  <2>2. backlog' \in [Openers -> Conns] /\ inbox' \in [Openers -> Conns]
    BY <1>13, <1>0, Connections DEF Gone
  <2> QED
    BY <1>13, <2>1, <2>2 DEF Conns, Gone
<1>14. ASSUME NEW p \in Openers, End(p) PROVE TypeOK'
  BY <1>13, <1>14 DEF End, Step
<1>15. ASSUME NEW p \in Processes, Crash(p) PROVE TypeOK'
  <2>1. crashes' \in Nat
    BY <1>15 DEF Crash
  <2> QED
    BY <1>13, <1>15, <2>1 DEF Crash, Step
<1>16. CASE UNCHANGED vars
  BY <1>16 DEF vars
<1> QED
  BY <1>1, <1>2, <1>3, <1>4, <1>5, <1>6, <1>7, <1>8, <1>9, <1>10, <1>11, <1>12, <1>14,
     <1>15, <1>16, <1>17, <1>18 DEF Next, Becoming, Serving

\* A step keeps the pipe in the hands of the instance it has.  Each case says
\* what becomes of the name, the listeners and who is an instance.
LEMMA PipeStep == TypeOK /\ PipeHeld /\ [Next]_vars => PipeHeld'
<1> SUFFICES ASSUME TypeOK, PipeHeld, [Next]_vars, kind' = "pipe" PROVE PipeHeld'
  BY DEF PipeHeld
<1>0. kind = "pipe"
  BY DEF Next, Becoming, Serving, Connect, Bind, Probe, Clear, Rebind, Sweep, First, Accept,
         Lost, Disconnected, Handle, Leave, Deaf, StandDown, End, Crash, Gone, vars
<1> USE <1>0 DEF TypeOK, Processes, PipeHeld, Instances
<1>1. ASSUME NEW p \in Processes, Connect(p) PROVE PipeHeld'
  BY <1>1 DEF Connect, Go
<1>2. ASSUME NEW p \in Openers, Bind(p) PROVE PipeHeld'
  BY <1>2, NobodyAssumption DEF Bind, Bound, Go
<1>3. ASSUME NEW p \in Openers, Probe(p) \/ Clear(p) \/ Rebind(p) PROVE FALSE
  BY <1>3 DEF Probe, Clear, Rebind
<1>4. ASSUME NEW p \in Openers, Sweep(p) PROVE PipeHeld'
  BY <1>4 DEF Sweep, Go
<1>5. ASSUME NEW p \in Openers, First(p) PROVE PipeHeld'
  <2>1. CASE UNCHANGED <<name, open>> /\ Go(p, "serve")
    BY <2>1 DEF Go
  <2>2. CASE open' = open \ {p} /\ name' = NameWithout(p) /\ Hang(Ends(backlog[p]), p, "done")
    <3>1. /\ pc'[p] = "done"
          /\ \A q \in Processes : q # p => pc'[q] \in {pc[q], "done"}
      BY <2>2, HangType DEF Step
    <3> QED
      BY <2>2, <3>1 DEF NameWithout
  <2> QED
    BY <1>5, <2>1, <2>2 DEF First
<1>6. ASSUME NEW p \in Openers, Accept(p) \/ StandDown(p) PROVE PipeHeld'
  BY <1>6 DEF Accept, StandDown
<1>7. ASSUME NEW p \in Openers, Handle(p) PROVE PipeHeld'
  BY <1>7 DEF Handle, Go
<1>8. ASSUME NEW p \in Openers, Leave(p) PROVE PipeHeld'
  BY <1>8, HangType DEF Leave, Step
<1>9. ASSUME NEW p \in Openers, Deaf(p) \/ Lost(p) PROVE PipeHeld'
  <2>1. /\ pc'[p] \in {"serve", "down"}
        /\ \A q \in Processes : q # p => pc'[q] \in {pc[q], "done"}
    BY <1>9, HangType DEF Deaf, Lost, Step
  <2> QED
    BY <1>9, <2>1 DEF Deaf, Lost, NameWithout
<1>14. ASSUME NEW p \in Openers, Disconnected(p) PROVE PipeHeld'
  BY <1>14 DEF Disconnected, Go
<1>10. ASSUME NEW p \in Processes, NEW end \in {"done", "killed"}, Gone(p, end)
       PROVE  PipeHeld'
  <2>1. /\ pc'[p] = end
        /\ \A q \in Processes : q # p => pc'[q] \in {pc[q], "done"}
    BY <1>10, HangType DEF Gone, Go, Step
  <2> QED
    BY <1>10, <2>1 DEF Gone
<1>11. ASSUME NEW p \in Openers, End(p) PROVE PipeHeld'
  BY <1>10, <1>11 DEF End
<1>12. ASSUME NEW p \in Processes, Crash(p) PROVE PipeHeld'
  BY <1>10, <1>12 DEF Crash
<1>13. CASE UNCHANGED vars
  BY <1>13 DEF vars
<1> QED
  BY <1>1, <1>2, <1>3, <1>4, <1>5, <1>6, <1>7, <1>8, <1>9, <1>11, <1>12, <1>13,
     <1>14
  DEF Next, Becoming, Serving

(***************************************************************************)
(* Who comes to a caller.                                                  *)
(***************************************************************************)
\* Who is at the other end of connections that come and go one at a time.
LEMMA EndsOf ==
    /\ Ends(<<>>) = {}
    /\ \A s \in Conns : \A q \in Processes \cup {Probing} : Ends(Append(s, q)) = Ends(s) \cup {q}
    /\ \A s \in Conns : s # <<>> => Ends(s) = Ends(Tail(s)) \cup {Head(s)}
<1>1. Ends(<<>>) = {}
  BY DEF Ends
<1>2. ASSUME NEW s \in Conns, NEW q \in Processes \cup {Probing}
      PROVE  Ends(Append(s, q)) = Ends(s) \cup {q}
  <2>1. /\ DOMAIN Append(s, q) = DOMAIN s \cup {Len(s) + 1}
        /\ \A i \in DOMAIN s : Append(s, q)[i] = s[i]
        /\ Append(s, q)[Len(s) + 1] = q
    BY DEF Conns
  <2> QED
    BY <2>1 DEF Ends
<1>3. ASSUME NEW s \in Conns, s # <<>> PROVE Ends(s) = Ends(Tail(s)) \cup {Head(s)}
  <2>1. /\ 1 \in DOMAIN s /\ Head(s) = s[1]
        /\ \A i \in DOMAIN s : i = 1 \/ (i - 1 \in DOMAIN Tail(s) /\ Tail(s)[i - 1] = s[i])
        /\ \A i \in DOMAIN Tail(s) : i + 1 \in DOMAIN s /\ Tail(s)[i] = s[i + 1]
    BY <1>3 DEF Conns
  <2>2. Ends(s) \subseteq Ends(Tail(s)) \cup {Head(s)}
    <3> SUFFICES ASSUME NEW i \in DOMAIN s, i # 1 PROVE s[i] \in Ends(Tail(s))
      BY <2>1 DEF Ends
    <3> DEFINE k == i - 1
    <3>1. k \in DOMAIN Tail(s) /\ Tail(s)[k] = s[i]
      BY <2>1
    <3> QED
      BY <3>1 DEF Ends
  <2>3. Ends(Tail(s)) \subseteq Ends(s)
    <3> SUFFICES ASSUME NEW i \in DOMAIN Tail(s) PROVE Tail(s)[i] \in Ends(s)
      BY DEF Ends
    <3> DEFINE k == i + 1
    <3>1. k \in DOMAIN s /\ Tail(s)[i] = s[k]
      BY <2>1
    <3> QED
      BY <3>1 DEF Ends
  <2> QED
    BY <2>1, <2>2, <2>3 DEF Ends
<1> QED
  BY <1>1, <1>2, <1>3

\* Who is cut off waits no more, and nobody begins to.
LEMMA HangEnds ==
    ASSUME NEW p \in Processes, NEW next \in Step \ {"waiting"}, NEW conns,
           pc \in [Processes -> Step], Hang(conns, p, next)
    PROVE  /\ pc'[p] = next
           /\ \A q \in Processes : pc'[q] = "waiting" => pc[q] = "waiting" /\ q # p /\ q \notin conns
           /\ \A q \in Processes \ {p} : pc[q] # "waiting" => pc'[q] = pc[q]
  BY DEF Hang, Step

\* A process leaves off with what it had in its queues, and those who had it there
\* are cut off.  Every other queue is as it was.
LEMMA Dropping ==
    ASSUME TypeOK, DoorsKept, NEW p \in Openers, NEW next \in Step \ {"waiting"}, NEW conns,
           Hang(conns, p, next),
           backlog' \in {backlog, [backlog EXCEPT ![p] = <<>>]},
           inbox' \in {inbox, [inbox EXCEPT ![p] = <<>>]},
           open' \in {open, open \ {p}},
           Handed(p) \subseteq Handed(p)' \cup conns,
           p \in open' => next \in {"sweep", "first", "serve", "down"},
           backlog'[p] # <<>> => p \in open',
           inbox'[p] # <<>> => next = "serve"
    PROVE  DoorsKept'
<1> USE DEF TypeOK, Processes
<1>1. /\ pc'[p] = next
      /\ \A q \in Processes : pc'[q] = "waiting" => pc[q] = "waiting" /\ q # p /\ q \notin conns
      /\ \A q \in Processes \ {p} : pc[q] # "waiting" => pc'[q] = pc[q]
  BY HangEnds
<1>2. \A o \in Openers \ {p} : backlog'[o] = backlog[o] /\ inbox'[o] = inbox[o]
  OBVIOUS
<1>3. \A o \in open' : pc'[o] \in {"sweep", "first", "serve", "down"}
  BY <1>1 DEF DoorsKept
<1>4. \A o \in Openers : backlog'[o] # <<>> => o \in open'
  BY <1>2 DEF DoorsKept
<1>5. \A o \in Openers : inbox'[o] # <<>> => pc'[o] = "serve"
  BY <1>1, <1>2 DEF DoorsKept
<1>6. ASSUME NEW q \in Processes, pc'[q] = "waiting" PROVE \E o \in Openers : q \in Handed(o)'
  <2>1. PICK o \in Openers : q \in Handed(o)
    BY <1>1, <1>6 DEF DoorsKept
  <2>2. CASE o = p
    BY <1>1, <1>6, <2>1, <2>2
  <2>3. CASE o # p
    BY <1>2, <2>1, <2>3 DEF Handed
  <2> QED
    BY <2>2, <2>3
<1> QED
  BY <1>3, <1>4, <1>5, <1>6 DEF DoorsKept

\* Nobody's queue loses anybody, and only instances have a door or a loop.
LEMMA Undropped ==
    ASSUME DoorsKept,
           \A p \in open' : pc'[p] \in {"sweep", "first", "serve", "down"},
           \A p \in Openers : backlog'[p] # <<>> => p \in open',
           \A p \in Openers : inbox'[p] # <<>> => pc'[p] = "serve",
           \A p \in Openers : Handed(p) \subseteq Handed(p)',
           \A q \in Processes : pc'[q] = "waiting" => pc[q] = "waiting"
    PROVE  DoorsKept'
  BY DEF DoorsKept

\* One step keeps every caller where somebody will come to it.
LEMMA DoorsStep == TypeOK /\ DoorsKept /\ [Next]_vars => DoorsKept'
<1> SUFFICES ASSUME TypeOK, DoorsKept, [Next]_vars PROVE DoorsKept'
  OBVIOUS
<1>0. backlog \in [Openers -> Conns] /\ inbox \in [Openers -> Conns]
  BY DEF TypeOK, Conns
<1> USE DEF TypeOK, Processes
<1>1. ASSUME NEW p \in Processes, Connect(p) PROVE DoorsKept'
  <2>1. p \notin open /\ (p \in Openers => inbox[p] = <<>>)
    BY <1>1 DEF Connect, DoorsKept
  <2>2. CASE name \in open /\ backlog' = [backlog EXCEPT ![name] = Append(@, p)] /\ Go(p, "waiting")
    <3>1. Ends(backlog'[name]) = Ends(backlog[name]) \cup {p}
      BY <1>0, <2>2, EndsOf
    <3>2. /\ \A o \in Openers : Handed(o) \subseteq Handed(o)'
          /\ p \in Handed(name)'
      BY <1>1, <2>2, <3>1 DEF Connect, Handed
    <3> QED
      BY <1>1, <2>1, <2>2, <3>2 DEF Connect, Go, DoorsKept
  <2>3. CASE UNCHANGED backlog /\ (Go(p, "bind") \/ Go(p, "done"))
    <3>1. \A o \in Openers : Handed(o)' = Handed(o)
      BY <1>1, <2>3 DEF Connect, Handed
    <3> QED
      BY <1>1, <2>1, <2>3, <3>1, Undropped DEF Connect, Go, DoorsKept
  <2> QED
    BY <1>1, <2>2, <2>3 DEF Connect, Reached
<1>2. ASSUME NEW p \in Openers, Bind(p) \/ Clear(p) \/ Rebind(p) \/ Sweep(p) PROVE DoorsKept'
  <2>1. \A o \in Openers : Handed(o)' = Handed(o)
    BY <1>2 DEF Bind, Clear, Rebind, Sweep, Handed
  <2>2. p \in open => pc[p] = "sweep"
    BY <1>2 DEF DoorsKept, Bind, Clear, Rebind, Sweep
  <2>3. inbox[p] = <<>>
    BY <1>2 DEF DoorsKept, Bind, Clear, Rebind, Sweep
  <2> QED
    BY <1>2, <2>1, <2>2, <2>3, Undropped DEF Bind, Bound, Clear, Rebind, Sweep, Go, DoorsKept
<1>3. ASSUME NEW p \in Openers, Probe(p) PROVE DoorsKept'
  <2>1. p \notin open /\ inbox[p] = <<>>
    BY <1>3 DEF Probe, DoorsKept
  <2>2. \A o \in Openers : Handed(o) \subseteq Handed(o)'
    <3>1. CASE name \in open /\ backlog' = [backlog EXCEPT ![name] = Append(@, Probing)]
      <4>1. Ends(backlog'[name]) = Ends(backlog[name]) \cup {Probing}
        BY <1>0, <3>1, EndsOf
      <4> QED
        BY <1>3, <3>1, <4>1 DEF Probe, Handed
    <3>2. CASE UNCHANGED backlog
      BY <1>3, <3>2 DEF Probe, Handed
    <3> QED
      BY <1>3, <3>1, <3>2 DEF Probe, Reached
  <2> QED
    BY <1>3, <2>1, <2>2, Undropped DEF Probe, Reached, Go, DoorsKept
<1>4. ASSUME NEW p \in Openers, First(p) PROVE DoorsKept'
  <2>1. inbox[p] = <<>>
    BY <1>4 DEF First, DoorsKept
  <2>2. CASE UNCHANGED <<open, backlog>> /\ Go(p, "serve")
    <3>1. \A o \in Openers : Handed(o)' = Handed(o)
      BY <1>4, <2>2 DEF First, Handed
    <3> QED
      BY <1>4, <2>2, <3>1, Undropped DEF First, Go, DoorsKept
  <2>3. CASE /\ open' = open \ {p} /\ backlog' = [backlog EXCEPT ![p] = <<>>]
             /\ Hang(Ends(backlog[p]), p, "done")
    <3>1. Handed(p) \subseteq Ends(backlog[p])
      BY <2>1, EndsOf DEF Handed
    <3> QED
      BY <1>4, <2>1, <2>3, <3>1, Dropping DEF First, Step
  <2> QED
    BY <1>4, <2>2, <2>3 DEF First
<1>5. ASSUME NEW p \in Openers, Accept(p) PROVE DoorsKept'
  <2>1. /\ Ends(inbox'[p]) = Ends(inbox[p]) \cup {Head(backlog[p])}
        /\ Ends(backlog[p]) = Ends(backlog'[p]) \cup {Head(backlog[p])}
    BY <1>0, <1>5, EndsOf, Connections DEF Accept
  <2>2. \A o \in Openers : Handed(o) \subseteq Handed(o)'
    BY <1>5, <2>1 DEF Accept, Handed
  <2> QED
    BY <1>5, <2>2, Undropped DEF Accept, DoorsKept
<1>6. ASSUME NEW p \in Openers, Lost(p) \/ Deaf(p) PROVE DoorsKept'
  <2>1. Hang(Ends(backlog[p]), p, pc[p]) /\ pc[p] \in {"serve", "down"}
    BY <1>6 DEF Lost, Deaf
  <2>2. Handed(p) \subseteq Handed(p)' \cup Ends(backlog[p])
    BY <1>6 DEF Lost, Deaf, Handed
  <2> QED
    BY <1>6, <2>1, <2>2, Dropping DEF Lost, Deaf, Step, DoorsKept
<1>7. ASSUME NEW p \in Openers, Disconnected(p) \/ StandDown(p) PROVE DoorsKept'
  <2>1. \A o \in Openers : Handed(o)' = Handed(o)
    BY <1>7 DEF Disconnected, StandDown, Handed
  <2> QED
    BY <1>7, <2>1, Undropped DEF Disconnected, StandDown, Go, DoorsKept
<1>8. ASSUME NEW p \in Openers, Handle(p) PROVE DoorsKept'
  <2> DEFINE q == Head(inbox[p])
  <2>1. Ends(inbox[p]) = Ends(inbox'[p]) \cup {q}
    BY <1>0, <1>8, EndsOf DEF Handle
  <2>2. /\ inbox' = [inbox EXCEPT ![p] = Tail(@)] /\ pc[p] = "serve"
        /\ UNCHANGED <<open, backlog>>
        /\ IF q \in Processes /\ pc[q] = "waiting" THEN Go(q, "done") ELSE UNCHANGED pc
    BY <1>8 DEF Handle
  <2> HIDE DEF q
  <2>3. ASSUME NEW o \in Processes, pc'[o] = "waiting"
        PROVE  pc[o] = "waiting" /\ o # q
    BY <2>2, <2>3 DEF Go
  <2>4. \A o \in Processes : pc[o] # "waiting" => pc'[o] = pc[o]
    BY <2>2 DEF Go
  <2>5. \A o \in Openers : Handed(o) \subseteq Handed(o)' \cup {q}
    BY <2>1, <2>2 DEF Handed
  <2>6. \A o \in Openers : inbox'[o] # <<>> => inbox[o] # <<>> \/ o = p
    BY <2>2
  <2> QED
    BY <2>2, <2>3, <2>4, <2>5, <2>6 DEF DoorsKept
<1>9. ASSUME NEW p \in Openers, Leave(p) PROVE DoorsKept'
  <2>1. Handed(p) \subseteq Handed(p)' \cup Ends(inbox[p])
    BY <1>9 DEF Leave, Handed
  <2> QED
    BY <1>9, <2>1, Dropping DEF Leave, Step, DoorsKept
<1>10. ASSUME NEW p \in Processes, NEW end \in {"done", "killed"}, Gone(p, end)
       PROVE  DoorsKept'
  <2>1. CASE p \in Openers
    <3>1. /\ Hang(Ends(backlog[p]) \cup Ends(inbox[p]), p, end) /\ open' = open \ {p}
          /\ backlog' = [backlog EXCEPT ![p] = <<>>] /\ inbox' = [inbox EXCEPT ![p] = <<>>]
      BY <1>10, <2>1 DEF Gone
    <3> QED
      BY <2>1, <3>1, Dropping DEF Handed, Step
  <2>2. CASE p \notin Openers
    <3>1. UNCHANGED <<backlog, inbox>> /\ open' = open /\ Go(p, end)
      BY <1>10, <2>2 DEF Gone
    <3>2. \A o \in Openers : Handed(o)' = Handed(o)
      BY <3>1 DEF Handed
    <3> QED
      BY <2>2, <3>1, <3>2, Undropped DEF Go, DoorsKept
  <2> QED
    BY <2>1, <2>2
<1>11. ASSUME NEW p \in Processes, Crash(p) PROVE DoorsKept'
  BY <1>10, <1>11 DEF Crash
<1>12. ASSUME NEW p \in Openers, End(p) PROVE DoorsKept'
  BY <1>10, <1>12 DEF End
<1>13. CASE UNCHANGED vars
  <2>1. \A o \in Openers : Handed(o)' = Handed(o)
    BY <1>13 DEF vars, Handed
  <2> QED
    BY <1>13, <2>1, Undropped DEF vars, DoorsKept
<1> QED
  BY <1>1, <1>2, <1>3, <1>4, <1>5, <1>6, <1>7, <1>8, <1>9, <1>11, <1>12, <1>13
  DEF Next, Becoming, Serving

(***************************************************************************)
(* Who is in a queue.                                                      *)
(***************************************************************************)
\* Queues hold connections, so whoever is in one is a process or nobody.
LEMMA Queued ==
    ASSUME TypeOK, NEW p \in Openers PROVE Handed(p) \subseteq Processes \cup {Probing}
<1>1. backlog[p] \in Conns /\ inbox[p] \in Conns
  BY DEF TypeOK, Conns
<1> QED
  BY <1>1 DEF Conns, Handed, Ends

\* Whoever has handed over goes on to nothing else, and those who come into a
\* queue have.
LEMMA Settling ==
    ASSUME TypeOK, QueuesKept,
           \A q \in Processes : pc[q] \in HasHandedOver => pc'[q] \in HasHandedOver,
           \A p \in Openers : \A q \in Handed(p)' \ {Probing} :
               q \in Handed(p) \/ pc'[q] \in HasHandedOver
    PROVE  QueuesKept'
<1> SUFFICES ASSUME NEW p \in Openers, NEW q \in Handed(p)' \ {Probing}, q \in Handed(p)
             PROVE  pc'[q] \in HasHandedOver
  BY DEF QueuesKept
<1> QED
  BY Queued DEF QueuesKept

\* Hanging up moves nobody on but the process that does.
LEMMA HungUp ==
    ASSUME NEW p \in Processes, NEW next \in Step, NEW conns, pc \in [Processes -> Step],
           Hang(conns, p, next), pc[p] \in HasHandedOver => next \in HasHandedOver
    PROVE  \A q \in Processes : pc[q] \in HasHandedOver => pc'[q] \in HasHandedOver
  BY DEF Hang, HasHandedOver

\* One step puts nobody in a queue who might yet do otherwise.
LEMMA QueuesStep == TypeOK /\ QueuesKept /\ [Next]_vars => QueuesKept'
<1> SUFFICES ASSUME TypeOK, QueuesKept, [Next]_vars PROVE QueuesKept'
  OBVIOUS
<1>0. backlog \in [Openers -> Conns] /\ inbox \in [Openers -> Conns]
  BY DEF TypeOK, Conns
<1> USE DEF TypeOK, Processes
<1>1. ASSUME NEW p \in Processes, Connect(p) PROVE QueuesKept'
  <2>1. \A q \in Processes : pc[q] \in HasHandedOver => pc'[q] \in HasHandedOver
    BY <1>1 DEF Connect, Go, HasHandedOver
  <2>2. CASE name \in open /\ backlog' = [backlog EXCEPT ![name] = Append(@, p)] /\ Go(p, "waiting")
    <3>1. Ends(backlog'[name]) = Ends(backlog[name]) \cup {p} /\ pc'[p] \in HasHandedOver
      BY <1>0, <2>2, EndsOf DEF Go, HasHandedOver
    <3>2. \A o \in Openers : Handed(o)' \subseteq Handed(o) \cup {p}
      BY <1>1, <2>2, <3>1 DEF Connect, Handed
    <3> QED
      BY <2>1, <3>1, <3>2, Settling
  <2>3. CASE UNCHANGED backlog
    <3>1. \A o \in Openers : Handed(o)' = Handed(o)
      BY <1>1, <2>3 DEF Connect, Handed
    <3> QED
      BY <2>1, <3>1, Settling
  <2> QED
    BY <1>1, <2>2, <2>3 DEF Connect, Reached
<1>2. ASSUME NEW p \in Openers,
             \/ Bind(p) \/ Clear(p) \/ Rebind(p) \/ Sweep(p) \/ Disconnected(p) \/ StandDown(p)
      PROVE  QueuesKept'
  <2>1. \A o \in Openers : Handed(o)' = Handed(o)
    BY <1>2 DEF Bind, Clear, Rebind, Sweep, Disconnected, StandDown, Handed
  <2>2. \A q \in Processes : pc[q] \in HasHandedOver => pc'[q] \in HasHandedOver
    BY <1>2 DEF Bind, Bound, Clear, Rebind, Sweep, Disconnected, StandDown, Go, HasHandedOver
  <2> QED
    BY <2>1, <2>2, Settling
<1>3. ASSUME NEW p \in Openers, Probe(p) PROVE QueuesKept'
  <2>1. \A q \in Processes : pc[q] \in HasHandedOver => pc'[q] \in HasHandedOver
    BY <1>3 DEF Probe, Go, HasHandedOver
  <2>2. \A o \in Openers : Handed(o)' \subseteq Handed(o) \cup {Probing}
    <3>1. CASE name \in open /\ backlog' = [backlog EXCEPT ![name] = Append(@, Probing)]
      <4>1. Ends(backlog'[name]) = Ends(backlog[name]) \cup {Probing}
        BY <1>0, <3>1, EndsOf
      <4> QED
        BY <1>3, <3>1, <4>1 DEF Probe, Handed
    <3>2. CASE UNCHANGED backlog
      BY <1>3, <3>2 DEF Probe, Handed
    <3> QED
      BY <1>3, <3>1, <3>2 DEF Probe, Reached
  <2> QED
    BY <2>1, <2>2, Settling
<1>4. ASSUME NEW p \in Openers, Accept(p) PROVE QueuesKept'
  <2>1. /\ Ends(inbox'[p]) = Ends(inbox[p]) \cup {Head(backlog[p])}
        /\ Ends(backlog[p]) = Ends(backlog'[p]) \cup {Head(backlog[p])}
    BY <1>0, <1>4, EndsOf, Connections DEF Accept
  <2>2. \A o \in Openers : Handed(o)' \subseteq Handed(o)
    BY <1>4, <2>1 DEF Accept, Handed
  <2> QED
    BY <1>4, <2>2, Settling DEF Accept
<1>5. ASSUME NEW p \in Openers, Handle(p) PROVE QueuesKept'
  <2>1. Ends(inbox[p]) = Ends(inbox'[p]) \cup {Head(inbox[p])}
    BY <1>0, <1>5, EndsOf DEF Handle
  <2>2. \A o \in Openers : Handed(o)' \subseteq Handed(o)
    BY <1>5, <2>1 DEF Handle, Handed
  <2>3. \A q \in Processes : pc[q] \in HasHandedOver => pc'[q] \in HasHandedOver
    BY <1>5 DEF Handle, Go, HasHandedOver
  <2> QED
    BY <2>2, <2>3, Settling
<1>6. ASSUME NEW p \in Openers, First(p) \/ Lost(p) \/ Leave(p) \/ Deaf(p) PROVE QueuesKept'
  <2>1. \A o \in Openers : Handed(o)' \subseteq Handed(o)
    BY <1>6, EndsOf DEF First, Lost, Leave, Deaf, Handed
  <2>2. \A q \in Processes : pc[q] \in HasHandedOver => pc'[q] \in HasHandedOver
    <3>1. CASE First(p) /\ Go(p, "serve")
      BY <3>1 DEF First, Go, HasHandedOver
    <3>2. CASE ~(First(p) /\ Go(p, "serve"))
      <4>1. \E next \in Step, conns \in {Ends(backlog[p]), Ends(inbox[p])} :
               Hang(conns, p, next) /\ pc[p] \notin HasHandedOver
        BY <1>6, <3>2 DEF First, Lost, Leave, Deaf, Step, HasHandedOver
      <4> QED
        BY <4>1, HungUp
    <3> QED
      BY <3>1, <3>2
  <2> QED
    BY <2>1, <2>2, Settling
<1>7. ASSUME NEW p \in Processes, NEW end \in {"done", "killed"}, Gone(p, end)
      PROVE  QueuesKept'
  <2>1. \A o \in Openers : Handed(o)' \subseteq Handed(o)
    BY <1>7, EndsOf DEF Gone, Handed
  <2>2. \A q \in Processes : pc[q] \in HasHandedOver => pc'[q] \in HasHandedOver
    <3>1. CASE p \in Openers
      <4>1. Hang(Ends(backlog[p]) \cup Ends(inbox[p]), p, end)
        BY <1>7, <3>1 DEF Gone
      <4> QED
        BY <4>1, HungUp DEF Step, HasHandedOver
    <3>2. CASE p \notin Openers
      BY <1>7, <3>2 DEF Gone, Go, HasHandedOver
    <3> QED
      BY <3>1, <3>2
  <2> QED
    BY <2>1, <2>2, Settling
<1>8. ASSUME NEW p \in Processes, Crash(p) PROVE QueuesKept'
  BY <1>7, <1>8 DEF Crash
<1>9. ASSUME NEW p \in Openers, End(p) PROVE QueuesKept'
  BY <1>7, <1>9 DEF End
<1>10. CASE UNCHANGED vars
  <2>1. \A o \in Openers : Handed(o)' = Handed(o)
    BY <1>10 DEF vars, Handed
  <2> QED
    BY <1>10, <2>1, Settling DEF vars
<1> QED
  BY <1>1, <1>2, <1>3, <1>4, <1>5, <1>6, <1>8, <1>9, <1>10 DEF Next, Becoming, Serving

\* The invariant holds: every variable keeps its type, the one process whose
\* listener on a pipe is open has its name, every caller is with somebody, and
\* whoever is in a queue stays out of everything else.
THEOREM Invariant == Spec => []IndInv
<1>1. Init => IndInv
  BY NobodyAssumption, EndsOf
  DEF Init, IndInv, TypeOK, PipeHeld, DoorsKept, QueuesKept, Handed, Instances, Processes, Step,
      Conns
<1>2. IndInv /\ [Next]_vars => IndInv'
  BY TypeStep, PipeStep, DoorsStep, QueuesStep DEF IndInv
<1> QED
  BY <1>1, <1>2, PTL DEF Spec

\* However many invocations there are and whichever of them die, a pipe never
\* has two instances with their doors open.
THEOREM OnePipe == Spec => []OnePipeInstance
<1>1. IndInv => OnePipeInstance
  BY DEF IndInv, PipeHeld, OnePipeInstance, OneInstance
<1> QED
  BY <1>1, Invariant, PTL

\* No caller is forgotten: whoever waits, at a socket or a pipe, waits at the
\* connection of another process that will come to it or take it down.
THEOREM Attended == Spec => []CallersAreAttended
<1>1. IndInv => CallersAreAttended
  <2> SUFFICES ASSUME IndInv, NEW q \in Processes, pc[q] = "waiting"
               PROVE  \E p \in Openers \ {q} :
                        \/ q \in Ends(backlog[p]) /\ p \in open
                             /\ pc[p] \in {"sweep", "first", "serve", "down"}
                        \/ q \in Ends(inbox[p]) /\ pc[p] = "serve"
    BY DEF CallersAreAttended
  <2>1. PICK p \in Openers : q \in Handed(p)
    BY DEF IndInv, DoorsKept
  <2>2. CASE q \in Ends(backlog[p])
    BY <2>1, <2>2, EndsOf DEF IndInv, DoorsKept
  <2>3. CASE q \in Ends(inbox[p])
    BY <2>1, <2>3, EndsOf DEF IndInv, DoorsKept
  <2> QED
    BY <2>1, <2>2, <2>3 DEF Handed
<1> QED
  BY <1>1, Invariant, PTL

\* Who takes a directory: the sweep, an instance closing a session it was asked
\* to close, or one standing down.
LEMMA WhoTakes ==
    ASSUME IndInv, Next, NEW d \in dirs \ dirs', kind = "pipe", pc[d[1]] = "serve",
           d[1] \in open
    PROVE  d[2] \notin sessions'[d[1]]
<1> USE DEF IndInv, TypeOK, Processes
<1>0. d[1] \in Openers /\ d = <<d[1], d[2]>>
  OBVIOUS
<1>1. ASSUME NEW p \in Openers, Sweep(p) PROVE FALSE
  BY <1>0, <1>1 DEF Sweep, PipeHeld, Instances
<1>2. ASSUME NEW p \in Openers, Handle(p) PROVE d[2] \notin sessions'[d[1]]
  BY <1>0, <1>2 DEF Handle
<1>3. ASSUME NEW p \in Openers, StandDown(p) PROVE FALSE
  BY <1>0, <1>3 DEF StandDown
<1>4. ASSUME NEW p \in Processes, Connect(p) \/ Crash(p) PROVE FALSE
  BY <1>4 DEF Connect, Crash, Gone
<1>5. ASSUME NEW p \in Openers,
             \/ Bind(p) \/ Probe(p) \/ Clear(p) \/ Rebind(p) \/ First(p) \/ Accept(p)
             \/ Lost(p) \/ Disconnected(p) \/ Leave(p) \/ Deaf(p) \/ End(p)
      PROVE  FALSE
  BY <1>5 DEF Bind, Bound, Probe, Clear, Rebind, First, Accept, Lost,
             Disconnected, Leave, Deaf, End, Gone
<1> QED
  BY <1>1, <1>2, <1>3, <1>4, <1>5 DEF Next, Becoming, Serving

\* On a pipe no instance begins by sweeping away a session another is serving
\* with its door open.
THEOREM SweepsSpare == Spec => SweepsSpareTheServed
<1>1. IndInv /\ [Next]_vars =>
        [\A d \in dirs \ dirs' :
           kind = "pipe" /\ pc[d[1]] = "serve" /\ d[1] \in open
             => d[2] \notin sessions'[d[1]]]_vars
  BY WhoTakes
<1> QED
  BY <1>1, Invariant, PTL DEF Spec, SweepsSpareTheServed
===============================================================================
