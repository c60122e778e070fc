------------------------------ MODULE PolicyProofs ------------------------------
(***************************************************************************)
(* Policy's invariant, and that the properties follow from it, for any     *)
(* extensions, any layers and any number of changes to them.               *)
(***************************************************************************)
EXTENDS Policy, TLAPS

\* A decision is one of three.
LEMMA DecisionType == \A r, key : Decision(r, key) \in Decisions
  BY DEF Decision, Decisions

LEMMA InitInv == Init => IndInv
<1> SUFFICES ASSUME Init PROVE IndInv
  OBVIOUS
<1>1. Nothing \in [Source -> Layers]
  BY LayersAssumption DEF Nothing
<1>2. Now \in [Source -> SUBSET Read]
  BY DEF Init, Now
<1>3. TypeOK
  BY <1>1, <1>2 DEF Init, TypeOK, Name, Outcomes
<1>4. ReadsAreReal /\ DecisionsAreMade /\ FailuresAreReal
  BY DEF Init, ReadsAreReal, DecisionsAreMade, FailuresAreReal, After, Decisions
<1>5. QED
  BY <1>3, <1>4 DEF IndInv

\* An open that begins has read nothing.
LEMMA BeginInv == ASSUME IndInv, NEW n \in Name, Begin(n) PROVE IndInv'
<1> USE DEF IndInv
<1>1. Nothing \in [Source -> Layers]
  BY LayersAssumption DEF Nothing
<1>2. Now \in [Source -> SUBSET Read] /\ \A s \in Source : layer[s] \in Now[s]
  BY DEF TypeOK, Now
<1>3. CASE n.key = NoKey
  <2>1. pc' = "idle" /\ outcome' = "NoUsableExtension"
    BY <1>3 DEF Begin, Ends
  <2>2. TypeOK'
    BY <1>1, <1>2, <2>1 DEF Begin, TypeOK, Outcomes
  <2>3. QED
    BY <2>1, <2>2 DEF ReadsAreReal, DecisionsAreMade, FailuresAreReal, After, Decisions
<1>4. CASE n.key # NoKey
  <2>1. pc' = "machine" /\ outcome' = "none"
    BY <1>4 DEF Begin
  <2>2. TypeOK'
    BY <1>1, <1>2, <2>1 DEF Begin, TypeOK, Outcomes, Source
  <2>3. \A s \in Source : layer'[s] \in since'[s]
    BY <1>2 DEF Begin
  <2>4. got'["configuration"] = Silent
    BY DEF Begin, Nothing, Source
  <2>5. QED
    BY <2>1, <2>2, <2>3, <2>4 DEF ReadsAreReal, DecisionsAreMade, FailuresAreReal, After, Decisions
<1>5. QED
  BY <1>3, <1>4

\* Reading a layer: of the two policies, and of the configuration when it is
\* consulted.
LEMMA ReadType ==
    ASSUME IndInv, NEW s \in Source,
           NEW next \in {"user", "configuration", "decide"}, ReadLayer(s, next)
    PROVE  /\ TypeOK'
           /\ \/ layer[s] = Broken /\ pc' = "idle" /\ outcome' = "Unreadable" /\ got' = got
                 /\ Broken \in since[s]
              \/ layer[s] # Broken /\ pc' = next /\ outcome' = "none"
                 /\ got' = [got EXCEPT ![s] = layer[s]] /\ layer[s] \in since[s]
           /\ UNCHANGED <<layer, name, since, pushes>>
<1> USE DEF IndInv, Source
<1>1. layer[s] \in since[s] /\ outcome = "none"
  BY DEF ReadsAreReal, ReadLayer
<1>2. CASE layer[s] = Broken
  BY <1>1, <1>2 DEF ReadLayer, Ends, TypeOK, Outcomes
<1>3. CASE layer[s] # Broken
  <2>1. layer[s] \in Layers
    BY <1>3 DEF TypeOK, Read
  <2>2. pc' = next /\ outcome' = "none" /\ got' = [got EXCEPT ![s] = layer[s]]
    BY <1>1, <1>3 DEF ReadLayer, Goes
  <2>3. got' \in [Source -> Layers]
    BY <2>1, <2>2 DEF TypeOK
  <2>4. TypeOK'
    BY <1>1, <2>2, <2>3 DEF ReadLayer, TypeOK
  <2>5. QED
    BY <1>1, <1>3, <2>2, <2>4 DEF ReadLayer
<1>4. QED
  BY <1>2, <1>3

LEMMA ReadMachineInv == ASSUME IndInv, ReadMachine PROVE IndInv'
<1>1. ReadLayer("machine", "user") /\ "machine" \in Source /\ pc = "machine"
  BY DEF ReadMachine, ReadLayer, Source
<1> DEFINE failed == layer["machine"] = Broken /\ pc' = "idle" /\ outcome' = "Unreadable"
                     /\ got' = got /\ Broken \in since["machine"]
<1> DEFINE read == layer["machine"] # Broken /\ pc' = "user" /\ outcome' = "none"
                   /\ got' = [got EXCEPT !["machine"] = layer["machine"]]
                   /\ layer["machine"] \in since["machine"]
<1>2. TypeOK' /\ (failed \/ read) /\ UNCHANGED <<layer, name, since, pushes>>
  BY <1>1, ReadType
<1>3. CASE failed
  BY <1>2, <1>3 DEF IndInv, ReadsAreReal, DecisionsAreMade, FailuresAreReal, After, Decisions
<1>4. CASE read
  <2>1. HasRead("machine")'
    BY <1>1, <1>2, <1>4 DEF HasRead, IndInv, TypeOK
  <2>2. got'["configuration"] = Silent
    BY <1>1, <1>4 DEF IndInv, TypeOK, ReadsAreReal, Source
  <2>3. ReadsAreReal'
    BY <1>1, <1>2, <1>4, <2>1, <2>2 DEF IndInv, ReadsAreReal, After
  <2>4. QED
    BY <1>2, <1>4, <2>3 DEF IndInv, DecisionsAreMade, FailuresAreReal, Decisions
<1>5. QED
  BY <1>2, <1>3, <1>4

LEMMA ReadUserInv == ASSUME IndInv, ReadUser PROVE IndInv'
<1>1. ReadLayer("user", "configuration") /\ "user" \in Source /\ pc = "user"
  BY DEF ReadUser, ReadLayer, Source
<1> DEFINE failed == layer["user"] = Broken /\ pc' = "idle" /\ outcome' = "Unreadable"
                     /\ got' = got /\ Broken \in since["user"]
<1> DEFINE read == layer["user"] # Broken /\ pc' = "configuration" /\ outcome' = "none"
                   /\ got' = [got EXCEPT !["user"] = layer["user"]]
                   /\ layer["user"] \in since["user"]
<1>2. TypeOK' /\ (failed \/ read) /\ UNCHANGED <<layer, name, since, pushes>>
  BY <1>1, ReadType
<1>3. CASE failed
  BY <1>2, <1>3 DEF IndInv, ReadsAreReal, DecisionsAreMade, FailuresAreReal, After, Decisions
<1>4. CASE read
  <2>1. HasRead("machine")' /\ HasRead("user")'
    BY <1>1, <1>2, <1>4 DEF HasRead, IndInv, TypeOK, ReadsAreReal, After, Source
  <2>2. got'["configuration"] = Silent
    BY <1>1, <1>4 DEF IndInv, TypeOK, ReadsAreReal, Source
  <2>3. ReadsAreReal'
    BY <1>1, <1>2, <1>4, <2>1, <2>2 DEF IndInv, ReadsAreReal, After
  <2>4. QED
    BY <1>2, <1>4, <2>3 DEF IndInv, DecisionsAreMade, FailuresAreReal, Decisions
<1>5. QED
  BY <1>2, <1>3, <1>4

LEMMA ReadConfigurationInv == ASSUME IndInv, ReadConfiguration PROVE IndInv'
<1>1. /\ ReadLayer("configuration", "decide") /\ "configuration" \in Source
      /\ pc = "configuration" /\ MayExtend(got["machine"], got["user"])
  BY DEF ReadConfiguration, ReadLayer, Source
<1> DEFINE failed == layer["configuration"] = Broken /\ pc' = "idle" /\ outcome' = "Unreadable"
                     /\ got' = got /\ Broken \in since["configuration"]
<1> DEFINE read == layer["configuration"] # Broken /\ pc' = "decide" /\ outcome' = "none"
                   /\ got' = [got EXCEPT !["configuration"] = layer["configuration"]]
                   /\ layer["configuration"] \in since["configuration"]
<1>2. TypeOK' /\ (failed \/ read) /\ UNCHANGED <<layer, name, since, pushes>>
  BY <1>1, ReadType
<1>3. HasRead("machine") /\ HasRead("user")
  BY <1>1 DEF IndInv, ReadsAreReal, After
<1>4. CASE failed
  BY <1>1, <1>2, <1>3, <1>4
    DEF IndInv, ReadsAreReal, DecisionsAreMade, FailuresAreReal, After, Decisions, Policies, HasRead
<1>5. CASE read
  <2>1. HasRead("machine")' /\ HasRead("user")' /\ HasRead("configuration")'
    BY <1>1, <1>2, <1>3, <1>5 DEF HasRead, IndInv, TypeOK, Source
  <2>2. Consulted'
    <3>1. got'["machine"] = got["machine"] /\ got'["user"] = got["user"]
      BY <1>5 DEF IndInv, TypeOK, Source
    <3>2. QED
      BY <1>1, <2>1, <3>1 DEF Consulted
  <2>3. ReadsAreReal'
    BY <1>1, <1>2, <1>5, <2>1, <2>2 DEF IndInv, ReadsAreReal, After
  <2>4. QED
    BY <1>2, <1>5, <2>3 DEF IndInv, DecisionsAreMade, FailuresAreReal, Decisions
<1>6. QED
  BY <1>2, <1>4, <1>5

\* The steps that read nothing.
LEMMA SkipInv == ASSUME IndInv, SkipConfiguration PROVE IndInv'
<1>1. /\ pc = "configuration" /\ pc' = "decide" /\ ~MayExtend(got["machine"], got["user"])
      /\ UNCHANGED <<layer, name, got, outcome, since, pushes>>
  BY DEF SkipConfiguration, Goes
<1>2. got["configuration"] = Silent
  BY <1>1 DEF IndInv, ReadsAreReal
<1>3. HasRead("machine") /\ HasRead("user") /\ outcome = "none"
  BY <1>1 DEF IndInv, ReadsAreReal, After
<1>4. (HasRead("machine") /\ HasRead("user") /\ Consulted)'
  BY <1>1, <1>2, <1>3 DEF HasRead, Consulted
<1>5. QED
  BY <1>1, <1>3, <1>4
    DEF IndInv, TypeOK, ReadsAreReal, DecisionsAreMade, FailuresAreReal, After, Decisions

LEMMA DecideInv == ASSUME IndInv, Decide PROVE IndInv'
<1>1. pc = "decide" /\ UNCHANGED <<layer, name, got, since, pushes>>
  BY DEF Decide
<1>2. HasRead("machine") /\ HasRead("user") /\ Consulted /\ outcome = "none"
  BY <1>1 DEF IndInv, ReadsAreReal, After
<1>3. (Policies /\ Consulted /\ HasRead("machine") /\ HasRead("user"))'
  BY <1>1, <1>2 DEF Policies, Consulted, HasRead
<1>4. Decision(got, name.key) \in Decisions
  BY DecisionType
<1>5. Decision(got, name.key)' = Decision(got, name.key)
  BY <1>1 DEF Decision, Denied, Allowed
<1>6. CASE Decision(got, name.key) = "Open"
  <2>1. pc' = "inspect" /\ outcome' = "none"
    BY <1>2, <1>6 DEF Decide, Goes
  <2>2. QED
    BY <1>1, <1>2, <1>3, <1>5, <1>6, <2>1
      DEF IndInv, TypeOK, ReadsAreReal, DecisionsAreMade, FailuresAreReal, After, Decisions
<1>7. CASE Decision(got, name.key) # "Open"
  <2>1. pc' = "idle" /\ outcome' = Decision(got, name.key)
    BY <1>7 DEF Decide, Ends
  <2>2. QED
    BY <1>1, <1>3, <1>4, <1>5, <2>1
      DEF IndInv, TypeOK, Outcomes, ReadsAreReal, DecisionsAreMade, FailuresAreReal, After, Decisions
<1>8. QED
  BY <1>6, <1>7

LEMMA InspectInv == ASSUME IndInv, Inspect PROVE IndInv'
<1>1. pc = "inspect" /\ UNCHANGED <<layer, name, got, since, pushes>>
  BY DEF Inspect
<1>2. \/ pc' = "idle" /\ outcome' = "Misrepresented"
      \/ pc' = "launch" /\ outcome' = outcome
  BY DEF Inspect, Ends, Goes
<1>3. outcome = "none" /\ Decision(got, name.key) = "Open"
  BY <1>1 DEF IndInv, ReadsAreReal, DecisionsAreMade
<1>4. HasRead("machine") /\ HasRead("user") /\ Consulted
  BY <1>1 DEF IndInv, ReadsAreReal, After
<1>5. (HasRead("machine") /\ HasRead("user") /\ Consulted)'
  BY <1>1, <1>4 DEF Consulted, HasRead
<1>6. Decision(got, name.key)' = Decision(got, name.key)
  BY <1>1 DEF Decision, Denied, Allowed
<1>7. QED
  BY <1>1, <1>2, <1>3, <1>5, <1>6
    DEF IndInv, TypeOK, Outcomes, ReadsAreReal, DecisionsAreMade, FailuresAreReal, After, Decisions

LEMMA LaunchInv == ASSUME IndInv, Launch PROVE IndInv'
<1>1. pc = "launch" /\ UNCHANGED <<layer, name, got, since, pushes>>
  BY DEF Launch
<1>2. pc' = "idle" /\ outcome' \in {"Open", "Failed"}
  BY DEF Launch, Ends
<1>3. Decision(got, name.key) = "Open"
  BY <1>1 DEF IndInv, DecisionsAreMade
<1>4. (Policies /\ Consulted)'
  BY <1>1 DEF IndInv, ReadsAreReal, After, Policies, Consulted, HasRead
<1>5. Decision(got, name.key)' = Decision(got, name.key)
  BY <1>1 DEF Decision, Denied, Allowed
<1>6. QED
  BY <1>1, <1>2, <1>3, <1>4, <1>5
    DEF IndInv, TypeOK, Outcomes, ReadsAreReal, DecisionsAreMade, FailuresAreReal, After, Decisions

\* A change to a layer leaves what has been said of it said.
LEMMA PushInv == ASSUME IndInv, NEW s \in Source, NEW l \in Read, Push(s, l) PROVE IndInv'
<1>1. UNCHANGED <<pc, name, got, outcome>> /\ layer' = [layer EXCEPT ![s] = l]
  BY DEF Push
<1>2. since' = IF pc = "idle" THEN since ELSE [since EXCEPT ![s] = @ \cup {l}]
  BY DEF Push
<1>3. since' \in [Source -> SUBSET Read] /\ layer' \in [Source -> Read] /\ pushes' \in Nat
  BY <1>1, <1>2 DEF IndInv, TypeOK, Push
<1>4. \A t \in Source : since[t] \subseteq since'[t]
  BY <1>2 DEF IndInv, TypeOK
<1>5. pc # "idle" => \A t \in Source : layer'[t] \in since'[t]
  BY <1>1, <1>2 DEF IndInv, TypeOK, ReadsAreReal
<1>6. \A t \in Source : HasRead(t) => HasRead(t)'
  BY <1>1, <1>4 DEF HasRead
<1>7. (Consulted => Consulted') /\ (Policies => Policies')
  BY <1>1, <1>6 DEF Consulted, Policies, Source
<1>8. Decision(got, name.key)' = Decision(got, name.key)
  BY <1>1 DEF Decision, Denied, Allowed
<1>9. TypeOK'
  BY <1>1, <1>3 DEF IndInv, TypeOK
<1>10. ReadsAreReal'
  BY <1>1, <1>5, <1>6, <1>7 DEF IndInv, ReadsAreReal, Source
<1>11. DecisionsAreMade'
  BY <1>1, <1>7, <1>8 DEF IndInv, DecisionsAreMade
<1>12. FailuresAreReal'
  <2>1. Broken \in since["machine"] \cup since["user"] => Broken \in since'["machine"] \cup since'["user"]
    BY <1>4 DEF Source
  <2>2. QED
    BY <1>1, <1>7, <2>1 DEF IndInv, FailuresAreReal
<1>13. QED
  BY <1>9, <1>10, <1>11, <1>12 DEF IndInv

LEMMA StepInv == IndInv /\ [Next]_vars => IndInv'
<1> SUFFICES ASSUME IndInv, [Next]_vars PROVE IndInv'
  OBVIOUS
<1>1. ASSUME NEW n \in Name, Begin(n) PROVE IndInv'
  BY <1>1, BeginInv
<1>2. CASE ReadMachine \/ ReadUser \/ ReadConfiguration \/ SkipConfiguration
  BY <1>2, ReadMachineInv, ReadUserInv, ReadConfigurationInv, SkipInv
<1>3. CASE Decide \/ Inspect \/ Launch
  BY <1>3, DecideInv, InspectInv, LaunchInv
<1>4. ASSUME NEW s \in Source, NEW l \in Read, Push(s, l) PROVE IndInv'
  BY <1>4, PushInv
<1>5. CASE UNCHANGED vars
  BY <1>5 DEF vars, IndInv, TypeOK, ReadsAreReal, DecisionsAreMade, FailuresAreReal,
    HasRead, Policies, Consulted, Decision, Denied, Allowed
<1>6. QED
  BY <1>1, <1>2, <1>3, <1>4, <1>5 DEF Next

\* What an open goes by is what somebody had written while it was under way,
\* and a suppressed configuration is not read (resolve, decide).
THEOREM Invariant == Spec => []IndInv
<1>1. QED
  BY InitInv, StepInv, PTL DEF Spec

\* Where everything that may have been read of a layer refuses a key, the
\* decision does: the machine's list when it stands alone, and any denial.
LEMMA Refuses ==
    ASSUME NEW r, NEW key,
           r["machine"] \in Denying(key) \cup Locking(key)
             \/ r["user"] \in Denying(key) \/ r["configuration"] \in Denying(key)
    PROVE  Decision(r, key) # "Open"
<1>1. CASE \E s \in Source : r[s] \in Denying(key)
  <2>1. key \in Denied(r)
    BY <1>1 DEF Denied, Denying
  <2>2. QED
    BY <2>1 DEF Decision
<1>2. CASE r["machine"] \in Locking(key)
  <2>1. key \notin Allowed(r)
    BY <1>2 DEF Allowed, Over, Locking
  <2>2. QED
    BY <2>1 DEF Decision
<1>3. QED
  BY <1>1, <1>2 DEF Source

\* What is opened was read whole, and decided so.
LEMMA OpenedMeans ==
    ASSUME IndInv, outcome = "Open"
    PROVE  /\ HasRead("machine") /\ HasRead("user") /\ Consulted
           /\ Decision(got, name.key) = "Open" /\ got \in [Source -> Layers]
BY DEF IndInv, DecisionsAreMade, Decisions, Policies, TypeOK

\* A refusal that stands through an open holds, whatever else is changed
\* meanwhile: policy is resolved in the launch path, from the sources.
THEOREM RefusalsHold == Spec => []StandingRefusalsHold
<1>1. IndInv => StandingRefusalsHold
  <2> SUFFICES ASSUME IndInv, outcome = "Open"
               PROVE  /\ ~(since["machine"] \subseteq Denying(name.key) \cup {Broken} \cup Locking(name.key))
                      /\ ~(since["user"] \subseteq Denying(name.key) \cup {Broken})
                      /\ since["configuration"] \subseteq Denying(name.key) \cup {Broken}
                           => (since["machine"] \cup since["user"]) \cap Gating # {}
    BY DEF StandingRefusalsHold
  <2>1. /\ HasRead("machine") /\ HasRead("user") /\ Consulted
        /\ Decision(got, name.key) = "Open" /\ got \in [Source -> Layers]
    BY OpenedMeans
  <2>2. \A s \in Source : got[s] # Broken /\ got[s] \in Layers
    BY <2>1, LayersAssumption
  <2>3. ~(since["machine"] \subseteq Denying(name.key) \cup {Broken} \cup Locking(name.key))
    BY <2>1, <2>2, Refuses DEF HasRead, Source
  <2>4. ~(since["user"] \subseteq Denying(name.key) \cup {Broken})
    BY <2>1, <2>2, Refuses DEF HasRead, Source
  <2>5. ASSUME since["configuration"] \subseteq Denying(name.key) \cup {Broken}
        PROVE  (since["machine"] \cup since["user"]) \cap Gating # {}
    <3>1. ~HasRead("configuration")
      BY <2>1, <2>2, <2>5, Refuses DEF HasRead, Source
    <3>2. ~MayExtend(got["machine"], got["user"])
      BY <2>1, <3>1 DEF Consulted
    <3>3. got["machine"] \in Gating \/ got["user"] \in Gating
      BY <2>2, <3>2 DEF MayExtend, Gating, Source
    <3>4. QED
      BY <2>1, <3>3 DEF HasRead
  <2>6. QED
    BY <2>3, <2>4, <2>5
<1>2. QED
  BY <1>1, Invariant, PTL

\* What is allowed is on a list of one of the layers read.
LEMMA AllowedIsListed ==
    ASSUME NEW r, NEW key \in Allowed(r)
    PROVE  key \in Folded(BuiltIn.allowed) \/ \E s \in Source : key \in Folded(r[s].allowed)
BY DEF Allowed, Over, Source

\* A suppressed configuration adds nothing and breaks nothing (resolve: "a
\* broken one cannot fail a decision that would have ignored it anyway").
THEOREM Gate == Spec => []GateHolds
<1>1. IndInv => GateHolds
  <2> SUFFICES ASSUME IndInv, since["machine"] \subseteq Gating PROVE GateHolds
    BY DEF GateHolds
  <2>1. ASSUME HasRead("machine") PROVE ~MayExtend(got["machine"], got["user"])
    BY <2>1 DEF HasRead, MayExtend, Gating
  <2>2. ASSUME outcome = "Open"
        PROVE  \E l \in {BuiltIn} \cup since["machine"] \cup (since["user"] \ {Broken}) :
                 name.key \in Folded(l.allowed)
    <3>1. /\ HasRead("machine") /\ HasRead("user") /\ Consulted
          /\ Decision(got, name.key) = "Open" /\ got \in [Source -> Layers]
      BY <2>2, OpenedMeans
    <3>2. got["configuration"] = Silent
      BY <2>1, <3>1 DEF Consulted
    <3>3. name.key \in Allowed(got)
      BY <3>1 DEF Decision
    <3>4. name.key \notin Folded(got["configuration"].allowed)
      BY <3>2 DEF Silent, Folded
    <3>5. name.key \in Folded(BuiltIn.allowed) \/ name.key \in Folded(got["machine"].allowed)
            \/ name.key \in Folded(got["user"].allowed)
      BY <3>3, <3>4, AllowedIsListed DEF Source
    <3>6. got["user"] # Broken
      BY <3>1, LayersAssumption DEF Source
    <3>7. QED
      BY <3>1, <3>5, <3>6 DEF HasRead
  <2>3. ASSUME outcome = "Unreadable" PROVE Broken \in since["user"]
    <3>1. Broken \notin since["machine"]
      BY LayersAssumption DEF Gating
    <3>2. QED
      BY <2>1, <2>3, <3>1 DEF IndInv, FailuresAreReal, Policies
  <2>4. QED
    BY <2>2, <2>3 DEF GateHolds
<1>2. QED
  BY <1>1, Invariant, PTL

\* A refusal that is policy's doing is one the interface can call administered
\* (Effective::managed).
THEOREM Explained == Spec => []RefusalsAreExplained
<1>1. IndInv => RefusalsAreExplained
  <2> SUFFICES ASSUME IndInv, outcome \in {"Denied", "NotPermitted"}, ~Managed(got),
                      \A c \in since["configuration"] :
                        c # Broken /\ Decision([Nothing EXCEPT !["configuration"] = c], name.key) = "Open"
               PROVE  FALSE
    BY DEF RefusalsAreExplained
  <2>1. Consulted /\ outcome = Decision(got, name.key) /\ got \in [Source -> Layers]
    BY DEF IndInv, DecisionsAreMade, Decisions, TypeOK
  <2>2. got["machine"] = Silent /\ got["user"] = Silent
    BY DEF Managed
  <2>3. HasRead("configuration")
    <3>1. Silent.user_may_extend = {} /\ {} # {FALSE}
      BY DEF Silent
    <3>2. MayExtend(Silent, Silent)
      BY <3>1 DEF MayExtend
    <3>3. QED
      BY <2>1, <2>2, <3>2 DEF Consulted
  <2>4. got = [Nothing EXCEPT !["configuration"] = got["configuration"]]
    BY <2>1, <2>2 DEF Nothing, Source
  <2>5. Decision(got, name.key) = "Open"
    BY <2>3, <2>4 DEF HasRead
  <2>6. QED
    BY <2>1, <2>5
<1>2. QED
  BY <1>1, Invariant, PTL

\* Building the allowed list from the bottom up, letting a list that stands
\* alone discard what is beneath, comes to asking which lists no stronger one
\* discards.
LEMMA AllowedIsTheReference == \A key : key \in Allowed(got) <=> Listed(key)
<1> SUFFICES ASSUME NEW key PROVE key \in Allowed(got) <=> Listed(key)
  OBVIOUS
<1> DEFINE m == got["machine"]
           u == got["user"]
           c == got["configuration"]
           Open(l) == l.allowed = {} \/ l.mode = {"append"}
           On(l) == key \in Folded(l.allowed)
<1>1. /\ Said["machine"] = m /\ Said["user"] = u /\ Said["configuration"] = c
      /\ Said["builtin"] = BuiltIn
  BY DEF Said, Rank
<1>2. DOMAIN Rank = {"machine", "user", "configuration", "builtin"}
  BY DEF Rank
<1>3. /\ Rank["machine"] = 3 /\ Rank["user"] = 2 /\ Rank["configuration"] = 1
      /\ Rank["builtin"] = 0
  BY DEF Rank
<1>4. Listed(key) <=> \/ On(m)
                      \/ On(u) /\ Open(m)
                      \/ On(c) /\ Open(u) /\ Open(m)
                      \/ On(BuiltIn) /\ Open(c) /\ Open(u) /\ Open(m)
  BY <1>1, <1>2, <1>3 DEF Listed
<1>5. ASSUME NEW l, NEW beneath
      PROVE  key \in Over(l, beneath) <=> On(l) \/ (key \in beneath /\ Open(l))
  BY DEF Over, Folded
<1>6. QED
  BY <1>4, <1>5 DEF Allowed

\* Each decision is the reference's (resolve's two folds over the layers).
THEOREM Reference == Spec => []DecisionsAreTheReference
<1>1. IndInv => DecisionsAreTheReference
  <2> SUFFICES ASSUME IndInv PROVE DecisionsAreTheReference
    OBVIOUS
  <2>1. name.key \in Allowed(got) <=> Listed(name.key)
    BY AllowedIsTheReference
  <2>2. name.key \in Denied(got) <=> Refused(name.key)
    <3>1. name.key \notin Folded(BuiltIn.denied)
      BY DEF BuiltIn, Silent, Folded
    <3>2. QED
      BY <3>1 DEF Denied, Refused, Said, Rank, Source
  <2>3. outcome \in Decisions => outcome = Decision(got, name.key)
    BY DEF IndInv, DecisionsAreMade
  <2>4. QED
    BY <2>1, <2>2, <2>3 DEF DecisionsAreTheReference, Decision, Decisions
<1>2. QED
  BY <1>1, Invariant, PTL
=================================================================================
