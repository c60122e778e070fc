----------------------------- MODULE TroubleProofs -----------------------------
(***************************************************************************)
(* What is wrong, and what is said of it: the list of troubles the         *)
(* instance keeps for its icon stays within its bounds and its types, and  *)
(* loses a trouble only where the person has picked that one, where its    *)
(* own session's save has been pumped, or where a line was picked from a   *)
(* menu that something had gone from.                                      *)
(***************************************************************************)
EXTENDS PresenceProofs, FiniteSetTheorems

(***************************************************************************)
(* Lists of troubles.                                                      *)
(***************************************************************************)
\* A finite set in a row: everything in it and nothing else.
LEMMA Listing ==
    ASSUME NEW S, IsFiniteSet(S), NEW q, q = Ext!SetToSeq(S)
    PROVE  q \in Seq(S) /\ AllOf(q) = S
<1> DEFINE n == Cardinality(S)
<1>1. Ext!Cardinality(S) = n
  BY Zenon DEF Ext!Cardinality, Cardinality
<1>2. n \in Nat /\ ExistsBijection(1 .. n, S)
  BY FS_CardinalityType
<1>3. PICK f \in [1 .. n -> S] : \A a, b \in 1 .. n : f[a] = f[b] => a = b
  BY <1>2 DEF ExistsBijection, Bijection, Injection, IsInjective
<1>4. /\ q \in [1 .. n -> S]
      /\ \A a, b \in DOMAIN q : q[a] = q[b] => a = b
  <2>1. \E g \in [1 .. n -> S] : Ext!IsInjective(g)
    BY <1>3 DEF Ext!IsInjective
  <2>2. q = CHOOSE g \in [1 .. n -> S] : Ext!IsInjective(g)
    BY Zenon, <1>1 DEF Ext!SetToSeq
  <2>3. q \in [1 .. n -> S] /\ Ext!IsInjective(q)
    BY Zenon, <2>1, <2>2
  <2> QED
    BY Zenon, <2>3 DEF Ext!IsInjective
<1>5. q \in Seq(S) /\ DOMAIN q = 1 .. n
  BY <1>2, <1>4
<1>6. \A s \in S : \E k \in 1 .. n : q[k] = s
  <2>1. IsFiniteSet(1 .. n) /\ Cardinality(1 .. n) = n
    BY <1>2, FS_Interval
  <2>2. q \in Injection(1 .. n, S)
    BY <1>4, <1>5 DEF Injection, IsInjective
  <2>3. q \in Surjection(1 .. n, S)
    BY <2>1, <2>2, FS_Injection
  <2> QED
    BY <2>3 DEF Surjection
<1>7. AllOf(q) = S
  BY <1>4, <1>5, <1>6 DEF AllOf
<1> QED
  BY <1>5, <1>7

\* The places of a sequence that are kept, counted off: each has a rank, and each
\* rank is of one place.
LEMMA Ranks ==
    ASSUME NEW kept, NEW l \in Nat, kept \subseteq 1 .. l
    PROVE  /\ IsFiniteSet(kept) /\ Cardinality(kept) \in 0 .. l
           /\ \A i \in kept : Cardinality({j \in kept : j <= i}) \in 1 .. Cardinality(kept)
           /\ \A i, k \in kept : Cardinality({j \in kept : j <= i}) = Cardinality({j \in kept : j <= k}) => i = k
           /\ \A k \in 1 .. Cardinality(kept) : \E i \in kept : Cardinality({j \in kept : j <= i}) = k
<1> DEFINE below(i) == {j \in kept : j <= i}
           n == Cardinality(kept)
           rank == [i \in kept |-> Cardinality(below(i))]
<1>1. IsFiniteSet(1 .. l) /\ Cardinality(1 .. l) = l
  BY FS_Interval
<1>2. IsFiniteSet(kept) /\ n \in Nat /\ n <= l
  BY <1>1, FS_Subset, FS_CardinalityType
<1>3. ASSUME NEW i \in kept
      PROVE  IsFiniteSet(below(i)) /\ Cardinality(below(i)) \in 1 .. n
  <2>1. IsFiniteSet(below(i)) /\ Cardinality(below(i)) <= n /\ Cardinality(below(i)) \in Nat
    BY <1>2, FS_Subset, FS_CardinalityType
  <2>2. i \in below(i)
    OBVIOUS
  <2>3. Cardinality(below(i)) # 0
    <3> HIDE DEF below
    <3> QED
      BY <2>1, <2>2, FS_EmptySet
  <2> QED
    BY <1>2, <2>1, <2>3
<1>4. ASSUME NEW i \in kept, NEW k \in kept, i < k
      PROVE  Cardinality(below(i)) # Cardinality(below(k))
  <2>1. below(i) \subseteq below(k) /\ k \in below(k) /\ k \notin below(i)
    <3>1. \A j \in kept : (j <= i => j <= k) /\ (j = k => j <= k /\ ~(j <= i))
      BY <1>4
    <3> QED
      BY <3>1
  <2>2. IsFiniteSet(below(k))
    BY <1>3
  <2> HIDE DEF below
  <2> QED
    BY <2>1, <2>2, FS_Subset
<1>5. \A i, k \in kept : Cardinality(below(i)) = Cardinality(below(k)) => i = k
  <2> SUFFICES ASSUME NEW i \in kept, NEW k \in kept, i # k
               PROVE  Cardinality(below(i)) # Cardinality(below(k))
    OBVIOUS
  <2>1. i < k \/ k < i
    OBVIOUS
  <2> HIDE DEF below
  <2> QED
    BY <1>4, <2>1
<1> HIDE DEF below
<1>6. rank \in Injection(kept, 1 .. n)
  BY <1>3, <1>5 DEF Injection, IsInjective
<1>7. IsFiniteSet(1 .. n) /\ Cardinality(1 .. n) = n
  BY <1>2, FS_Interval
<1>8. rank \in Surjection(kept, 1 .. n)
  <2> HIDE DEF rank
  <2> QED
    BY <1>6, <1>7, FS_Injection
<1>9. \A k \in 1 .. n : \E i \in kept : Cardinality(below(i)) = k
  BY <1>8 DEF Surjection
<1> QED
  BY <1>2, <1>3, <1>5, <1>9 DEF below

\* Resident::dismiss takes what was meant and nothing else, however often it is there.
LEMMA Dismissing ==
    ASSUME NEW from \in Seq(Trouble), NEW gone, NEW r, r = Dismiss(gone, from)
    PROVE  /\ r \in Seq(Trouble) /\ Len(r) <= Len(from)
           /\ AllOf(r) = AllOf(from) \ gone
<1> DEFINE kept == {i \in DOMAIN from : from[i] \notin gone}
           n == Cardinality(kept)
           rank(i) == Cardinality({j \in kept : j <= i})
           at(k) == CHOOSE i \in kept : rank(i) = k
<1>1. r = [k \in 1 .. n |-> from[at(k)]]
  BY DEF Dismiss
<1>2. /\ Len(from) \in Nat /\ DOMAIN from = 1 .. Len(from) /\ kept \subseteq 1 .. Len(from)
      /\ \A i \in kept : from[i] \in Trouble
  OBVIOUS
<1>3. AllOf(from) \ gone = {from[i] : i \in kept}
  BY DEF AllOf
<1> HIDE DEF kept
<1>4. /\ n \in 0 .. Len(from)
      /\ \A i \in kept : rank(i) \in 1 .. n
      /\ \A i, k \in kept : rank(i) = rank(k) => i = k
      /\ \A k \in 1 .. n : \E i \in kept : rank(i) = k
  BY <1>2, Ranks
<1> HIDE DEF n, rank
<1>5. \A k \in 1 .. n : at(k) \in kept /\ rank(at(k)) = k
  BY <1>4
<1>6. \A i \in kept : at(rank(i)) = i
  BY <1>4, <1>5
<1> HIDE DEF at
<1>7. r \in Seq(Trouble) /\ Len(r) = n /\ DOMAIN r = 1 .. n
  <2>1. \A k \in 1 .. n : from[at(k)] \in Trouble
    BY <1>2, <1>5
  <2>2. n \in Nat
    BY <1>2, <1>4
  <2>3. r \in [1 .. n -> Trouble]
    BY <1>1, <2>1
  <2> QED
    BY <2>2, <2>3
<1>8. AllOf(r) = {from[i] : i \in kept}
  <2>1. ASSUME NEW i \in kept PROVE from[i] \in AllOf(r)
    <3>1. rank(i) \in DOMAIN r /\ r[rank(i)] = from[i]
      BY <1>1, <1>4, <1>6, <1>7
    <3> QED
      BY <3>1 DEF AllOf
  <2>2. ASSUME NEW k \in DOMAIN r PROVE r[k] \in {from[i] : i \in kept}
    BY <1>1, <1>5, <1>7, <2>2
  <2> QED
    BY <2>1, <2>2 DEF AllOf
<1> QED
  BY <1>2, <1>3, <1>4, <1>7, <1>8

\* Resident::note keeps what there is, and adds what is new.
LEMMA Noting ==
    ASSUME troubles \in Seq(Trouble), NEW new, new \subseteq Trouble, IsFiniteSet(new)
    PROVE  Noted(new) \in Seq(Trouble) /\ AllOf(Noted(new)) = AllOf(troubles) \cup new
<1> DEFINE q == Ext!SetToSeq(new \ AllOf(troubles))
<1>1. IsFiniteSet(new \ AllOf(troubles))
  BY FS_Subset
<1>2. q \in Seq(new \ AllOf(troubles)) /\ AllOf(q) = new \ AllOf(troubles)
  BY <1>1, Listing
<1>3. Noted(new) = troubles \o q
  BY DEF Noted
<1> HIDE DEF q
<1>4. q \in Seq(Trouble)
  BY <1>2
<1>5. /\ troubles \o q \in Seq(Trouble)
      /\ AllOf(troubles \o q) = AllOf(troubles) \cup AllOf(q)
  <2> DEFINE r == troubles \o q
  <2>1. /\ r \in Seq(Trouble) /\ Len(troubles) \in Nat /\ Len(q) \in Nat
        /\ DOMAIN troubles = 1 .. Len(troubles) /\ DOMAIN q = 1 .. Len(q)
        /\ DOMAIN r = 1 .. Len(troubles) + Len(q)
        /\ \A i \in DOMAIN troubles : r[i] = troubles[i]
        /\ \A i \in DOMAIN q : r[i + Len(troubles)] = q[i]
    BY <1>4
  <2> HIDE DEF r
  <2>2. \A i \in DOMAIN r : i \in DOMAIN troubles \/ (i - Len(troubles) \in DOMAIN q
                                                     /\ r[i] = q[i - Len(troubles)])
    BY <2>1
  <2>3. \A i \in DOMAIN q : i + Len(troubles) \in DOMAIN r
    BY <2>1
  <2>4. \A i \in DOMAIN troubles : i \in DOMAIN r
    BY <2>1
  <2>5. AllOf(r) \subseteq AllOf(troubles) \cup AllOf(q)
    BY <2>1, <2>2 DEF AllOf
  <2>6. AllOf(troubles) \subseteq AllOf(r) /\ AllOf(q) \subseteq AllOf(r)
    BY <2>1, <2>3, <2>4 DEF AllOf
  <2> QED
    BY <2>1, <2>5, <2>6 DEF r
<1> QED
  BY <1>2, <1>3, <1>5

\* What a call of note is given is of some sessions and one kind.
LEMMA Naming ==
    ASSUME NEW kind \in Kinds, NEW who, who \subseteq Sessions
    PROVE  Named(kind, who) \subseteq Trouble /\ IsFiniteSet(Named(kind, who))
<1> DEFINE f == [s \in who |-> [kind |-> kind, of |-> s]]
<1>1. IsFiniteSet(who)
  BY SessionsAssumption, FS_Subset
<1>2. f \in Surjection(who, Named(kind, who))
  BY DEF Surjection, Named
<1>3. IsFiniteSet(Named(kind, who))
  <2> HIDE DEF f
  <2> QED
    BY <1>1, <1>2, FS_Surjection
<1> QED
  BY <1>3 DEF Named, Trouble

\* A step that notes something about one session.
LEMMA NotedOne ==
    ASSUME troubles \in Seq(Trouble), NEW kind \in Kinds, NEW s \in Sessions,
           Note(Named(kind, {s}))
    PROVE  /\ troubles' \in Seq(Trouble) /\ Len(troubles') <= world.troubles
           /\ AllOf(troubles) \subseteq AllOf(troubles')
<1> DEFINE new == Named(kind, {s})
<1>1. new \subseteq Trouble /\ IsFiniteSet(new)
  BY Naming
<1>2. troubles' = Noted(new) /\ Len(Noted(new)) <= world.troubles
  BY DEF Note
<1> HIDE DEF new
<1> QED
  BY <1>1, <1>2, Noting

\* A pump of them all: what goes is what was noted of those whose saves landed.
LEMMA Pumped ==
    ASSUME world \in Worlds, troubles \in Seq(Trouble), PumpAll
    PROVE  /\ troubles' \in Seq(Trouble) /\ Len(troubles') <= world.troubles
           /\ \A t \in AllOf(troubles) \ AllOf(troubles') :
                t.kind = "writeback" /\ session[t.of] = "open"
<1>1. PICK landed \in SUBSET IsOpen, failed \in SUBSET IsOpen :
        /\ Len(Noted(Named("writeback", failed))) <= world.troubles
        /\ troubles' = Dismiss(Named("writeback", landed), Noted(Named("writeback", failed)))
  BY DEF PumpAll
<1> DEFINE new == Named("writeback", failed)
           gone == Named("writeback", landed)
           noted == Noted(new)
<1>2. new \subseteq Trouble /\ IsFiniteSet(new)
  BY Naming DEF Kinds, IsOpen
<1>3. \A t \in gone : t.kind = "writeback" /\ session[t.of] = "open"
  BY DEF Named, IsOpen
<1>4. Len(noted) <= world.troubles /\ troubles' = Dismiss(gone, noted)
  BY <1>1
<1> HIDE DEF new, gone
<1>5. noted \in Seq(Trouble) /\ AllOf(noted) = AllOf(troubles) \cup new
  BY <1>2, Noting
<1> HIDE DEF noted
<1>6. /\ troubles' \in Seq(Trouble) /\ Len(troubles') <= Len(noted)
      /\ AllOf(troubles') = AllOf(noted) \ gone
  BY <1>4, <1>5, Dismissing
<1>7. Len(troubles') <= world.troubles
  BY <1>4, <1>5, <1>6, PresenceAssumption
<1> QED
  BY <1>3, <1>5, <1>6, <1>7

\* What the person has put down goes, and nothing else does.
LEMMA PutDownOnly ==
    ASSUME world \in Worlds, troubles \in Seq(Trouble), Len(troubles) <= world.troubles,
           ShowAndTake
    PROVE  /\ troubles' \in Seq(Trouble) /\ Len(troubles') <= world.troubles
           /\ \A t \in AllOf(troubles) \ AllOf(troubles') : PutDown(t) \in Chosen
<1> DEFINE gone == {t \in Trouble : PutDown(t) \in Chosen}
<1>1. troubles' = Dismiss(gone, troubles) /\ \A t \in gone : PutDown(t) \in Chosen
  BY DEF ShowAndTake
<1> HIDE DEF gone
<1>2. /\ troubles' \in Seq(Trouble) /\ Len(troubles') <= Len(troubles)
      /\ AllOf(troubles') = AllOf(troubles) \ gone
  BY <1>1, Dismissing
<1> QED
  BY <1>1, <1>2, PresenceAssumption

(***************************************************************************)
(* Types.                                                                  *)
(***************************************************************************)
\* Resident::mood is a mood.
LEMMA MoodIsOne == ASSUME troubles \in Seq(Trouble) PROVE Mood \in Moods
<1> DEFINE moods == {Severity(troubles[i].kind) : i \in DOMAIN troubles}
                    \cup {IF held = {} THEN "Settled" ELSE "Look"}
                    \cup {IF pulse THEN "Working" ELSE "Settled"}
<1>1. \A i \in DOMAIN troubles : troubles[i].kind \in Kinds
  <2>1. \A i \in DOMAIN troubles : troubles[i] \in Trouble
    OBVIOUS
  <2> QED
    BY <2>1 DEF Trouble
<1>2. \A k \in Kinds : Severity(k) \in Moods
  BY DEF Kinds, Severity, Moods
<1>3. moods \subseteq Moods /\ moods # {}
  BY <1>1, <1>2 DEF Moods
<1>4. Mood = Worst(moods)
  BY DEF Mood
<1> HIDE DEF moods
<1>5. \E m \in moods : \A k \in moods : Rank[k] <= Rank[m]
  <2>1. /\ Rank["Settled"] = 0 /\ Rank["Working"] = 1 /\ Rank["Look"] = 2
        /\ Rank["AtRisk"] = 3 /\ Rank["Danger"] = 4
    BY DEF Rank, Moods
  <2>2. \A m \in moods : m \in {"Settled", "Working", "Look", "AtRisk", "Danger"}
    BY <1>3 DEF Moods
  <2>3. CASE "Danger" \in moods
    BY <2>1, <2>2, <2>3
  <2>4. CASE "Danger" \notin moods /\ "AtRisk" \in moods
    BY <2>1, <2>2, <2>4
  <2>5. CASE "Danger" \notin moods /\ "AtRisk" \notin moods /\ "Look" \in moods
    BY <2>1, <2>2, <2>5
  <2>6. CASE moods \subseteq {"Settled", "Working"} /\ "Working" \in moods
    BY <2>1, <2>6
  <2>7. CASE moods = {"Settled"}
    BY <2>1, <2>7
  <2> QED
    BY <1>3, <2>2, <2>3, <2>4, <2>5, <2>6, <2>7
<1> QED
  BY <1>3, <1>4, <1>5 DEF Worst

\* The list of troubles, over a step: its type and its bound, and what it lost.
LEMMA TroublesStep ==
    ASSUME TypeOK, [Next]_vars
    PROVE  /\ troubles' \in Seq(Trouble) /\ Len(troubles') <= world.troubles
           /\ \A t \in AllOf(troubles) \ AllOf(troubles') :
                \/ pc = "show" /\ PutDown(t) \in Chosen
                \/ pc = "turn" /\ t.kind = "writeback" /\ session[t.of] = "open"
<1> DEFINE Goal == /\ troubles' \in Seq(Trouble) /\ Len(troubles') <= world.troubles
                   /\ \A t \in AllOf(troubles) \ AllOf(troubles') :
                        \/ pc = "show" /\ PutDown(t) \in Chosen
                        \/ pc = "turn" /\ t.kind = "writeback" /\ session[t.of] = "open"
<1>1. /\ troubles \in Seq(Trouble) /\ Len(troubles) <= world.troubles /\ of \in Sessions
      /\ world \in Worlds
  BY DEF TypeOK
<1>2. /\ "recover" \in Kinds /\ "open" \in Kinds /\ "content" \in Kinds
      /\ (pc = "show" => pc # "turn") /\ (pc = "turn" => pc # "show")
  BY DEF Kinds
<1>3. CASE UNCHANGED troubles
  BY <1>1, <1>3 DEF AllOf
<1>4. CASE RecoverFails \/ Refuses \/ Misrepresents
  <2>1. \E kind \in Kinds : Note(Named(kind, {of}))
    BY <1>2, <1>4 DEF RecoverFails, Refuses, Misrepresents
  <2> QED
    BY <1>1, <2>1, NotedOne
<1>5. ASSUME NEW s \in Sessions, Settled(s) PROVE Goal
  <2>1. UNCHANGED troubles \/ Note(Named("recover", {s}))
    BY <1>5 DEF Settled
  <2> QED
    BY <1>1, <1>2, <1>3, <2>1, NotedOne
<1>6. CASE PumpAll
  <2>1. pc = "turn"
    BY <1>6 DEF PumpAll
  <2> QED
    BY <1>1, <1>6, <2>1, Pumped
<1>7. CASE ShowAndTake
  <2>1. pc = "show"
    BY <1>7 DEF ShowAndTake
  <2> QED
    BY <1>1, <1>7, <2>1, PutDownOnly
<1>8. CASE \/ Requests \/ NothingToOpen \/ AsksFirst \/ Opens \/ Stay
           \/ Asked \/ Answering \/ LetGo \/ StandDown \/ SeeOut
  BY <1>3, <1>8 DEF Requests, Tick, Disconnected, Request, Close, NothingToOpen, AsksFirst, Opens, Stay, Asked,
       Answering, TakeAnswers, DealtWith, Reveal, Insists, Settles, LetGo, StandDown, SeeOut, shows
<1>9. CASE Hears \/ Redresses \/ Restarts \/ PulseEnds \/ Person \/ UNCHANGED vars
  BY <1>3, <1>9 DEF Hears, Redresses, Restarts, PulseEnds, Person, Presses, Closes, SeesBox, AtTheIcon,
       Command, PressesStuck, LoopSame, shows, vars
<1>10. CASE Opening
  BY <1>4, <1>8, <1>10 DEF Opening
<1>11. CASE Turn
  BY <1>5, <1>6, <1>8, <1>11 DEF Turn
<1>12. CASE Standing
  BY <1>7, <1>8, <1>12 DEF Standing
<1> QED
  BY <1>8, <1>9, <1>10, <1>11, <1>12 DEF Next, Loop

\* What a standing list is shown, and what is picked from its menu.
LEMMA TrayStep == TypeOK /\ [Next]_vars => TrayTypeOK'
<1> SUFFICES ASSUME TypeOK, [Next]_vars PROVE TrayTypeOK'
  OBVIOUS
<1>1. TrayTypeOK /\ troubles \in Seq(Trouble)
  BY DEF TypeOK
<1>2. CASE UNCHANGED trayVars
  BY <1>1, <1>2 DEF TrayTypeOK, trayVars
<1>3. CASE ShowAndTake
  <2>1. Now \in Shown
    <3>1. Listed \subseteq Sessions
      BY DEF TypeOK, Listed, Busy
    <3> QED
      BY <1>1, <3>1, MoodIsOne DEF Now, Shown
  <2>2. /\ (shown' = shown /\ posted' = posted) \/ (shown' = Now /\ posted' = TRUE)
        /\ chosen' = <<>> /\ meant' = {} /\ UNCHANGED <<icon, menu, restarted>>
        /\ stale' = (stale \/ (menu # <<>> /\ AllOf(troubles) \ AllOf(troubles') # {}))
    BY <1>3 DEF ShowAndTake, Show, Taken, Outdated
  <2> HIDE DEF Now
  <2>3. shown' \in Shown /\ posted' \in BOOLEAN /\ icon' \in Moods
    BY <1>1, <2>1, <2>2 DEF TrayTypeOK
  <2>4. stale' \in BOOLEAN
    BY <2>2
  <2> QED
    BY <1>1, <2>2, <2>3, <2>4 DEF TrayTypeOK
<1>4. CASE Redresses
  <2>1. /\ posted' = FALSE /\ icon' = shown.mood /\ restarted' = FALSE
        /\ UNCHANGED <<shown, chosen, menu, stale, meant>>
    BY <1>4 DEF Redresses, Redress
  <2>2. shown.mood \in Moods
    BY <1>1 DEF TrayTypeOK, Shown
  <2> QED
    BY <1>1, <2>1, <2>2 DEF TrayTypeOK
<1>5. CASE AtTheIcon
  <2>1. shown.troubles \in Seq(Trouble)
    BY <1>1 DEF TrayTypeOK, Shown
  <2>2. /\ \/ menu' = shown.troubles /\ chosen' = chosen
           \/ menu' = <<>> /\ chosen' = chosen
           \/ /\ menu' = <<>>
              /\ \E i \in DOMAIN shown.troubles : chosen' = Append(chosen, PutDown(shown.troubles[i]))
           \/ menu' = <<>> /\ chosen' = Append(chosen, Quit)
        /\ UNCHANGED <<shown, posted, icon, restarted>>
    BY <1>5 DEF AtTheIcon, Offer, Escape, Pick, PickQuit, Closed
  <2>3. menu' \in Seq(Trouble)
    <3>1. <<>> \in Seq(Trouble) /\ (menu' = shown.troubles \/ menu' = <<>>)
      BY <2>2
    <3> QED
      BY <2>1, <3>1
  <2>4. stale' \in BOOLEAN
    <3>1. stale' = FALSE \/ stale' = ~Ext!IsPrefix(shown.troubles, troubles)
      BY <1>5 DEF AtTheIcon, Offer, Escape, Pick, PickQuit, Closed
    <3> QED
      BY Zenon, <3>1
  <2>5. meant' \subseteq Trouble
    <3>1. /\ meant \subseteq Trouble /\ \A i \in DOMAIN menu : menu[i] \in Trouble
      BY <1>1 DEF TrayTypeOK
    <3>2. \/ meant' = meant \/ meant' = Trouble
          \/ \E i \in DOMAIN menu : meant' = {menu[i]}
      BY <1>5 DEF AtTheIcon, Offer, Escape, Pick, PickQuit
    <3> QED
      BY <3>1, <3>2
  <2> DEFINE Choices == {PutDown(t) : t \in Trouble} \cup {Quit}
  <2>6. chosen \in Seq(Choices)
    BY <1>1 DEF TrayTypeOK
  <2>7. \A i \in DOMAIN shown.troubles : PutDown(shown.troubles[i]) \in Choices
    <3>1. \A i \in DOMAIN shown.troubles : shown.troubles[i] \in Trouble
      BY <2>1
    <3> QED
      BY <3>1
  <2>8. Quit \in Choices
    OBVIOUS
  <2> HIDE DEF Choices
  <2>9. chosen' \in Seq(Choices)
    BY <2>2, <2>6, <2>7, <2>8
  <2> QED
    BY <1>1, <2>2, <2>3, <2>4, <2>5, <2>9 DEF TrayTypeOK, Choices
<1>6. CASE Requests \/ Opening \/ (Turn /\ ~PumpAll) \/ StandDown \/ SeeOut
  BY <1>2, <1>6 DEF Requests, Tick, Disconnected, Request, Close, Opening, NothingToOpen, AsksFirst, RecoverFails,
       Opens, Refuses, Misrepresents, Stay, Turn, Asked, Settled, Answering, TakeAnswers,
       DealtWith, Reveal, Insists, Settles, LetGo, StandDown, SeeOut
<1>7. CASE \/ Hears \/ PulseEnds \/ (\E n \in screen : Presses(n) \/ Closes(n)) \/ SeesBox
           \/ (\E s \in Sessions : Command(s) \/ PressesStuck(s)) \/ UNCHANGED vars
  BY <1>2, <1>7 DEF Hears, PulseEnds, Presses, Closes, SeesBox, Command, PressesStuck, vars
<1>8. CASE PumpAll
  <2>1. /\ UNCHANGED <<shown, chosen, posted, icon, menu, restarted, meant>>
        /\ stale' = (stale \/ (menu # <<>> /\ AllOf(troubles) \ AllOf(troubles') # {}))
    BY <1>8 DEF PumpAll, Outdated
  <2>2. stale' \in BOOLEAN
    BY <2>1
  <2> QED
    BY <1>1, <2>1, <2>2 DEF TrayTypeOK
<1>9. CASE Restarts
  <2>1. /\ icon' = "Settled" /\ restarted' = TRUE
        /\ UNCHANGED <<shown, chosen, posted, menu, stale, meant>>
    BY <1>9 DEF Restarts, ShellRestarts
  <2> QED
    BY <1>1, <2>1 DEF TrayTypeOK, Moods
<1> QED
  BY <1>3, <1>4, <1>5, <1>6, <1>7, <1>8, <1>9 DEF Next, Loop, Standing, Person

\* Each behaviour keeps to its world.
LEMMA WorldStays == [Next]_vars => world' = world
  BY DEF Next, Loop, Requests, Tick, Disconnected, Request, Close, Opening, NothingToOpen, AsksFirst,
     RecoverFails, Opens, Refuses, Misrepresents, Stay, Turn, Asked, PumpAll, Settled, Answering,
     TakeAnswers, DealtWith, Reveal, Insists, Settles, LetGo, Standing, ShowAndTake, StandDown,
     SeeOut, Hears, Redresses, Restarts, PulseEnds, Person, Presses, Closes, SeesBox, AtTheIcon,
     Command, PressesStuck, LoopSame, SamePeople, vars

\* Where the loop is, and what it is about.
LEMMA PlaceStep ==
    ASSUME TypeOK, [Next]_vars
    PROVE  /\ pc' \in Places /\ of' \in Sessions /\ back' \in Places /\ running' \in BOOLEAN
           /\ prompt' \in BOOLEAN /\ standing' \in BOOLEAN /\ quit' \in BOOLEAN /\ lost' \in BOOLEAN
<1>1. /\ pc \in Places /\ of \in Sessions /\ back \in Places /\ held \subseteq Sessions
      /\ running \in BOOLEAN /\ prompt \in BOOLEAN /\ standing \in BOOLEAN /\ quit \in BOOLEAN
      /\ lost \in BOOLEAN
  BY DEF TypeOK
<1>2. quit' \in BOOLEAN /\ lost' \in BOOLEAN
  <2>1. (quit' = quit \/ quit' = TRUE) /\ (lost' = lost \/ lost' = TRUE)
    BY DEF Next, Loop, Requests, Tick, Disconnected, Request, Close, Opening, NothingToOpen, AsksFirst, RecoverFails,
       Opens, Refuses, Misrepresents, Stay, Turn, Asked, PumpAll, Settled, Answering, TakeAnswers,
       DealtWith, Reveal, Insists, Settles, LetGo, Standing, ShowAndTake, StandDown, SeeOut,
       Hears, Redresses, Restarts, PulseEnds, Person, Presses, Closes, SeesBox, AtTheIcon, Command,
       PressesStuck, LoopSame, SamePeople, vars
  <2> QED
    BY <1>1, <2>1
<1>3. UNCHANGED <<prompt, standing>>
  BY DEF Next, Loop, Requests, Tick, Disconnected, Request, Close, Opening, NothingToOpen, AsksFirst, RecoverFails,
     Opens, Refuses, Misrepresents, Stay, Turn, Asked, PumpAll, Settled, Answering, TakeAnswers,
     DealtWith, Reveal, Insists, Settles, LetGo, Standing, ShowAndTake, StandDown, SeeOut,
     Hears, Redresses, Restarts, PulseEnds, Person, Presses, Closes, SeesBox, AtTheIcon, Command, PressesStuck,
     LoopSame, SamePeople, vars
<1>4. /\ pc' \in Places /\ of' \in Sessions /\ back' \in Places /\ running' \in BOOLEAN
  <2>1. CASE UNCHANGED loop
    BY <1>1, <2>1 DEF loop
  <2>2. CASE Requests
    BY <1>1, <2>2 DEF Requests, Tick, Disconnected, Request, Close, Goes, Places
  <2>3. CASE Opening /\ ~Stay
    <3>1. /\ pc' \in {pc, back, "asking"} /\ of' = of /\ back' \in {"turn", back} /\ running' = running
      BY <2>3 DEF Opening, NothingToOpen, AsksFirst, RecoverFails, Opens, Refuses, Misrepresents,
                  Ask, Returns, loop
    <3> QED
      BY <1>1, <3>1 DEF Places
  <2>4. CASE Stay
    <3>1. pc' \in {"request", "seeing"} /\ running' \in BOOLEAN /\ UNCHANGED <<of, back>>
      BY <2>4 DEF Stay, HasAReasonToStay, IsIdle
    <3> QED
      BY <1>1, <3>1 DEF Places
  <2>5. CASE Asked \/ PumpAll \/ TakeAnswers \/ DealtWith \/ LetGo \/ Standing
    <3>1. /\ pc' \in {pc, back, "settling", "answers", "show", "leaving", "request", "seeing", "gone"}
          /\ of' = of /\ back' \in {"turn", back} /\ running' = running
      BY <2>5 DEF Asked, PumpAll, TakeAnswers, DealtWith, LetGo, Standing, ShowAndTake, StandDown,
                  SeeOut, Goes, Returns, loop
    <3> QED
      BY <1>1, <3>1 DEF Places
  <2>6. ASSUME NEW s \in Sessions, Settled(s)
        PROVE  pc' \in Places /\ of' \in Sessions /\ back' \in Places /\ running' \in BOOLEAN
    <3>1. /\ pc' \in {pc, "asking"} /\ of' \in {of, s} /\ back' \in {back, pc} /\ running' = running
      BY <2>6 DEF Settled, Goes, Ask
    <3> QED
      BY <1>1, <3>1 DEF Places
  <2>7. CASE Reveal \/ Insists \/ Settles
    <3>1. Answered \in Sessions
      BY <1>1, <2>7 DEF Reveal, Insists, Settles
    <3>2. /\ pc' \in {pc, "asking", "open"} /\ of' \in {of, Answered} /\ back' \in {back, "answers"}
          /\ running' = running
      BY <2>7 DEF Reveal, Insists, Settles, Ask, loop
    <3> QED
      BY <1>1, <3>1, <3>2 DEF Places
  <2>8. CASE Hears \/ Redresses \/ Restarts \/ PulseEnds \/ Person \/ UNCHANGED vars
    BY <2>1, <2>8 DEF Hears, Redresses, Restarts, PulseEnds, Person, Presses, Closes, SeesBox, AtTheIcon,
         Command, PressesStuck, LoopSame, vars
  <2> QED
    BY <2>2, <2>3, <2>4, <2>5, <2>6, <2>7, <2>8 DEF Next, Loop, Turn, Answering
<1> QED
  BY <1>1, <1>2, <1>3, <1>4

\* The sessions, and whether one of them has just been written back.
LEMMA SessionStep ==
    ASSUME TypeOK, [Next]_vars
    PROVE  session' \in [Sessions -> {"none", "open", "lingering"}] /\ pulse' \in BOOLEAN
<1>1. session \in [Sessions -> {"none", "open", "lingering"}] /\ pulse \in BOOLEAN
  BY DEF TypeOK
<1>2. pulse' \in BOOLEAN
  <2>1. pulse' = pulse \/ pulse' = TRUE \/ pulse' = FALSE
    BY DEF Next, Loop, Requests, Tick, Disconnected, Request, Close, Opening, NothingToOpen, AsksFirst, RecoverFails,
       Opens, Refuses, Misrepresents, Stay, Turn, Asked, PumpAll, Settled, Answering, TakeAnswers,
       DealtWith, Reveal, Insists, Settles, LetGo, Standing, ShowAndTake, StandDown, SeeOut,
       Hears, Redresses, Restarts, PulseEnds, Person, Presses, Closes, SeesBox, AtTheIcon, Command, PressesStuck,
       LoopSame, shows, vars
  <2> QED
    BY <1>1, <2>1
<1>3. \/ session' = session
      \/ \E s \in Sessions : \E to \in {"none", "open", "lingering"} :
           session' = [session EXCEPT ![s] = to]
      \/ session' = [s \in Sessions |-> "none"]
  <2>1. CASE Opens
    BY <2>1 DEF Opens, TypeOK
  <2> QED
    BY <2>1
    DEF Next, Loop, Requests, Tick, Disconnected, Request, Close, Opening, NothingToOpen, AsksFirst, RecoverFails,
       Refuses, Misrepresents, Stay, Turn, Asked, PumpAll, Settled, Answering, TakeAnswers,
       DealtWith, Reveal, Insists, Settles, LetGo, Standing, ShowAndTake, StandDown, SeeOut,
       Hears, Redresses, Restarts, PulseEnds, Person, Presses, Closes, SeesBox, AtTheIcon, Command, PressesStuck,
       LoopSame, vars
<1> QED
  BY <1>1, <1>2, <1>3

\* The questions held, what they hold up, and what is owed and known of them.
LEMMA QuestionStep ==
    ASSUME TypeOK, [Next]_vars
    PROVE  /\ left' \subseteq Sessions /\ held' \subseteq Sessions /\ follows' \subseteq held'
           /\ owed' \subseteq Notification /\ excused' \subseteq Sessions /\ elsewhere' \subseteq Sessions
<1>1. /\ left \subseteq Sessions /\ held \subseteq Sessions /\ follows \subseteq held
      /\ owed \subseteq Notification /\ excused \subseteq Sessions /\ of \in Sessions
      /\ elsewhere \subseteq Sessions
      /\ screen \subseteq Notification /\ bus \in Seq(Signal)
  BY DEF TypeOK, ChannelTypeOK
<1>2. CASE UNCHANGED <<left, asked, owed>>
  BY <1>1, <1>2 DEF asked
<1>3. CASE AsksFirst
  <2>1. /\ UNCHANGED <<left, owed, elsewhere>> /\ excused' \in {excused, excused \cup {of}}
        /\ follows' = follows \cup {of} /\ held' = held \cup {of}
    BY <1>3 DEF AsksFirst, Ask
  <2> QED
    BY <1>1, <2>1
<1>4. ASSUME NEW s \in Sessions, Settled(s)
      PROVE  /\ left' \subseteq Sessions /\ held' \subseteq Sessions /\ follows' \subseteq held'
             /\ owed' \subseteq Notification /\ excused' \subseteq Sessions /\ elsewhere' \subseteq Sessions
  <2>1. /\ UNCHANGED <<owed, follows, elsewhere>>
        /\ excused' \in {excused, excused \cup {s}}
        /\ left' \in {left, left \cup {s}} /\ held' \in {held, held \cup {s}}
    BY <1>4 DEF Settled, Ask, asked
  <2> QED
    BY <1>1, <2>1
<1>5. CASE DealtWith \/ Reveal \/ Insists \/ Settles
  <2>1. /\ left' \subseteq left /\ owed' \subseteq owed /\ elsewhere' \subseteq elsewhere
        /\ excused' \subseteq excused \cup (held \cap {Answered})
        /\ \/ UNCHANGED <<held, follows>>
           \/ held' = held \ {Answered} /\ follows' = follows \ {Answered}
    BY <1>5 DEF DealtWith, Reveal, Insists, Settles, StopAsking, Ask, Owing, asked
  <2> QED
    BY <1>1, <2>1
<1>6. CASE LetGo \/ StandDown
  <2>1. PICK gone : StopAsking(gone)
    BY <1>6 DEF LetGo, StandDown
  <2>2. left' = left
    BY <1>6 DEF LetGo, StandDown
  <2> QED
    BY <1>1, <2>1, <2>2 DEF StopAsking, Owing
<1>7. CASE Hears
  <2>1. bus # <<>>
    BY <1>7 DEF Hears, Listen
  <2>2. Head(bus) \in Signal
    BY <1>1, <2>1, OneFewer
  <2>3. Head(bus).of.about \in Sessions
    BY <2>2, Parts
  <2>4. UNCHANGED <<left, held, follows, elsewhere>> /\ owed' \subseteq owed
        /\ excused' \subseteq excused \cup {Head(bus).of.about}
    BY <1>7 DEF Hears
  <2> QED
    BY <1>1, <2>3, <2>4
<1>8. ASSUME NEW n \in screen, Presses(n) \/ Closes(n)
      PROVE  /\ left' \subseteq Sessions /\ held' \subseteq Sessions /\ follows' \subseteq held'
             /\ owed' \subseteq Notification /\ excused' \subseteq Sessions /\ elsewhere' \subseteq Sessions
  <2>1. n \in Notification /\ n.about \in Sessions
    BY <1>1, Parts
  <2>2. UNCHANGED <<left, held, follows, elsewhere>> /\ owed' \subseteq owed \cup {n}
        /\ excused' \subseteq excused \cup {n.about}
    BY <1>8 DEF Presses, Closes, asked
  <2> QED
    BY <1>1, <2>1, <2>2
<1>9. ASSUME NEW s \in Sessions, Command(s)
      PROVE  /\ left' \subseteq Sessions /\ held' \subseteq Sessions /\ follows' \subseteq held'
             /\ owed' \subseteq Notification /\ excused' \subseteq Sessions /\ elsewhere' \subseteq Sessions
  <2>1. /\ left' \subseteq left /\ UNCHANGED <<held, follows, excused, owed>>
        /\ elsewhere' \subseteq elsewhere \cup held
    BY <1>9 DEF Command
  <2> QED
    BY <1>1, <2>1
<1>10. CASE \/ Requests \/ (Opening /\ ~AsksFirst) \/ Asked \/ PumpAll \/ TakeAnswers
            \/ ShowAndTake \/ SeeOut \/ Redresses \/ Restarts \/ PulseEnds \/ SeesBox \/ AtTheIcon
            \/ (\E s \in Sessions : PressesStuck(s)) \/ UNCHANGED vars
  BY <1>2, <1>10 DEF Requests, Tick, Disconnected, Request, Close, Opening, NothingToOpen, RecoverFails, Opens,
       Refuses, Misrepresents, Stay, Asked, PumpAll, TakeAnswers, ShowAndTake, SeeOut, Redresses,
       Restarts, PulseEnds, SeesBox, AtTheIcon, PressesStuck, asked, vars
<1> QED
  BY <1>3, <1>4, <1>5, <1>6, <1>7, <1>8, <1>9, <1>10
  DEF Next, Loop, Turn, Answering, Standing, Person

(***************************************************************************)
(* What a person picks, and what is put down.                              *)
(***************************************************************************)
\* One list begins another.
Begins(p, q) == Len(p) <= Len(q) /\ \A i \in DOMAIN p : p[i] = q[i]

\* What was chosen is what a line picked may have stood for; and a menu that nothing
\* has gone from begins both what is shown and what is wrong by now, so that a
\* line of it is a position in either.
Faithful ==
    /\ \A t \in Trouble : PutDown(t) \in Chosen => t \in meant
    /\ menu # <<>> /\ ~stale => Begins(menu, shown.troubles) /\ Begins(menu, troubles)

LEMMA Beginning ==
    ASSUME NEW p \in Seq(Trouble), NEW q \in Seq(Trouble), Ext!IsPrefix(p, q)
    PROVE  Begins(p, q)
<1>1. Len(p) <= Len(q) /\ SubSeq(p, 1, Len(p)) = SubSeq(q, 1, Len(p))
  BY DEF Ext!IsPrefix
<1>2. \A i \in 1 .. Len(p) : SubSeq(p, 1, Len(p))[i] = p[i] /\ SubSeq(q, 1, Len(p))[i] = q[i]
  BY <1>1
<1> QED
  BY <1>1, <1>2 DEF Begins

\* A note is made at the end.
LEMMA NotedAfter ==
    ASSUME troubles \in Seq(Trouble), NEW new, new \subseteq Trouble, IsFiniteSet(new)
    PROVE  Begins(troubles, Noted(new))
<1> DEFINE q == Ext!SetToSeq(new \ AllOf(troubles))
<1>1. IsFiniteSet(new \ AllOf(troubles))
  BY FS_Subset
<1>2. q \in Seq(new \ AllOf(troubles))
  BY <1>1, Listing
<1>3. Noted(new) = troubles \o q
  BY DEF Noted
<1> HIDE DEF q
<1>4. q \in Seq(Trouble)
  BY <1>2
<1>5. Len(troubles) <= Len(troubles \o q) /\ \A i \in DOMAIN troubles : (troubles \o q)[i] = troubles[i]
  BY <1>4
<1> QED
  BY <1>3, <1>5 DEF Begins

\* Where none of a list is meant, it stays as it is.
LEMMA DismissingNone ==
    ASSUME NEW from \in Seq(Trouble), NEW gone, AllOf(from) \cap gone = {}
    PROVE  Dismiss(gone, from) = from
<1> DEFINE kept == {i \in DOMAIN from : from[i] \notin gone}
           l == Len(from)
           rank(i) == Cardinality({j \in kept : j <= i})
           at(k) == CHOOSE i \in kept : rank(i) = k
<1>1. l \in Nat /\ kept = 1 .. l
  BY DEF AllOf
<1>2. Cardinality(kept) = l
  <2>1. Cardinality(1 .. l) = l
    BY <1>1, FS_Interval
  <2> QED
    BY Zenon, <1>1, <2>1
<1>3. ASSUME NEW i \in 1 .. l PROVE rank(i) = i
  <2>1. {j \in 1 .. l : j <= i} = 1 .. i
    BY <1>1
  <2>2. Cardinality(1 .. i) = i
    BY FS_Interval
  <2> QED
    BY <1>1, <2>1, <2>2
<1>4. Dismiss(gone, from) = [k \in 1 .. Cardinality(kept) |-> from[at(k)]]
  BY DEF Dismiss
<1> HIDE DEF kept, rank
<1>5. \A k \in 1 .. l : at(k) = k
  BY <1>1, <1>3
<1> HIDE DEF at
<1>6. Dismiss(gone, from) = [k \in 1 .. l |-> from[k]]
  BY <1>2, <1>4, <1>5
<1>7. from = [k \in 1 .. l |-> from[k]]
  OBVIOUS
<1> QED
  BY <1>6, <1>7

LEMMA BeginsAll == ASSUME NEW p \in Seq(Trouble), NEW q \in Seq(Trouble), NEW r \in Seq(Trouble)
                   PROVE  Begins(p, p) /\ (Begins(p, q) /\ Begins(q, r) => Begins(p, r))
  BY DEF Begins

\* What is wrong only grows at the end, or something has gone from it.
LEMMA Grows ==
    ASSUME TypeOK, [Next]_vars, AllOf(troubles) \ AllOf(troubles') = {}
    PROVE  Begins(troubles, troubles')
<1>1. /\ troubles \in Seq(Trouble) /\ of \in Sessions
  BY DEF TypeOK
<1>2. CASE UNCHANGED troubles
  BY <1>1, <1>2, BeginsAll
<1>3. ASSUME NEW kind \in Kinds, NEW s \in Sessions, Note(Named(kind, {s}))
      PROVE  Begins(troubles, troubles')
  <2> DEFINE new == Named(kind, {s})
  <2>1. new \subseteq Trouble /\ IsFiniteSet(new)
    BY Naming
  <2>2. troubles' = Noted(new)
    BY <1>3 DEF Note
  <2> HIDE DEF new
  <2> QED
    BY <1>1, <2>1, <2>2, NotedAfter
<1>4. CASE RecoverFails \/ Refuses \/ Misrepresents
  <2>1. \E kind \in Kinds : Note(Named(kind, {of}))
    BY <1>4 DEF RecoverFails, Refuses, Misrepresents, Kinds
  <2> QED
    BY <1>1, <1>3, <2>1
<1>5. ASSUME NEW s \in Sessions, Settled(s) PROVE Begins(troubles, troubles')
  <2>1. UNCHANGED troubles \/ Note(Named("recover", {s}))
    BY <1>5 DEF Settled
  <2> QED
    BY <1>2, <1>3, <2>1 DEF Kinds
<1>6. CASE PumpAll
  <2>1. PICK landed \in SUBSET IsOpen : \E failed \in SUBSET (IsOpen \ landed) :
          troubles' = Dismiss(Named("writeback", landed), Noted(Named("writeback", failed)))
    BY <1>6 DEF PumpAll
  <2>2. PICK failed \in SUBSET (IsOpen \ landed) :
          troubles' = Dismiss(Named("writeback", landed), Noted(Named("writeback", failed)))
    BY <2>1
  <2> DEFINE new == Named("writeback", failed)
             gone == Named("writeback", landed)
             noted == Noted(new)
  <2>3. new \subseteq Trouble /\ IsFiniteSet(new)
    BY Naming DEF Kinds, IsOpen
  <2>4. new \cap gone = {}
    BY DEF Named
  <2>5. troubles' = Dismiss(gone, noted)
    BY <2>2
  <2> HIDE DEF new, gone
  <2>6. /\ noted \in Seq(Trouble) /\ AllOf(noted) = AllOf(troubles) \cup new
        /\ Begins(troubles, noted)
    BY <1>1, <2>3, Noting, NotedAfter
  <2> HIDE DEF noted
  <2>7. AllOf(troubles') = AllOf(noted) \ gone
    BY <2>5, <2>6, Dismissing
  <2>8. AllOf(noted) \cap gone = {}
    BY <2>4, <2>6, <2>7
  <2> QED
    BY <2>5, <2>6, <2>8, DismissingNone
<1>7. CASE ShowAndTake
  <2> DEFINE gone == {t \in Trouble : PutDown(t) \in Chosen}
  <2>1. troubles' = Dismiss(gone, troubles)
    BY <1>7 DEF ShowAndTake
  <2> HIDE DEF gone
  <2>2. AllOf(troubles') = AllOf(troubles) \ gone
    BY <1>1, <2>1, Dismissing
  <2>3. AllOf(troubles) \cap gone = {}
    BY <2>2
  <2> QED
    BY <1>1, <2>1, <2>3, DismissingNone, BeginsAll
<1>8. CASE \/ Requests \/ NothingToOpen \/ AsksFirst \/ Opens \/ Stay
           \/ Asked \/ Answering \/ LetGo \/ StandDown \/ SeeOut
  BY <1>2, <1>8 DEF Requests, Tick, Disconnected, Request, Close, NothingToOpen, AsksFirst, Opens,
       Stay, Asked, Answering, TakeAnswers, DealtWith, Reveal, Insists, Settles, LetGo, StandDown,
       SeeOut, shows
<1>9. CASE Hears \/ Redresses \/ Restarts \/ PulseEnds \/ Person \/ UNCHANGED vars
  BY <1>2, <1>9 DEF Hears, Redresses, Restarts, PulseEnds, Person, Presses, Closes, SeesBox,
       AtTheIcon, Command, PressesStuck, LoopSame, shows, vars
<1> QED
  BY <1>4, <1>5, <1>6, <1>7, <1>8, <1>9 DEF Next, Loop, Opening, Turn, Standing

\* Where nothing is chosen, and the menu is the one there was.
LEMMA StillFaithful ==
    ASSUME TypeOK, Faithful, [Next]_vars, UNCHANGED <<chosen, menu, shown, meant>>,
           stale' = (stale \/ (menu # <<>> /\ AllOf(troubles) \ AllOf(troubles') # {}))
    PROVE  Faithful'
<1>1. \A t \in Trouble : PutDown(t) \in Chosen' => t \in meant'
  BY DEF Faithful, Chosen
<1>2. ASSUME menu' # <<>>, ~stale' PROVE Begins(menu', shown'.troubles) /\ Begins(menu', troubles')
  <2>1. /\ menu # <<>> /\ ~stale /\ AllOf(troubles) \ AllOf(troubles') = {}
        /\ menu' = menu /\ shown' = shown
    BY <1>2
  <2>2. Begins(menu, shown.troubles) /\ Begins(menu, troubles)
    BY <2>1 DEF Faithful
  <2>3. Begins(troubles, troubles')
    BY <2>1, Grows
  <2>4. menu \in Seq(Trouble) /\ troubles \in Seq(Trouble) /\ troubles' \in Seq(Trouble)
    BY TroublesStep DEF TypeOK, TrayTypeOK
  <2> QED
    BY <2>1, <2>2, <2>3, <2>4, BeginsAll
<1> QED
  BY <1>1, <1>2 DEF Faithful, Chosen

\* What leaves the list of troubles and the menu alone.
LEMMA UntouchedFaithful == ASSUME Faithful, UNCHANGED <<chosen, menu, shown, meant, stale, troubles>>
                           PROVE  Faithful'
<1>1. /\ \A t \in Trouble : PutDown(t) \in Chosen' => t \in meant'
      /\ menu' # <<>> /\ ~stale' => Begins(menu', shown'.troubles) /\ Begins(menu', troubles')
  BY DEF Faithful, Chosen
<1> QED
  BY <1>1 DEF Faithful

LEMMA FaithfulStep == TypeOK /\ Faithful /\ [Next]_vars => Faithful'
<1> SUFFICES ASSUME TypeOK, Faithful, [Next]_vars PROVE Faithful'
  OBVIOUS
<1>1. /\ troubles \in Seq(Trouble) /\ shown.troubles \in Seq(Trouble) /\ menu \in Seq(Trouble)
      /\ troubles' \in Seq(Trouble) /\ of \in Sessions /\ meant \subseteq Trouble
  BY TroublesStep DEF TypeOK, TrayTypeOK, Shown
<1>2. CASE \/ Requests \/ NothingToOpen \/ AsksFirst \/ Opens \/ Stay \/ Asked \/ Answering
           \/ LetGo \/ StandDown \/ SeeOut
  BY <1>2, UntouchedFaithful
  DEF Requests, Tick, Disconnected, Request, Close, NothingToOpen, AsksFirst, Opens, Stay, Asked,
      Answering, TakeAnswers, DealtWith, Reveal, Insists, Settles, LetGo, StandDown, SeeOut, shows,
      trayVars
<1>3. CASE \/ Hears \/ Redresses \/ Restarts \/ PulseEnds \/ SeesBox
           \/ (\E n \in screen : Presses(n) \/ Closes(n))
           \/ (\E s \in Sessions : Command(s) \/ PressesStuck(s)) \/ UNCHANGED vars
  BY <1>3, UntouchedFaithful
  DEF Hears, Redresses, Redress, Restarts, ShellRestarts, PulseEnds, SeesBox, Presses, Closes,
      Command, PressesStuck, LoopSame, shows, trayVars, vars
<1>4. CASE RecoverFails \/ Refuses \/ Misrepresents \/ \E s \in Sessions : Settled(s)
  <2>1. UNCHANGED <<chosen, menu, shown, meant, stale>>
    BY <1>4 DEF RecoverFails, Refuses, Misrepresents, Settled, trayVars
  <2>2. UNCHANGED troubles \/ \E kind \in Kinds, s \in Sessions : Note(Named(kind, {s}))
    BY <1>1, <1>4 DEF RecoverFails, Refuses, Misrepresents, Settled, Kinds
  <2>3. CASE UNCHANGED troubles
    BY <2>1, <2>3, UntouchedFaithful
  <2>4. ASSUME NEW kind \in Kinds, NEW s \in Sessions, Note(Named(kind, {s}))
        PROVE  Faithful'
    <3>1. AllOf(troubles) \ AllOf(troubles') = {}
      BY <1>1, <2>4, NotedOne
    <3>2. stale \in BOOLEAN
      BY DEF TypeOK, TrayTypeOK
    <3>3. stale' = (stale \/ (menu # <<>> /\ AllOf(troubles) \ AllOf(troubles') # {}))
      BY <2>1, <3>1, <3>2
    <3> QED
      BY <2>1, <3>3, StillFaithful
  <2> QED
    BY <2>2, <2>3, <2>4
<1>5. CASE PumpAll
  BY <1>5, StillFaithful DEF PumpAll, Outdated
<1>6. CASE ShowAndTake
  <2>1. /\ chosen' = <<>> /\ meant' = {} /\ menu' = menu
        /\ shown' = shown \/ shown' = Now
        /\ stale' = (stale \/ (menu # <<>> /\ AllOf(troubles) \ AllOf(troubles') # {}))
    BY <1>6 DEF ShowAndTake, Show, Taken, Outdated
  <2>2. Chosen' = {}
    BY <2>1 DEF Chosen, AllOf
  <2>3. ASSUME menu' # <<>>, ~stale' PROVE Begins(menu', shown'.troubles) /\ Begins(menu', troubles')
    <3>1. menu # <<>> /\ ~stale /\ AllOf(troubles) \ AllOf(troubles') = {}
      BY <2>1, <2>3
    <3>2. Begins(menu, shown.troubles) /\ Begins(menu, troubles)
      BY <3>1 DEF Faithful
    <3>3. Begins(troubles, troubles')
      BY <3>1, Grows
    <3>4. Now.troubles = troubles
      BY DEF Now
    <3>5. Begins(menu, shown'.troubles)
      BY <2>1, <3>2, <3>4
    <3> QED
      BY <1>1, <2>1, <3>2, <3>3, <3>5, BeginsAll
  <2> QED
    BY <2>2, <2>3 DEF Faithful
<1>7. CASE AtTheIcon
  <2>1. chosen = <<>> /\ troubles' = troubles /\ shown' = shown
    BY <1>7 DEF AtTheIcon, LoopSame, shows, Offer, Escape, Pick, PickQuit
  <2>2. CASE Offer(troubles)
    <3>1. /\ chosen' = <<>> /\ menu' = shown.troubles /\ meant' = meant
          /\ stale' = ~Ext!IsPrefix(shown.troubles, troubles)
      BY <2>1, <2>2 DEF Offer
    <3>2. Chosen' = {}
      BY <3>1 DEF Chosen, AllOf
    <3>3. ~stale' => Begins(menu', troubles')
      <4>1. ~stale' => Ext!IsPrefix(shown.troubles, troubles)
        BY Zenon, <3>1
      <4> QED
        BY <1>1, <2>1, <3>1, <4>1, Beginning
    <3>4. Begins(menu', shown'.troubles)
      BY <1>1, <2>1, <3>1, BeginsAll
    <3> QED
      BY <3>2, <3>3, <3>4 DEF Faithful
  <2>3. CASE Escape \/ PickQuit
    <3>1. menu' = <<>> /\ (chosen' = <<>> \/ chosen' = Append(<<>>, Quit))
      BY <2>1, <2>3 DEF Escape, PickQuit, Closed
    <3>2. Chosen' \subseteq {Quit}
      BY <3>1 DEF Chosen, AllOf
    <3>3. \A t : PutDown(t) # Quit
      BY DEF PutDown, Quit
    <3> QED
      BY <3>1, <3>2, <3>3 DEF Faithful
  <2>4. ASSUME NEW i \in DOMAIN menu, Pick(i) PROVE Faithful'
    <3>1. /\ menu' = <<>> /\ meant' = IF stale THEN Trouble ELSE {menu[i]}
          /\ chosen' = IF i \in DOMAIN shown.troubles
                       THEN Append(<<>>, PutDown(shown.troubles[i])) ELSE <<>>
      BY <2>1, <2>4 DEF Pick, Closed
    <3>2. \A x \in Chosen' : i \in DOMAIN shown.troubles /\ x = PutDown(shown.troubles[i])
      <4> DEFINE it == PutDown(shown.troubles[i])
      <4>1. chosen' = (IF i \in DOMAIN shown.troubles THEN Append(<<>>, it) ELSE <<>>)
        BY <3>1
      <4> HIDE DEF it
      <4>2. \A j \in DOMAIN chosen' : i \in DOMAIN shown.troubles /\ chosen'[j] = it
        BY <4>1
      <4> QED
        BY <4>2 DEF Chosen, AllOf, it
    <3>3. ~stale => (i \in DOMAIN shown.troubles /\ shown.troubles[i] = menu[i])
      <4>1. menu # <<>>
        BY <1>1
      <4>2. ~stale => Begins(menu, shown.troubles)
        BY <4>1 DEF Faithful
      <4> QED
        BY <1>1, <4>2 DEF Begins
    <3>4. ASSUME NEW t \in Trouble, PutDown(t) \in Chosen' PROVE t \in meant'
      <4>1. PutDown(t) = PutDown(shown.troubles[i])
        BY <3>2, <3>4
      <4>2. t = shown.troubles[i]
        BY <4>1 DEF PutDown
      <4> QED
        BY <3>1, <3>3, <4>2
    <3> QED
      BY <3>1, <3>4 DEF Faithful
  <2> QED
    BY <1>7, <2>2, <2>3, <2>4 DEF AtTheIcon
<1> QED
  BY <1>2, <1>3, <1>4, <1>5, <1>6, <1>7 DEF Next, Loop, Opening, Turn, Standing, Person

(***************************************************************************)
(* The theorems.                                                           *)
(***************************************************************************)
\* Types, and the bound on the list of troubles: what a note adds and a dismissal
\* leaves is a list of troubles again, and what is shown is something to show.
THEOREM Types == Spec => []TypeOK
<1>1. Init => TypeOK
  <2> SUFFICES ASSUME Init PROVE TypeOK
    OBVIOUS
  <2>1. Nothing \in Shown /\ "Settled" \in Moods
    BY DEF Nothing, Shown, Moods
  <2>2. \A S : <<>> \in Seq(S)
    OBVIOUS
  <2>3. ChannelTypeOK
    BY <2>2 DEF Init, ChannelInit, ChannelTypeOK
  <2>4. TrayTypeOK
    <3>1. shown \in Shown /\ icon \in Moods /\ menu \in Seq(Trouble)
      BY <2>1, <2>2 DEF Init, TrayInit
    <3>2. chosen \in Seq({PutDown(t) : t \in Trouble} \cup {Quit})
      BY <2>2 DEF Init, TrayInit
    <3> QED
      BY <3>1, <3>2 DEF Init, TrayInit, TrayTypeOK
  <2>5. session \in [Sessions -> {"none", "open", "lingering"}]
    BY DEF Init
  <2>6. batch \in Seq(Answer) /\ troubles \in Seq(Trouble) /\ Len(troubles) <= world.troubles
    BY <2>2, PresenceAssumption DEF Init
  <2>7. pc \in Places /\ back \in Places
    BY DEF Init, Places
  <2> QED
    BY <2>3, <2>4, <2>5, <2>6, <2>7 DEF Init, TypeOK
<1>2. TypeOK /\ IndInv' /\ [Next]_vars => TypeOK'
  <2> SUFFICES ASSUME TypeOK, IndInv', [Next]_vars PROVE TypeOK'
    OBVIOUS
  <2>1. ChannelTypeOK' /\ (batch \in Seq(Answer))'
    BY DEF IndInv, OnScreen, InHand
  <2>2. TrayTypeOK' /\ world' \in Worlds
    BY TrayStep, WorldStays DEF TypeOK
  <2> QED
    BY <2>1, <2>2, WorldStays, TroublesStep, PlaceStep, SessionStep, QuestionStep DEF TypeOK
<1> QED
  BY <1>1, <1>2, Invariant, PTL DEF Spec

\* A trouble goes only where the person has picked that one, or where a save of its
\* own session is pumped and lands, however many there are and in whatever order
\* they came.  It goes with another's line only where the list has lost a trouble
\* between the menu's being opened and the pick: until then a line of the menu is
\* the same position in all three lists, what is shown, what is wrong, and the menu.
THEOREM TroublesKept == Spec => TroublesAreNotLost
<1>1. Init => Faithful
  BY DEF Init, TrayInit, Faithful, Chosen, AllOf
<1>2. TypeOK /\ Faithful /\ [Next]_vars => Faithful'
  BY FaithfulStep
<1>3. TypeOK /\ Faithful /\ [Next]_vars
        => [\A t \in AllOf(troubles) \ AllOf(troubles') :
              \/ pc = "show" /\ t \in meant
              \/ pc = "turn" /\ t.kind = "writeback" /\ session[t.of] = "open"]_vars
  <2> SUFFICES ASSUME TypeOK, Faithful, [Next]_vars, NEW t \in AllOf(troubles) \ AllOf(troubles')
               PROVE  \/ pc = "show" /\ t \in meant
                      \/ pc = "turn" /\ t.kind = "writeback" /\ session[t.of] = "open"
    OBVIOUS
  <2>1. \/ pc = "show" /\ PutDown(t) \in Chosen
        \/ pc = "turn" /\ t.kind = "writeback" /\ session[t.of] = "open"
    BY TroublesStep
  <2>2. t \in Trouble
    BY DEF TypeOK, AllOf
  <2> QED
    BY <2>1, <2>2 DEF Faithful
<1> QED
  BY <1>1, <1>2, <1>3, Types, PTL DEF Spec, TroublesAreNotLost

===============================================================================
