---------------------------- MODULE ResidentProofs ----------------------------
(***************************************************************************)
(* What holds of the resident instance for any number of containers,       *)
(* sessions and moves of other programs: the table never has two sessions  *)
(* of one path, nor of one file where it has not been left behind; there   *)
(* recovery leaves the live ones alone; and a question on a screen is one  *)
(* that is held.                                                           *)
(***************************************************************************)
EXTENDS Resident, FiniteSetTheorems, TLAPS

\* The sets that bound the model are numbers apart.
LEMMA Bounds == 1 .. Cardinality(Paths) \subseteq Files
  <1>1. Cardinality(Paths) \in Nat /\ Cardinality(Ids) \in Nat
    BY IdsAssumption, FS_CardinalityType
  <1> QED
    BY <1>1 DEF Files

Table == Seq(Entry)
Naming == [Paths -> Files \cup {Gone}]

\* An entry is taken from a sequence of them.
LEMMA EntryType == \A t \in Table : \A i \in DOMAIN t :
                      /\ t[i] \in Entry
                      /\ t[i].id \in Ids /\ t[i].path \in Paths /\ t[i].identity \in Files
  <1>1. \A t \in Table : \A i \in DOMAIN t : t[i] \in Entry
    BY DEF Table
  <1> QED
    BY <1>1 DEF Entry

\* Every entry has a session and a path, and the table has no others.
LEMMA Entries ==
    ASSUME table \in Table
    PROVE  /\ \A i \in DOMAIN table : /\ table[i].id \in Live /\ table[i].id \in Ids
                                      /\ table[i].path \in LivePaths /\ table[i].path \in Paths
                                      /\ table[i].identity \in Files
           /\ \A s \in Live : s \in Ids /\ \E i \in DOMAIN table : table[i].id = s
           /\ \A p \in LivePaths : p \in Paths /\ \E i \in DOMAIN table : table[i].path = p
  BY EntryType DEF Live, LivePaths

(***************************************************************************)
(* What the parts of actions do.                                           *)
(***************************************************************************)
\* The path p may have come to have a file that no path had; no other has changed.
Refiled(p) ==
    /\ file' \in Naming
    /\ \A q \in Paths : q # p => file'[q] = file[q]
    /\ file'[p] = file[p] \/ (file'[p] # Gone /\ \A q \in Paths : file[q] # file'[p])

LEMMA Replaced ==
    ASSUME TypeOK, NEW p \in Paths, UNCHANGED file \/ Replaces(p) PROVE Refiled(p)
<1>1. CASE UNCHANGED file
  BY <1>1 DEF Refiled, TypeOK, Naming
<1>2. CASE Replaces(p)
  <2>1. PICK f \in Files : (\A q \in Paths : file[q] # f) /\ file' = [file EXCEPT ![p] = f]
    BY <1>2 DEF Replaces, Unnamed
  <2>2. f # Gone
    BY <2>1, IdsAssumption, FS_CardinalityType DEF Files, Gone
  <2> QED
    BY <2>1, <2>2 DEF Refiled, TypeOK, Naming
<1> QED
  BY <1>1, <1>2

\* What becomes of the directories when one session is written back, removed or
\* left alone: only its own may go.
OnlyOf(s) == /\ state' \in [Ids -> States]
             /\ \A t \in Ids : t # s /\ state[t] # "none" => state'[t] # "none"
LEMMA Directories ==
    ASSUME TypeOK, NEW s \in Ids,
           \/ \E after \in {"none", "Unchanged"} : Writes(s, after)
           \/ Removes(s) \/ Keeps \/ Fails(s)
    PROVE  /\ OnlyOf(s) /\ Refiled(at[s])
           /\ Writes(s, "Unchanged") \/ Keeps \/ Fails(s) =>
                (state[s] # "none" => state'[s] # "none")
<1>0. at[s] \in Paths
  BY DEF TypeOK
<1>1. ASSUME NEW after \in {"none", "Unchanged"}, Writes(s, after)
      PROVE  OnlyOf(s) /\ Replaces(at[s]) /\ state'[s] = after
  BY <1>1 DEF Writes, OnlyOf, TypeOK, States
<1>2. Removes(s) => OnlyOf(s) /\ UNCHANGED file
  BY DEF Removes, OnlyOf, TypeOK, States
<1>3. Keeps => OnlyOf(s) /\ UNCHANGED <<file, state>>
  BY DEF Keeps, OnlyOf, TypeOK, States
<1>4. Fails(s) => Keeps \/ Writes(s, "Unchanged")
  BY DEF Fails
<1>5. OnlyOf(s) /\ (UNCHANGED file \/ Replaces(at[s]))
  BY <1>1, <1>2, <1>3, <1>4
<1>6. Refiled(at[s])
  BY <1>0, <1>5, Replaced
<1>7. Writes(s, "Unchanged") \/ Keeps \/ Fails(s) => (state[s] # "none" => state'[s] # "none")
  BY <1>1, <1>3, <1>4
<1> QED
  BY <1>5, <1>6, <1>7

(***************************************************************************)
(* One step of each kind.                                                  *)
(***************************************************************************)
\* A session that lingers is not live; and one that is live and asked about, or
\* is a leftover of the file an open is looking for, is on a path on which the
\* table has been left behind.
LEMMA NotLive ==
    ASSUME IndInv
    PROVE  /\ \A s \in lingering : s \notin Live
           /\ \A s \in Abouts : s \in Live => at[s] \in unnoticed
           /\ \A s \in Ids : todo # None /\ s \in ToLook /\ s \in Live => at[s] \in unnoticed
<1>1. \A s \in Live : s \in Ids /\ at[s] \in LivePaths
  BY Entries DEF IndInv, TypeOK, Table, Distinct
<1>2. \A s \in Ids : todo # None /\ s \in ToLook /\ s \in Live => at[s] \in unnoticed
  BY <1>1 DEF IndInv, ClearOf, Noted, ToLook
<1> QED
  BY <1>2 DEF IndInv, NotBoth, LiveIsNotRecovered

\* A question put among those held is about its session, and no other is.
LEMMA Raised ==
    ASSUME NEW s, NEW then, pending' = pending \cup {[about |-> s, then |-> then]}
    PROVE  Abouts' = Abouts \cup {s}
<1> DEFINE q == [about |-> s, then |-> then]
<1>1. q.about = s
  OBVIOUS
<1> HIDE DEF q
<1>2. pending' = pending \cup {q}
  BY DEF q
<1>3. ASSUME NEW x PROVE x \in Abouts' <=> x \in Abouts \cup {s}
  BY <1>1, <1>2 DEF Abouts
<1> QED
  BY <1>3

\* Steps that leave the table alone, and take note of every file put at one of
\* its paths: what they owe the invariant.
LEMMA TableKept ==
    ASSUME IndInv, UNCHANGED <<table, due>>, TypeOK', ClearOf', NoDeadButtons',
           \A s \in Live : at'[s] = at[s],
           \A p \in LivePaths : p \notin unnoticed' => p \notin unnoticed /\ file'[p] = file[p],
           \A s \in Live : at[s] \notin unnoticed' =>
                              state'[s] # "none" /\ s \notin lingering' \cup Abouts',
           \A s \in Live : s \notin lingering'
    PROVE  IndInv'
<1>1. Live' = Live /\ LivePaths' = LivePaths
  BY DEF Live, LivePaths
<1>2. table \in Table
  BY DEF IndInv, TypeOK, Table
<1>3. LiveIsNotRecovered' /\ NotBoth'
  BY <1>1 DEF LiveIsNotRecovered, NotBoth
<1>4. Distinct'
  BY <1>2, Entries DEF IndInv, Distinct
<1>5. \A p \in Noted' : p \in Noted /\ file'[p] = file[p]
  BY <1>1 DEF Noted
<1>6. Current'
  BY <1>2, <1>5, Entries DEF IndInv, Current, Noted
<1> QED
  BY <1>3, <1>4, <1>6 DEF IndInv

\* Of those, the ones that settle or recover a session s: where s is live, its
\* path is one the table had been left behind on.
LEMMA Recovers ==
    ASSUME IndInv, NEW s \in Ids, UNCHANGED <<table, at, due>>,
           OnlyOf(s), Refiled(at[s]), s \in Live => at[s] \in unnoticed,
           \A p \in LivePaths : p \notin unnoticed' =>
               p \notin unnoticed /\ (s \notin Live => file'[p] = file[p]),
           lingering' \subseteq lingering, Abouts' \subseteq Abouts \cup {s},
           TypeOK', NoDeadButtons'
    PROVE  /\ \A p \in LivePaths : p \notin unnoticed' => p \notin unnoticed /\ file'[p] = file[p]
           /\ ClearOf' => IndInv'
<1>0. table \in Table /\ at \in [Ids -> Paths]
  BY DEF IndInv, TypeOK, Table
<1>1. \A t \in Live : t \in Ids /\ at[t] \in LivePaths
  BY <1>0, Entries DEF IndInv, Distinct
<1>2. \A p \in LivePaths : p \in Paths
  BY <1>0, Entries
<1>3. \A p \in LivePaths : p \notin unnoticed' => p \notin unnoticed /\ file'[p] = file[p]
  BY <1>1, <1>2 DEF Refiled
<1>4. \A t \in Live : t \notin lingering'
  BY NotLive
<1>5. ASSUME NEW t \in Live, at[t] \notin unnoticed'
      PROVE  state'[t] # "none" /\ t \notin lingering' \cup Abouts'
  <2>1. at[t] \notin unnoticed /\ t # s
    BY <1>1, <1>5
  <2> QED
    BY <1>1, <1>4, <2>1 DEF OnlyOf, IndInv, LiveIsNotRecovered
<1> QED
  BY <1>3, <1>4, <1>5, TableKept

\* An open under way stays clear of the table while the files at its paths are
\* what they were, and what is put at the open's own path is new.
LEMMA Clears ==
    ASSUME IndInv, UNCHANGED <<table, due>>, NEW r \in Paths, Refiled(r),
           todo' = None \/ (todo' \in Todo /\ todo # None
                              /\ todo'.path = todo.path /\ todo'.want = todo.want),
           unnoticed \subseteq unnoticed',
           \A p \in LivePaths : p \notin unnoticed' => file'[p] = file[p]
    PROVE  ClearOf'
<1>1. CASE todo' = None
  BY <1>1 DEF ClearOf
<1>2. CASE todo' # None
  <2>1. LivePaths' = LivePaths /\ LivePaths \subseteq Paths
    BY Entries DEF LivePaths, IndInv, TypeOK, Table
  <2>2. \A p \in Noted' : p \in Noted /\ p \in Paths /\ file'[p] = file[p]
    BY <2>1 DEF Noted
  <2>3. todo.path \in Paths /\ todo.path \notin LivePaths /\ due = {}
    BY <1>2 DEF IndInv, TypeOK, ClearOf, Todo
  <2>4. ASSUME todo'.path \notin unnoticed', NEW p \in Noted'
        PROVE  file'[p] # file'[todo'.path]
    <3>1. file[p] # file[todo.path]
      BY <1>2, <2>2, <2>4 DEF IndInv, ClearOf
    <3> QED
      BY <1>2, <2>2, <2>3, <3>1 DEF Refiled
  <2>5. \A p \in Noted' : file'[p] # todo'.want
    BY <1>2, <2>2 DEF IndInv, ClearOf
  <2> QED
    BY <1>2, <2>1, <2>3, <2>4, <2>5 DEF ClearOf
<1> QED
  BY <1>1, <1>2

LEMMA OpenStep == ASSUME IndInv, NEW p \in Paths, Open(p) PROVE IndInv'
<1>0. table \in Table /\ file \in Naming
  BY DEF IndInv, TypeOK, Table, Naming
<1>1. /\ UNCHANGED <<world, table, at, file, state, due, lingering, shown, pending, up, standing>>
      /\ todo' = [path |-> p, want |-> file[p], looked |-> {}]
      /\ unnoticed' = unnoticed \ {p} /\ due = {}
      /\ file[p] # Gone /\ Found(p) = {}
  BY DEF Open, Begin, Turn, world, Changed
<1>2. \A i \in DOMAIN table : table[i].path # p /\ table[i].identity # file[p]
  BY <1>1 DEF Found, Matches
<1>3. p \notin LivePaths
  BY <1>0, <1>2, Entries
<1>4. LivePaths' = LivePaths /\ Noted' = Noted /\ todo'.path = p /\ todo'.want = file[p]
  BY <1>1, <1>3 DEF LivePaths, Noted
<1>5. \A q \in Noted : file[q] # file[p]
  BY <1>0, <1>1, <1>2, Entries DEF IndInv, Current, Noted
<1>6. ClearOf'
  BY <1>1, <1>3, <1>4, <1>5 DEF ClearOf
<1>7. TypeOK'
  <2>1. todo' \in Todo
    BY <1>0, <1>1 DEF Todo, Naming
  <2> QED
    BY <1>1, <2>1 DEF IndInv, TypeOK, world
<1>8. Abouts' = Abouts /\ NoDeadButtons'
  BY <1>1 DEF Abouts, NoDeadButtons, IndInv
<1>9. \A s \in Live : at[s] \in LivePaths
  BY <1>0, Entries DEF IndInv, Distinct
<1> QED
  BY <1>1, <1>3, <1>6, <1>7, <1>8, <1>9, TableKept DEF IndInv, LiveIsNotRecovered, NotBoth

LEMMA LookStep == ASSUME IndInv, NEW s \in Ids, Look(s) PROVE IndInv'
<1> USE DEF IndInv, TypeOK
<1>0. todo # None /\ todo \in Todo /\ s \in ToLook /\ (s \in Live => at[s] \in unnoticed)
      /\ at[s] \in Paths
  BY NotLive DEF Look
<1>1. /\ UNCHANGED <<table, at, due, lingering, working, moves, up, standing>>
      /\ PutBack(s) \/ Keeps
      /\ UnnotedFrom(s)
  BY DEF Look
<1>2. OnlyOf(s) /\ Refiled(at[s])
  BY <1>1, Directories DEF PutBack
<1>3. todo' = None \/ todo' = [todo EXCEPT !.looked = @ \cup {s}]
  BY DEF Look
<1>4. \/ UNCHANGED <<pending, shown>>
      \/ /\ pending' = pending \cup {[about |-> s, then |-> todo.path]}
         /\ shown' = shown \cup {s}
  BY DEF Look
<1>5. pending' \subseteq Pending /\ shown' \subseteq Ids
  BY <1>0, <1>4 DEF Pending, Todo
<1>6. todo' = None \/ (todo' \in Todo /\ todo'.path = todo.path /\ todo'.want = todo.want)
  BY <1>0, <1>3 DEF Todo
<1>7. unnoticed' \subseteq Paths /\ unnoticed \subseteq unnoticed'
  <2>1. LivePaths \subseteq Paths
    BY Entries DEF Table
  <2> QED
    BY <1>1, <2>1 DEF UnnotedFrom, Changed
<1>8. TypeOK'
  BY <1>1, <1>2, <1>5, <1>6, <1>7 DEF OnlyOf, Refiled, Naming
<1>9. Abouts' \subseteq Abouts \cup {s} /\ NoDeadButtons'
  <2>1. CASE UNCHANGED <<pending, shown>>
    BY <2>1 DEF Abouts, NoDeadButtons
  <2>2. CASE /\ pending' = pending \cup {[about |-> s, then |-> todo.path]}
             /\ shown' = shown \cup {s}
    <3>1. Abouts' = Abouts \cup {s}
      BY <2>2, Raised
    <3> QED
      BY <2>2, <3>1 DEF NoDeadButtons
  <2> QED
    BY <1>4, <2>1, <2>2
<1>10. \A p \in LivePaths : p \notin unnoticed' =>
           p \notin unnoticed /\ (s \notin Live => file'[p] = file[p])
  BY <1>1 DEF UnnotedFrom, Changed
<1> HIDE DEF IndInv, TypeOK
<1>11. /\ \A p \in LivePaths : p \notin unnoticed' => p \notin unnoticed /\ file'[p] = file[p]
       /\ ClearOf' => IndInv'
  BY <1>0, <1>1, <1>2, <1>8, <1>9, <1>10, Recovers
<1>12. ClearOf'
  BY <1>0, <1>1, <1>2, <1>6, <1>7, <1>11, Clears
<1> QED
  BY <1>11, <1>12

LEMMA FreshStep == ASSUME IndInv, Fresh PROVE IndInv'
<1> USE DEF IndInv, TypeOK
<1>0. /\ UNCHANGED <<file, working, moves, up, standing, due, lingering, pending, shown, unnoticed>>
      /\ todo # None /\ todo \in Todo /\ todo' = None /\ todo.path \in Paths
      /\ due = {} /\ todo.path \notin LivePaths
  BY DEF Fresh, ClearOf, Todo
<1>1. ClearOf' /\ NoDeadButtons' /\ Abouts' = Abouts
  BY <1>0 DEF ClearOf, NoDeadButtons, Abouts
<1>2. table \in Table
  BY DEF Table
<1>3. CASE UNCHANGED <<at, state, table>>
  <2>1. TypeOK'
    BY <1>0, <1>3
  <2>2. \A s \in Live : s \notin lingering' /\
            (at[s] \notin unnoticed' => state'[s] # "none" /\ s \notin lingering' \cup Abouts')
    BY <1>0, <1>1, <1>3 DEF LiveIsNotRecovered, NotBoth
  <2> QED
    BY <1>0, <1>1, <1>3, <2>1, <2>2, TableKept
<1>4. ASSUME NEW s \in Ids, Unused(s),
             at' = [at EXCEPT ![s] = todo.path],
             state' = [state EXCEPT ![s] = "Unchanged"], UNCHANGED table
      PROVE  IndInv'
  <2>1. \A t \in Live : t \in Ids /\ t # s
    BY <1>2, <1>4, Entries DEF Unused
  <2>2. TypeOK'
    BY <1>0, <1>4 DEF States
  <2>3. \A t \in Live : at'[t] = at[t] /\ state'[t] = state[t]
    BY <1>4, <2>1
  <2>4. \A t \in Live : t \notin lingering' /\
            (at[t] \notin unnoticed' => state'[t] # "none" /\ t \notin lingering' \cup Abouts')
    BY <1>0, <1>1, <2>3 DEF LiveIsNotRecovered, NotBoth
  <2> QED
    BY <1>0, <1>1, <1>4, <2>2, <2>3, <2>4, TableKept
<1>5. ASSUME NEW s \in Ids, Unused(s), file[todo.path] # Gone,
             at' = [at EXCEPT ![s] = todo.path],
             state' = [state EXCEPT ![s] = "Unchanged"],
             table' = Append(table, [id |-> s, identity |-> file[todo.path], path |-> todo.path])
      PROVE  IndInv'
  <2> DEFINE e == [id |-> s, identity |-> file[todo.path], path |-> todo.path]
             n == Len(table) + 1
  <2>1. e \in Entry /\ e.id = s /\ e.path = todo.path /\ e.identity = file[todo.path]
    BY <1>0, <1>5 DEF Entry
  <2>2. table' = Append(table, e)
    BY <1>5
  <2> HIDE DEF e
  <2>3. /\ table' \in Table /\ n \in Nat
        /\ DOMAIN table' = DOMAIN table \cup {n} /\ n \notin DOMAIN table
        /\ table'[n] = e /\ \A i \in DOMAIN table : table'[i] = table[i]
    BY <2>1, <2>2 DEF Table
  <2> HIDE DEF n
  <2>4. Live' = Live \cup {s} /\ LivePaths' = LivePaths \cup {todo.path}
    BY <2>1, <2>3 DEF Live, LivePaths
  <2>5. \A i \in DOMAIN table : /\ table[i].id \in Ids /\ table[i].path \in LivePaths
                                /\ table[i].id # s /\ table[i].path # todo.path
    BY <1>0, <1>2, <1>5, Entries DEF Unused
  <2>6. \A t \in Live : t \in Ids /\ t # s
    BY <1>2, <1>5, Entries DEF Unused
  <2>7. Distinct'
    BY <1>5, <2>1, <2>3, <2>5 DEF Distinct
  <2>8. \A p \in Noted' : (p = todo.path /\ todo.path \notin unnoticed) \/ p \in Noted
    BY <1>0, <2>4 DEF Noted
  <2>9. Current'
    <3>1. \A i \in DOMAIN table' : table'[i].path \in Noted' \ due' =>
                                     table'[i].identity = file'[table'[i].path]
      BY <1>0, <2>1, <2>3, <2>5, <2>8 DEF Current
    <3>2. \A p, q \in Noted' : p # q => file'[p] # file'[q]
      BY <1>0, <2>8 DEF Current, ClearOf
    <3>3. \A p \in Noted' : file'[p] # Gone
      BY <1>0, <1>5, <2>8 DEF Current
    <3> QED
      BY <3>1, <3>2, <3>3 DEF Current
  <2>10. LiveIsNotRecovered' /\ NotBoth'
    BY <1>0, <1>1, <1>5, <2>4, <2>6 DEF LiveIsNotRecovered, NotBoth, Unused
  <2>11. TypeOK'
    BY <1>0, <1>5, <2>1, <2>3 DEF Table, States
  <2> QED
    BY <1>1, <2>7, <2>9, <2>10, <2>11
<1> QED
  BY <1>3, <1>4, <1>5 DEF Fresh

LEMMA PumpStep == ASSUME IndInv, NEW k \in DOMAIN table, Pump(k) PROVE IndInv'
<1> USE DEF IndInv, TypeOK
<1> DEFINE s == table[k].id
           p == table[k].path
<1>0. /\ table \in Table /\ s \in Ids /\ s \in Live /\ p \in Paths /\ p \in LivePaths /\ p = at[s]
  BY Entries DEF Table, Distinct
<1>1. /\ UNCHANGED <<at, working, moves, up, standing, table, lingering, pending, shown, todo>>
      /\ todo = None
      /\ \/ Writes(s, "Unchanged") /\ due' = due \cup {p} /\ UNCHANGED unnoticed
         \/ Fails(s) /\ Unnoted /\ UNCHANGED due
  BY DEF Pump
<1> HIDE DEF s, p
<1>2. /\ OnlyOf(s) /\ Refiled(p) /\ (state[s] # "none" => state'[s] # "none")
  BY <1>0, <1>1, Directories
<1>3. Live' = Live /\ LivePaths' = LivePaths /\ Abouts' = Abouts
  BY <1>1 DEF Live, LivePaths, Abouts
<1>4. \A t \in Live : t \in Ids /\ (state[t] # "none" => state'[t] # "none")
  BY <1>0, <1>2, Entries DEF OnlyOf
<1>5. ClearOf' /\ NoDeadButtons' /\ NotBoth'
  BY <1>1, <1>3 DEF ClearOf, NoDeadButtons, NotBoth
<1>6. unnoticed' \subseteq Paths /\ due' \subseteq Paths /\ unnoticed \subseteq unnoticed'
  BY <1>0, <1>1, Entries DEF Unnoted, Changed
<1>7. TypeOK'
  BY <1>1, <1>2, <1>6 DEF OnlyOf, Refiled, Naming
<1>8. LiveIsNotRecovered'
  BY <1>1, <1>3, <1>4, <1>6 DEF LiveIsNotRecovered
<1>9. Distinct'
  BY <1>1 DEF Distinct
<1>10. Current'
  <2>1. CASE Fails(s) /\ Unnoted /\ UNCHANGED due
    <3>1. \A q \in Noted' : q \in Noted /\ file'[q] = file[q]
      BY <1>3, <2>1 DEF Noted, Unnoted, Changed
    <3> QED
      BY <1>0, <1>1, <2>1, <3>1, Entries DEF Current
  <2>2. CASE Writes(s, "Unchanged") /\ due' = due \cup {p} /\ UNCHANGED unnoticed
    <3>1. Noted' = Noted /\ \A q \in Noted : q \in Paths /\ (q # p => file'[q] = file[q])
      BY <1>0, <1>2, <1>3, <2>2, Entries DEF Noted, Refiled
    <3>2. \A i \in DOMAIN table' : table'[i].path \in Noted' \ due' =>
                                     table'[i].identity = file'[table'[i].path]
      BY <1>1, <2>2, <3>1 DEF Current
    <3>3. \A q, r \in Noted' : q # r => file'[q] # file'[r]
      BY <1>2, <3>1 DEF Current, Refiled
    <3>4. \A q \in Noted' : file'[q] # Gone
      BY <1>2, <3>1 DEF Current, Refiled
    <3> QED
      BY <3>2, <3>3, <3>4 DEF Current
  <2> QED
    BY <1>1, <2>1, <2>2
<1> QED
  BY <1>5, <1>7, <1>8, <1>9, <1>10

LEMMA RefreshStep == ASSUME IndInv, NEW k \in DOMAIN table, Refresh(k) PROVE IndInv'
<1> USE DEF IndInv, TypeOK
<1>0. /\ table \in Table /\ table[k].path \in Paths /\ table[k].path \in due
      /\ UNCHANGED <<world, file, at, state, working, moves, up, standing, lingering, pending,
                     shown, todo, unnoticed>>
      /\ due' = due \ {table[k].path}
  BY Entries DEF Table, Refresh, world
<1>1. todo = None
  BY <1>0 DEF ClearOf
<1>2. /\ table' \in Table /\ DOMAIN table' = DOMAIN table
      /\ \A i \in DOMAIN table :
           /\ table'[i].id = table[i].id /\ table'[i].path = table[i].path
           /\ table'[i].identity = IF i = k /\ file[table[k].path] # Gone
                                   THEN file[table[k].path] ELSE table[i].identity
  <2>1. CASE file[table[k].path] = Gone
    BY <1>0, <2>1 DEF Refresh, Notes
  <2>2. CASE file[table[k].path] # Gone
    <3>1. file[table[k].path] \in Files
      BY <1>0, <2>2
    <3>2. [table[k] EXCEPT !.identity = file[table[k].path]] \in Entry
      BY <1>0, <3>1, EntryType DEF Entry
    <3>3. table' = [table EXCEPT ![k].identity = file[table[k].path]]
      BY <2>2 DEF Refresh, Notes
    <3>4. \A i \in DOMAIN table : table[i] \in Entry
      BY <1>0, EntryType
    <3>5. table' \in Table /\ DOMAIN table' = DOMAIN table
      BY <1>0, <3>2, <3>3 DEF Table
    <3> QED
      BY <2>2, <3>3, <3>4, <3>5 DEF Entry
  <2> QED
    BY <2>1, <2>2
<1>3. Live' = Live /\ LivePaths' = LivePaths /\ Abouts' = Abouts
  BY <1>0, <1>2 DEF Live, LivePaths, Abouts
<1>4. Noted' = Noted
  BY <1>0, <1>3 DEF Noted
<1>5. Distinct'
  BY <1>0, <1>2 DEF Distinct
<1>6. Current'
  <2>1. \A i \in DOMAIN table' : table'[i].path \in Noted' \ due' =>
                                   table'[i].identity = file'[table'[i].path]
    BY <1>0, <1>2, <1>4 DEF Current, Distinct
  <2> QED
    BY <1>0, <1>4, <2>1 DEF Current
<1>7. ClearOf' /\ NoDeadButtons' /\ NotBoth' /\ LiveIsNotRecovered'
  BY <1>0, <1>1, <1>3 DEF ClearOf, NoDeadButtons, NotBoth, LiveIsNotRecovered
<1>8. TypeOK'
  BY <1>0, <1>2 DEF Table
<1> QED
  BY <1>5, <1>6, <1>7, <1>8

\* Taking an entry out leaves those that were not at its place.
LEMMA Remaining ==
    ASSUME NEW k \in DOMAIN table, table \in Table
    PROVE  /\ Without(k) \in Table
           /\ \A j \in DOMAIN Without(k) :
                \E i \in DOMAIN table : i # k /\ Without(k)[j] = table[i]
           /\ \A i, j \in DOMAIN Without(k) : i # j =>
                \E a, b \in DOMAIN table : /\ a # b /\ a # k /\ b # k
                                           /\ Without(k)[i] = table[a]
                                           /\ Without(k)[j] = table[b]
<1> DEFINE m == Len(table) - 1
           at_(j) == IF j < k THEN j ELSE j + 1
<1>1. Len(table) \in Nat /\ DOMAIN table = 1 .. Len(table) /\ k \in 1 .. Len(table)
  BY DEF Table
<1>2. \A j \in 1 .. m : at_(j) \in 1 .. Len(table) /\ at_(j) # k
  BY <1>1
<1>3. \A i, j \in 1 .. m : i # j => at_(i) # at_(j)
  BY <1>1
<1>4. m \in Nat
  BY <1>1
<1>5. /\ DOMAIN Without(k) = 1 .. m
      /\ \A j \in 1 .. m : Without(k)[j] = table[at_(j)]
  BY DEF Without
<1>6. Without(k) \in Table
  <2>1. \A j \in 1 .. m : table[at_(j)] \in Entry
    BY <1>1, <1>2, EntryType
  <2>2. Without(k) \in [1 .. m -> Entry]
    BY <2>1 DEF Without
  <2> HIDE DEF m
  <2> QED
    BY <1>4, <2>2 DEF Table
<1> HIDE DEF m, at_
<1> QED
  BY <1>1, <1>2, <1>3, <1>5, <1>6

\* A session that leaves the table may linger: nothing else of it is live.
LEMMA ClosingStep ==
    ASSUME IndInv, NEW k \in DOMAIN table, Closing(k), up' \in {"up", "leaving", "gone"}
    PROVE  IndInv'
<1> USE DEF IndInv, TypeOK
<1> DEFINE s == table[k].id
           p == table[k].path
<1>0. table \in Table /\ s \in Ids /\ p \in Paths /\ p = at[s]
  BY Entries DEF Table, Distinct
<1>1. /\ UNCHANGED <<at, working, moves, standing, due, pending, shown, todo>>
      /\ table' = Without(k)
      /\ lingering' \subseteq lingering \cup {s}
      /\ unnoticed' = (unnoticed \cup Changed) \ {p}
      /\ \/ \E after \in {"none", "Unchanged"} : Writes(s, after)
         \/ Removes(s) \/ Keeps \/ Fails(s)
  BY DEF Closing
<1>2. /\ table' \in Table
      /\ \A j \in DOMAIN table' : \E i \in DOMAIN table : i # k /\ table'[j] = table[i]
      /\ \A i, j \in DOMAIN table' : i # j =>
           \E a, b \in DOMAIN table : a # b /\ table'[i] = table[a] /\ table'[j] = table[b]
  BY <1>0, <1>1, Remaining
<1>3. Live' \subseteq Live \ {s} /\ LivePaths' \subseteq LivePaths \ {p}
  BY <1>2 DEF Live, LivePaths, Distinct
<1> HIDE DEF s, p
<1>4. OnlyOf(s) /\ Refiled(p)
  BY <1>0, <1>1, Directories
<1>5. \A q \in Noted' : q \in Noted /\ q # p /\ q \in Paths /\ file'[q] = file[q]
  BY <1>0, <1>1, <1>3, Entries DEF Noted, Changed
<1>6. Distinct'
  BY <1>1, <1>2 DEF Distinct
<1>7. Current'
  BY <1>1, <1>2, <1>5 DEF Current
<1>8. Abouts' = Abouts /\ NoDeadButtons'
  BY <1>1 DEF Abouts, NoDeadButtons
<1>9. NotBoth'
  BY <1>1, <1>3 DEF NotBoth
<1>10. \A t \in Live' : t \in Ids /\ t \in Live /\ t # s /\ at[t] \in LivePaths'
  <2>1. \A t \in Live' : at'[t] \in LivePaths'
    BY <1>2, <1>6 DEF Distinct, Live, LivePaths
  <2> QED
    BY <1>0, <1>1, <1>3, <2>1, Entries
<1>11. LiveIsNotRecovered'
  BY <1>1, <1>3, <1>4, <1>8, <1>9, <1>10 DEF LiveIsNotRecovered, OnlyOf, NotBoth
<1>12. ClearOf'
  <2>1. CASE todo = None
    BY <1>1, <2>1 DEF ClearOf
  <2>2. CASE todo # None
    <3>1. todo.path \in Paths
      BY <2>2 DEF Todo
    <3>2. todo.path \notin LivePaths /\ todo.path # p
      BY <2>2 DEF ClearOf, LivePaths, p
    <3>3. file'[todo.path] = file[todo.path]
      BY <1>4, <3>1, <3>2 DEF Refiled
    <3>4. todo.path \notin unnoticed' => todo.path \notin unnoticed
      BY <1>1, <3>2
    <3> QED
      BY <1>1, <1>3, <1>5, <2>2, <3>2, <3>3, <3>4 DEF ClearOf
  <2> QED
    BY <2>1, <2>2
<1>13. unnoticed' \subseteq Paths
  BY <1>0, <1>1, Entries DEF Changed
<1>14. TypeOK'
  BY <1>0, <1>1, <1>2, <1>4, <1>13 DEF OnlyOf, Refiled, Table, Naming
<1> QED
  BY <1>6, <1>7, <1>8, <1>9, <1>11, <1>12, <1>14

LEMMA SettleStep == ASSUME IndInv, NEW s \in Ids, Settle(s) PROVE IndInv'
<1> USE DEF IndInv, TypeOK
<1>0. todo = None /\ s \notin Live
  BY NotLive DEF Settle, Turn
<1>1. /\ UNCHANGED <<table, at, due, working, moves, up, standing, todo>>
      /\ lingering' = lingering \ {s}
      /\ Removes(s) \/ PutBack(s) \/ Keeps
      /\ UnnotedFrom(s)
  BY DEF Settle
<1>2. OnlyOf(s) /\ Refiled(at[s])
  BY <1>1, Directories DEF PutBack
<1>3. \/ UNCHANGED <<pending, shown>>
      \/ /\ pending' = pending \cup {[about |-> s, then |-> None]}
         /\ shown' = shown \cup {s}
  BY DEF Settle
<1>4. unnoticed' \subseteq Paths
  <2>1. LivePaths \subseteq Paths
    BY Entries DEF Table
  <2> QED
    BY <1>1, <2>1 DEF UnnotedFrom, Changed
<1>5. TypeOK'
  BY <1>1, <1>2, <1>3, <1>4 DEF OnlyOf, Pending, Refiled, Naming
<1>6. Abouts' \subseteq Abouts \cup {s} /\ NoDeadButtons'
  <2>1. CASE UNCHANGED <<pending, shown>>
    BY <2>1 DEF Abouts, NoDeadButtons
  <2>2. CASE /\ pending' = pending \cup {[about |-> s, then |-> None]}
             /\ shown' = shown \cup {s}
    BY <2>2, Raised DEF NoDeadButtons
  <2> QED
    BY <1>3, <2>1, <2>2
<1>7. \A p \in LivePaths : p \notin unnoticed' =>
          p \notin unnoticed /\ (s \notin Live => file'[p] = file[p])
  BY <1>1 DEF UnnotedFrom, Changed
<1>8. ClearOf'
  BY <1>0, <1>1 DEF ClearOf
<1> HIDE DEF IndInv, TypeOK
<1> QED
  BY <1>0, <1>1, <1>2, <1>5, <1>6, <1>7, <1>8, Recovers

\* A question taken off the list and off the screen.
LEMMA Settled ==
    ASSUME NoDeadButtons, NEW q \in pending, Withdraw(q.about),
           pending' = pending \ {q} \/ UNCHANGED pending
    PROVE  Abouts' \subseteq Abouts /\ NoDeadButtons'
<1>1. shown' = shown \ {q.about}
  BY DEF Withdraw
<1>2. Abouts' \subseteq Abouts
  BY DEF Abouts
<1>3. \A x \in Abouts : x # q.about => x \in Abouts'
  BY DEF Abouts
<1> QED
  BY <1>1, <1>2, <1>3 DEF NoDeadButtons

LEMMA AnswerStep == ASSUME IndInv, NEW q \in pending, Answer(q) PROVE IndInv'
<1> USE DEF IndInv, TypeOK
<1> DEFINE s == q.about
<1>0. /\ todo = None /\ due = {} /\ s \in Ids /\ s \in Abouts
      /\ (s \in Live => at[s] \in unnoticed)
  <2>1. s \in Ids /\ s \in Abouts /\ todo = None /\ due = {}
    BY DEF Pending, Abouts, Answer, Turn
  <2> QED
    BY <2>1, NotLive
<1>1. /\ UNCHANGED <<table, at, due, working, moves, up, standing, lingering>>
      /\ Withdraw(s)
      /\ Writes(s, "none") \/ Removes(s) \/ Keeps \/ Fails(s)
      /\ pending' = pending \ {q} \/ UNCHANGED pending
      /\ \/ UNCHANGED todo /\ UnnotedFrom(s)
         \/ /\ q.then \in Paths /\ file'[q.then] # Gone /\ Found(q.then)' = {}
            /\ Begin(q.then)
  BY DEF Answer
<1>2. OnlyOf(s) /\ Refiled(at[s])
  BY <1>0, <1>1, Directories
<1>3. Abouts' \subseteq Abouts /\ NoDeadButtons'
  BY <1>1, Settled
<1>4. table \in Table /\ LivePaths' = LivePaths /\ LivePaths \subseteq Paths
  BY <1>1, Entries DEF Table, LivePaths
<1>5. Begin(q.then) => /\ todo' = [path |-> q.then, want |-> file'[q.then], looked |-> {}]
                       /\ unnoticed' = (unnoticed \cup Changed) \ {q.then}
  BY DEF Begin
<1>6. unnoticed' \subseteq Paths /\ (todo' = None \/ todo' \in Todo)
  BY <1>0, <1>1, <1>2, <1>4, <1>5 DEF UnnotedFrom, Changed, Todo, Refiled, Naming
<1>7. TypeOK'
  BY <1>1, <1>2, <1>6 DEF OnlyOf, Withdraw, Refiled, Naming
<1>8. Begin(q.then) /\ Found(q.then)' = {} /\ file'[q.then] # Gone =>
        \A i \in DOMAIN table : table[i].path # q.then /\ table[i].identity # file'[q.then]
  BY <1>1 DEF Found, Matches
<1>9. Begin(q.then) /\ Found(q.then)' = {} /\ file'[q.then] # Gone => q.then \notin LivePaths
  BY <1>4, <1>8, Entries
<1>10. \A p \in LivePaths : p \notin unnoticed' =>
           p \notin unnoticed /\ (s \notin Live => file'[p] = file[p])
  BY <1>1, <1>5, <1>9 DEF UnnotedFrom, Changed
<1> HIDE DEF s, IndInv, TypeOK
<1>11. /\ \A p \in LivePaths : p \notin unnoticed' => p \notin unnoticed /\ file'[p] = file[p]
       /\ ClearOf' => IndInv'
  BY <1>0, <1>1, <1>2, <1>3, <1>7, <1>10, Recovers
<1>12. ClearOf'
  <2>1. CASE UNCHANGED todo
    BY <1>0, <2>1 DEF ClearOf
  <2>2. CASE q.then \in Paths /\ file'[q.then] # Gone /\ Found(q.then)' = {} /\ Begin(q.then)
    <3>1. \A p \in Noted' : p \in Noted /\ p \in LivePaths /\ file'[p] = file[p]
      BY <1>4, <1>11 DEF Noted
    <3>2. \A p \in Noted' : file'[p] # file'[q.then]
      BY <1>0, <1>4, <1>8, <2>2, <3>1, Entries DEF IndInv, Current
    <3>3. todo'.path = q.then /\ todo'.want = file'[q.then]
      BY <1>5, <2>2
    <3> QED
      BY <1>0, <1>1, <1>4, <1>9, <2>2, <3>2, <3>3 DEF ClearOf
  <2> QED
    BY <1>1, <2>1, <2>2
<1> QED
  BY <1>11, <1>12

LEMMA LetGoStep == ASSUME IndInv, NEW q \in pending, LetGo(q) PROVE IndInv'
<1> USE DEF IndInv, TypeOK
<1>1. /\ UNCHANGED <<file, at, state, working, moves, up, standing, table, due, lingering, todo,
                     unnoticed>>
      /\ pending' = pending \ {q} /\ Withdraw(q.about)
  BY DEF LetGo, world
<1>2. Abouts' \subseteq Abouts /\ NoDeadButtons'
  BY <1>1, Settled
<1>3. TypeOK'
  BY <1>1 DEF Withdraw
<1>4. Live' = Live /\ LivePaths' = LivePaths
  BY <1>1 DEF Live, LivePaths
<1>5. LiveIsNotRecovered' /\ NotBoth' /\ ClearOf' /\ Distinct' /\ Current'
  BY <1>1, <1>2, <1>4 DEF LiveIsNotRecovered, NotBoth, ClearOf, Distinct, Current, Noted
<1> QED
  BY <1>2, <1>3, <1>5

LEMMA LeavingStep == ASSUME IndInv, Leaving PROVE IndInv'
<1> USE DEF IndInv, TypeOK
<1>1. CASE Exit \/ Quit
  <2>1. /\ UNCHANGED <<file, at, state, working, moves, standing, table, due, lingering, pending,
                       shown, todo, unnoticed>>
        /\ up' \in {"up", "leaving", "gone"}
    BY <1>1 DEF Exit, Quit, world
  <2>2. Abouts' = Abouts /\ Live' = Live /\ LivePaths' = LivePaths
    BY <2>1 DEF Abouts, Live, LivePaths
  <2> QED
    BY <2>1, <2>2
    DEF LiveIsNotRecovered, NoDeadButtons, NotBoth, ClearOf, Distinct, Current, Noted
<1>2. CASE StandDownLive
  <2>1. 1 \in DOMAIN table
    BY <1>2 DEF StandDownLive
  <2> QED
    BY <1>2, <2>1, ClosingStep DEF StandDownLive
<1>3. CASE StandDownRest
  <2>1. /\ UNCHANGED <<file, at, working, moves, standing, table, due, todo, unnoticed>>
        /\ up' = "gone" /\ lingering' = {} /\ pending' = {} /\ shown' = shown \ Abouts
        /\ table = <<>> /\ state' \in [Ids -> States]
    BY <1>3 DEF StandDownRest, States
  <2>2. Live = {} /\ LivePaths' = LivePaths /\ Abouts' = {} /\ shown' = {}
    BY <2>1 DEF Live, LivePaths, Abouts, NoDeadButtons
  <2>3. TypeOK' /\ NoDeadButtons'
    BY <2>1, <2>2 DEF NoDeadButtons
  <2>4. ClearOf'
    BY <2>1, <2>2 DEF ClearOf, Noted
  <2>5. LivePaths = {}
    BY <2>1 DEF LivePaths
  <2> QED
    BY <2>1, <2>2, <2>3, <2>4, <2>5, TableKept
<1> QED
  BY <1>1, <1>2, <1>3 DEF Leaving

\* What another program does to the file at a path.
LEMMA OtherStep == ASSUME IndInv, NEW p \in Paths, OtherProgram(p) PROVE IndInv'
<1> USE DEF IndInv, TypeOK
<1>0. table \in Table /\ LivePaths \subseteq Paths /\ \A s \in Live : s \in Ids /\ at[s] \in LivePaths
  BY Entries DEF Table, Distinct
<1>1. /\ UNCHANGED <<at, working, lists>>
      /\ state' \in [Ids -> States]
      /\ \A s \in Ids : state[s] # "none" => state'[s] # "none"
  BY DEF OtherProgram, States
<1>2. /\ UNCHANGED <<up, standing, table, due, lingering, pending, shown, todo>>
      /\ Abouts' = Abouts /\ Live' = Live /\ LivePaths' = LivePaths
  BY <1>1 DEF lists, Abouts, Live, LivePaths
<1>3. /\ file' \in Naming /\ unnoticed \subseteq unnoticed' /\ unnoticed' \subseteq Paths
      /\ \A q \in LivePaths : q \notin unnoticed' => file'[q] = file[q]
      /\ todo # None /\ todo.path \notin unnoticed' =>
            \A q \in LivePaths : q \notin unnoticed' /\ file[q] # file[todo.path] /\ file[q] # Gone =>
                                   file'[q] # file'[todo.path]
  <2>0. todo # None => todo.path \in Paths /\ todo.path \notin LivePaths
    BY DEF Todo, ClearOf
  <2>1. CASE OtherReplaces(p)
    <3>1. Refiled(p) /\ Unnoted
      BY <2>1, Replaced DEF OtherReplaces
    <3> QED
      BY <1>0, <2>0, <3>1 DEF Refiled, Unnoted, Changed
  <2>2. CASE OtherRemoves(p)
    <3>1. file' = [file EXCEPT ![p] = Gone] /\ Unnoted
      BY <2>2 DEF OtherRemoves
    <3> QED
      BY <1>0, <2>0, <3>1 DEF Naming, Unnoted, Changed
  <2>3. CASE \E q \in Paths : OtherLinks(p, q)
    <3>1. PICK q \in Paths : OtherLinks(p, q)
      BY <2>3
    <3> DEFINE opened == IF todo = None THEN {} ELSE {todo.path}
    <3>2. /\ file' = [file EXCEPT ![p] = file[q]]
          /\ unnoticed' = unnoticed \cup ({p} \cap (LivePaths \cup opened))
      BY <3>1 DEF OtherLinks
    <3> QED
      BY <1>0, <2>0, <3>2 DEF Naming
  <2> QED
    BY <2>1, <2>2, <2>3 DEF OtherProgram
<1>4. TypeOK'
  <2>1. moves' \in 0 .. MaxMoves
    BY MovesAssumption DEF OtherProgram, Moves
  <2> QED
    BY <1>1, <1>2, <1>3, <2>1 DEF Naming
<1>5. ClearOf'
  <2>1. \A q \in Noted' : q \in LivePaths /\ q \notin unnoticed' /\ q \in Noted /\ file'[q] = file[q] /\ file[q] # Gone
    BY <1>2, <1>3 DEF Noted, Current
  <2>2. todo # None /\ todo.path \notin unnoticed' =>
            \A q \in Noted' : file'[q] # file'[todo.path]
    BY <1>3, <2>1 DEF ClearOf
  <2> QED
    BY <1>2, <2>1, <2>2 DEF ClearOf
<1>6. NoDeadButtons'
  BY <1>2 DEF NoDeadButtons
<1>7. \A s \in Live : /\ s \notin lingering'
                      /\ at[s] \notin unnoticed' => state'[s] # "none" /\ s \notin lingering' \cup Abouts'
  BY <1>0, <1>1, <1>2, <1>3 DEF LiveIsNotRecovered, NotBoth
<1>8. \A q \in LivePaths : q \notin unnoticed' => q \notin unnoticed /\ file'[q] = file[q]
  BY <1>3
<1> HIDE DEF IndInv, TypeOK
<1> QED
  BY <1>1, <1>2, <1>4, <1>5, <1>6, <1>7, <1>8, TableKept

LEMMA OutsideStep == ASSUME IndInv, Outside PROVE IndInv'
<1> USE DEF IndInv, TypeOK
<1>1. CASE \E s \in Ids : Save(s) \/ StartsWorking(s) \/ StopsWorking(s)
  <2>1. /\ UNCHANGED <<file, at, lists, unnoticed>>
        /\ state' \in [Ids -> States]
        /\ \A s \in Ids : state[s] # "none" => state'[s] # "none"
    BY <1>1 DEF Save, StartsWorking, StopsWorking, States
  <2>2. working' \subseteq Ids /\ moves' \in 0 .. MaxMoves
    BY <1>1, MovesAssumption DEF Save, StartsWorking, StopsWorking, Moves
  <2>3. UNCHANGED <<up, standing, table, due, lingering, pending, shown, todo>>
    BY <2>1 DEF lists
  <2>4. Abouts' = Abouts /\ Live' = Live /\ LivePaths' = LivePaths /\ Noted' = Noted
    BY <2>1, <2>3 DEF Abouts, Live, LivePaths, Noted
  <2>5. \A s \in Live : s \in Ids
    BY Entries DEF Table
  <2>6. LiveIsNotRecovered' /\ NoDeadButtons' /\ NotBoth' /\ ClearOf' /\ Distinct' /\ Current'
    BY <2>1, <2>3, <2>4, <2>5
    DEF LiveIsNotRecovered, NoDeadButtons, NotBoth, ClearOf, Distinct, Current
  <2> QED
    BY <2>1, <2>2, <2>3, <2>6
<1> QED
  BY <1>1, OtherStep DEF Outside

\* The invariant holds: every variable keeps its type; no two entries have one
\* session or one path; and on the paths on which the table has not been left
\* behind, entries know their files, are on files apart from each other's and
\* from what an open is looking for, and no session is both live and recovered.
THEOREM Invariant == Spec => []IndInv
<1>1. Init => IndInv
  <2> SUFFICES ASSUME Init PROVE IndInv
    OBVIOUS
  <2>1. TypeOK
    <3>1. file \in [Paths -> Files \cup {Gone}]
      BY Bounds DEF Init
    <3> QED
      BY <3>1, MovesAssumption DEF Init, TypeOK, States
  <2>2. Live = {} /\ LivePaths = {} /\ table = <<>> /\ todo = None
    BY DEF Init, Live, LivePaths
  <2>3. Distinct /\ Current /\ ClearOf /\ NotBoth
    BY <2>2 DEF Distinct, Current, ClearOf, NotBoth, Noted
  <2> QED
    BY <2>1, <2>2, <2>3 DEF Init, IndInv, LiveIsNotRecovered, NoDeadButtons
<1>2. IndInv /\ [Next]_vars => IndInv'
  <2> SUFFICES ASSUME IndInv, [Next]_vars PROVE IndInv'
    OBVIOUS
  <2>1. CASE Opening
    BY <2>1, OpenStep, LookStep, FreshStep DEF Opening
  <2>2. CASE Turns
    BY <2>2, PumpStep, RefreshStep, ClosingStep, SettleStep, AnswerStep, LetGoStep
    DEF Turns, Close, Turn
  <2>3. CASE UNCHANGED vars
    <3>1. UNCHANGED <<file, at, state, working, moves, up, standing, table, due, lingering, pending,
                      shown, todo, unnoticed>>
      BY <2>3 DEF vars, world, lists
    <3>2. Abouts' = Abouts /\ Live' = Live /\ LivePaths' = LivePaths
      BY <3>1 DEF Abouts, Live, LivePaths
    <3> QED
      BY <3>1, <3>2
      DEF IndInv, TypeOK, LiveIsNotRecovered, NoDeadButtons, NotBoth, ClearOf, Distinct, Current, Noted
  <2> QED
    BY <2>1, <2>2, <2>3, LeavingStep, OutsideStep DEF Next
<1> QED
  BY <1>1, <1>2, PTL DEF Spec

\* No path has two live sessions, and no file has two where the table has not
\* been left behind, whatever names are made for containers and when.
THEOREM OneEach == Spec => []OneSessionEach
<1>1. IndInv => OneSessionEach
  BY Entries DEF IndInv, TypeOK, Table, OneSessionEach, Distinct, Current, Noted
<1> QED
  BY <1>1, Invariant, PTL

\* Recovery leaves alone the live sessions whose path the table has not been left
\* behind on.
THEOREM NotRecovered == Spec => []LiveIsNotRecovered
<1>1. IndInv => LiveIsNotRecovered
  BY DEF IndInv
<1> QED
  BY <1>1, Invariant, PTL

\* No question is on a screen that this instance does not hold.
THEOREM ButtonsLive == Spec => []NoDeadButtons
<1>1. IndInv => NoDeadButtons
  BY DEF IndInv
<1> QED
  BY <1>1, Invariant, PTL
===============================================================================
