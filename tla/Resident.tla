------------------------------- MODULE Resident -------------------------------
(***************************************************************************)
(* What the resident instance holds across several containers and several  *)
(* sessions: the table of live sessions, the closed ones whose application *)
(* is still working, and the questions put to a person.  A file operation  *)
(* is one step here; SessionLife has what can come between its parts.      *)
(* How a question gets to a screen and back, and what the icon is coloured *)
(* for, are in Presence.                                                   *)
(*                                                                         *)
(* Sources: src/src/resident.rs, table.rs, identity.rs, and flow.rs and    *)
(* recover.rs for what a session answers.                                  *)
(***************************************************************************)
EXTENDS Integers, Sequences, FiniteSets

CONSTANTS
    Paths,      \* the paths containers are opened by
    Ids,        \* the session directories there can be, by name
    None,       \* nothing to open
    World,      \* what may happen, from Happenings
    MaxMoves    \* how often applications save and other programs act

Happenings == {"fail",      \* a write-back, or taking a session in, fails
               "other",     \* another program replaces a container or takes it away
               "linked",    \* two paths name one file to begin with, or come to
               "left"}      \* sessions may have been left behind before

ASSUME WorldAssumption == World \subseteq Happenings
ASSUME NoneAssumption == None \notin Paths
ASSUME IdsAssumption == IsFiniteSet(Paths) /\ IsFiniteSet(Ids)
ASSUME MovesAssumption == MaxMoves \in Nat

VARIABLES
    file,       \* which file each path names
    at,         \* the container each session records
    state,      \* what recover::state says of each, "none" where there is no directory
    working,    \* sessions whose application has siblings in the directory
    moves,      \* how often they have
    up, standing,
    table,      \* the live sessions, as entries in the order opened
    due,        \* paths pump_all has written to and has still to refresh
    lingering,  \* closed sessions still watched
    pending,    \* questions held, each with the path to open once it is settled
    shown,      \* questions on a screen
    todo,       \* the open under way
    unnoticed   \* history: paths the table has been left behind on

world == <<file, at, state, working, moves>>
lists == <<up, standing, table, due, lingering, pending, shown, todo>>
vars  == <<world, lists, unnoticed>>

States == {"none", "Unchanged", "Edited", "Diverged"}
\* Files by identity: enough for every path, every entry of the table, what is
\* being opened, and the one a write-back makes; and a path with no file.
Files == 1 .. Cardinality(Paths) + Cardinality(Ids) + 2
Gone == 0
Entry == [id : Ids, identity : Files, path : Paths]
Pending == [about : Ids, then : Paths \cup {None}]
Todo == [path : Paths, want : Files, looked : SUBSET Ids]

\* The type invariant.
TypeOK ==
    /\ file \in [Paths -> Files \cup {Gone}] /\ at \in [Ids -> Paths]
    /\ state \in [Ids -> States]
    /\ working \subseteq Ids /\ moves \in 0 .. MaxMoves
    /\ up \in {"up", "leaving", "gone"} /\ standing \in BOOLEAN
    /\ table \in Seq(Entry) /\ lingering \subseteq Ids
    /\ due \subseteq Paths /\ unnoticed \subseteq Paths
    /\ pending \subseteq Pending /\ shown \subseteq Ids
    /\ todo = None \/ todo \in Todo

\* The files there may be to begin with: one for each path, or one for all.
Init ==
    /\ file \in {f \in [Paths -> 1 .. Cardinality(Paths)] :
                   \/ \A p, q \in Paths : f[p] = f[q] => p = q
                   \/ "linked" \in World /\ \A p \in Paths : f[p] = 1}
    /\ at \in [Ids -> Paths]
    /\ state \in [Ids -> IF "left" \in World THEN {"none", "Edited", "Diverged"} ELSE {"none"}]
    /\ working = {} /\ moves = 0
    /\ up = "up" /\ standing \in BOOLEAN
    /\ table = <<>> /\ due = {} /\ lingering = {} /\ pending = {} /\ shown = {}
    /\ todo = None /\ unnoticed = {}

-----------------------------------------------------------------------------
Turn == up = "up" /\ todo = None /\ due = {}
Abouts == {q.about : q \in pending}
Live == {table[i].id : i \in DOMAIN table}
LivePaths == {table[i].path : i \in DOMAIN table}

\* Mutant: a lookup by path alone.
MatchesByPath(entry, p) == file[p] # Gone /\ entry.path = p

\* Table::find_mut and remove: the first entry that has the path's identity as
\* it is now, or the path.  A path with no file matches nothing.
Matches(entry, p) == file[p] # Gone /\ (entry.identity = file[p] \/ entry.path = p)
Found(p) == {i \in DOMAIN table : Matches(table[i], p)}
IsFirst(i, p) == i \in Found(p) /\ \A j \in Found(p) : i <= j
Without(i) == [j \in 1 .. Len(table) - 1 |-> table[IF j < i THEN j ELSE j + 1]]

\* Renaming a new file over the path.  The number it has is one no path has: a
\* number never seen, or one the table or an open remembers of a file now gone.
Unnamed == {f \in Files : \A q \in Paths : file[q] # f}
Remembered == {table[i].identity : i \in DOMAIN table}
              \cup (IF todo = None THEN {} ELSE {todo.want})
New == CHOOSE f \in Unnamed : f \notin Remembered
Replaces(p) ==
    \E f \in Unnamed : f \in {New} \cup Remembered /\ file' = [file EXCEPT ![p] = f]

\* A write-back of s: no other session on the path agreed to what it holds now.
Writes(s, after) ==
    /\ file[at[s]] # Gone /\ Replaces(at[s])
    /\ state' = [t \in Ids |-> IF t = s THEN after
                               ELSE IF at[t] = at[s] /\ state[t] # "none" THEN "Diverged"
                               ELSE state[t]]
Removes(s) == state' = [state EXCEPT ![s] = "none"] /\ UNCHANGED file
Keeps == UNCHANGED <<file, state>>

\* One that fails, before the commit or after it, when it cannot be counted.
Fails(s) ==
    \/ "fail" \in World /\ (Keeps \/ Writes(s, "Unchanged"))
    \/ file[at[s]] = Gone /\ Keeps

\* Resident::put_it_back.
PutBack(s) == Writes(s, "none") \/ Fails(s)

\* The table is not told of a file put at, or taken from, a path of its own.  A
\* live session taken for a leftover is not excused by this.
Changed == {p \in LivePaths : file'[p] # file[p]}
Unnoted == unnoticed' = unnoticed \cup Changed
UnnotedFrom(s) == unnoticed' = IF s \in Live THEN unnoticed ELSE unnoticed \cup Changed

(***************************************************************************)
(* Opening.                                                                *)
(***************************************************************************)
Begin(p) ==
    /\ todo' = [path |-> p, want |-> file'[p], looked |-> {}]
    /\ unnoticed' = (unnoticed \cup Changed) \ {p}

\* Resident::open of a container that is live brings its session forward.
Open(p) ==
    /\ Turn /\ file[p] # Gone /\ Found(p) = {}
    /\ UNCHANGED <<world, up, standing, table, due, lingering, pending, shown>>
    /\ Begin(p)

\* The left sessions ask_about_what_was_left has still to look at: on the file
\* the path named when it began.
ToLook == {s \in Ids : /\ state[s] # "none" /\ s \notin todo.looked
                       /\ file[at[s]] = todo.want}
Look(s) ==
    /\ up = "up" /\ todo # None /\ s \in ToLook
    /\ \/ /\ state[s] = "Unchanged"
          /\ todo' = [todo EXCEPT !.looked = @ \cup {s}]
          /\ Keeps /\ UNCHANGED <<pending, shown>>
       \/ /\ state[s] = "Edited"
          /\ PutBack(s)
          /\ todo' = [todo EXCEPT !.looked = @ \cup {s}]
          /\ UNCHANGED <<pending, shown>>
       \/ /\ state[s] = "Diverged"
          /\ IF s \in Abouts THEN UNCHANGED <<pending, shown>>
             ELSE /\ pending' = pending \cup {[about |-> s, then |-> todo.path]}
                  /\ shown' = shown \cup {s}
          /\ todo' = None
          /\ Keeps
    /\ UnnotedFrom(s)
    /\ UNCHANGED <<at, working, moves, up, standing, table, due, lingering>>

\* flow::open and Table::insert, or a refusal.  What flow::open has made stays
\* when insert fails.  The name of a directory has the second it was made in,
\* so that of one still held is taken not to come again.
Unused(s) == state[s] = "none" /\ s \notin Abouts \cup lingering \cup Live
Fresh ==
    /\ up = "up" /\ todo # None /\ ToLook = {}
    /\ todo' = None
    /\ \/ \E s \in Ids :
             /\ Unused(s) /\ file[todo.path] # Gone
             /\ at' = [at EXCEPT ![s] = todo.path]
             /\ state' = [state EXCEPT ![s] = "Unchanged"]
             /\ \/ table' = Append(table, [id |-> s, identity |-> file[todo.path], path |-> todo.path])
                \/ "fail" \in World /\ UNCHANGED table
       \/ UNCHANGED <<at, state, table>>
    /\ UNCHANGED <<file, working, moves, up, standing, due, lingering, pending, shown, unnoticed>>

(***************************************************************************)
(* A turn.                                                                 *)
(***************************************************************************)
\* pump_all, for one session whose content file has changed.  A session whose
\* two sides both moved is written back like any other.
Pump(i) ==
    /\ up = "up" /\ todo = None /\ i \in DOMAIN table /\ table[i].path \notin due
    /\ state[table[i].id] \in {"Edited", "Diverged"}
    /\ \/ /\ Writes(table[i].id, "Unchanged")
          /\ due' = due \cup {table[i].path}
          /\ UNCHANGED unnoticed
       \/ Fails(table[i].id) /\ Unnoted /\ UNCHANGED due
    /\ UNCHANGED <<at, working, moves, up, standing, table, lingering, pending, shown, todo>>

\* Mutant: the entry keeps the identity it had when the session was opened.
Forgets(i) == UNCHANGED table

\* Table::refresh: a path with no file keeps the identity the entry had.
Notes(i) ==
    table' = IF file[table[i].path] = Gone THEN table
             ELSE [table EXCEPT ![i].identity = file[table[i].path]]

\* What pump_all ends with, for one of those it has written.
Refresh(i) ==
    /\ up = "up" /\ i \in DOMAIN table /\ table[i].path \in due
    /\ Notes(i)
    /\ due' = due \ {table[i].path}
    /\ UNCHANGED <<world, up, standing, lingering, pending, shown, todo, unnoticed>>

\* Opened::close of the session at i, which has left the table: a last
\* write-back, and the directory goes, lingers, or stays behind, because either
\* that or its removal failed.  A directory that cannot be read lingers.
Closing(i) ==
    LET s == table[i].id IN
    /\ table' = Without(i)
    /\ \/ /\ state[s] = "Unchanged" /\ s \notin working /\ Removes(s)
          /\ UNCHANGED lingering
       \/ /\ state[s] = "Unchanged" /\ s \in working /\ Keeps
          /\ lingering' = lingering \cup {s}
       \/ /\ state[s] \in {"Edited", "Diverged"} /\ s \notin working /\ Writes(s, "none")
          /\ UNCHANGED lingering
       \/ /\ state[s] \in {"Edited", "Diverged"} /\ s \in working /\ Writes(s, "Unchanged")
          /\ lingering' = lingering \cup {s}
       \/ /\ state[s] \in {"Edited", "Diverged"} /\ Fails(s)
          /\ UNCHANGED lingering
       \/ /\ state[s] = "none" \/ (state[s] = "Unchanged" /\ "fail" \in World)
          /\ Keeps
          /\ lingering' = lingering \/ lingering' = lingering \cup {s}
    /\ unnoticed' = (unnoticed \cup Changed) \ {table[i].path}
    /\ UNCHANGED <<at, working, moves, standing, due, pending, shown, todo>>

\* Resident::close finds the entry by its id and takes out the first there is
\* by its container, which has to be there.
Close(s) ==
    /\ Turn /\ s \in Live
    /\ \E i \in DOMAIN table : IsFirst(i, at[s]) /\ Closing(i)
    /\ UNCHANGED up

\* ask_about_what_has_settled, for one session.
Settle(s) ==
    /\ Turn /\ s \in lingering /\ s \notin working /\ state[s] # "none"
    /\ lingering' = lingering \ {s}
    /\ \/ state[s] = "Unchanged" /\ Removes(s) /\ UNCHANGED <<pending, shown>>
       \/ state[s] = "Edited" /\ PutBack(s) /\ UNCHANGED <<pending, shown>>
       \/ /\ state[s] = "Diverged" /\ Keeps
          /\ pending' = pending \cup {[about |-> s, then |-> None]}
          /\ shown' = shown \cup {s}
    /\ UnnotedFrom(s)
    /\ UNCHANGED <<at, working, moves, up, standing, table, due, todo>>

\* Mutant: a settled question is left on the screen.
WithdrawNot(s) == UNCHANGED shown

\* channel.withdraw.
Withdraw(s) == shown' = shown \ {s}

\* Resident::settle: the answer to one question.  A write-back that fails puts
\* the question back on the list; one that is settled is followed by the open
\* it held up.
Answer(q) ==
    /\ Turn /\ q \in pending /\ q.about \in shown
    /\ Withdraw(q.about) /\ UNCHANGED table
    /\ \/ /\ (state[q.about] # "none" /\ Writes(q.about, "none")) \/ Removes(q.about)
          /\ pending' = pending \ {q}
          /\ IF q.then \in {p \in Paths : file'[p] # Gone /\ Found(p)' = {}}
             THEN Begin(q.then) ELSE UnnotedFrom(q.about) /\ UNCHANGED todo
       \/ /\ Fails(q.about) \/ (state[q.about] = "none" /\ Keeps)
          /\ UnnotedFrom(q.about) /\ UNCHANGED <<pending, todo>>
    /\ UNCHANGED <<at, working, moves, up, standing, due, lingering>>

\* let_go_of_the_unanswered, for one question held long enough.
LetGo(q) ==
    /\ Turn /\ ~standing /\ q \in pending
    /\ pending' = pending \ {q} /\ Withdraw(q.about)
    /\ UNCHANGED <<world, up, standing, table, due, lingering, todo, unnoticed>>

(***************************************************************************)
(* Leaving: the exit rule, or the icon's Quit and stand_down.              *)
(***************************************************************************)
Exit ==
    /\ Turn /\ ~standing
    /\ table = <<>> /\ lingering = {} /\ pending = {}
    /\ up' = "gone"
    /\ UNCHANGED <<world, standing, table, due, lingering, pending, shown, todo, unnoticed>>
Quit ==
    /\ Turn /\ standing
    /\ up' = "leaving"
    /\ UNCHANGED <<world, standing, table, due, lingering, pending, shown, todo, unnoticed>>
StandDownLive ==
    /\ up = "leaving" /\ table # <<>>
    /\ Closing(1)
    /\ UNCHANGED up
StandDownRest ==
    /\ up = "leaving" /\ table = <<>>
    /\ up' = "gone" /\ lingering' = {} /\ pending' = {}
    /\ shown' = shown \ Abouts
    /\ state' = [s \in Ids |-> IF s \in lingering /\ state[s] = "Unchanged" THEN "none" ELSE state[s]]
    /\ UNCHANGED <<file, at, working, moves, standing, table, due, todo, unnoticed>>

(***************************************************************************)
(* Everybody else.                                                         *)
(***************************************************************************)
Moves == moves < MaxMoves /\ moves' = moves + 1
Save(s) ==
    /\ state[s] # "none" /\ Moves
    /\ state' = [state EXCEPT ![s] = IF @ = "Unchanged" THEN "Edited" ELSE @]
    /\ UNCHANGED <<file, at, working, lists, unnoticed>>
StartsWorking(s) ==
    /\ s \in Live \ working
    /\ working' = working \cup {s}
    /\ UNCHANGED <<file, at, state, moves, lists, unnoticed>>
StopsWorking(s) ==
    /\ s \in working
    /\ working' = working \ {s}
    /\ UNCHANGED <<file, at, state, moves, lists, unnoticed>>

\* Another program puts a container of its own at p, takes the one there away,
\* or makes p another name of the file at q.
OtherReplaces(p) == "other" \in World /\ Replaces(p) /\ Unnoted
OtherRemoves(p) ==
    /\ "other" \in World /\ file[p] # Gone
    /\ file' = [file EXCEPT ![p] = Gone]
    /\ Unnoted
OtherLinks(p, q) ==
    /\ "linked" \in World /\ file[q] \notin {Gone, file[p]}
    /\ file' = [file EXCEPT ![p] = file[q]]
    /\ unnoticed' = unnoticed \cup ({p} \cap (LivePaths \cup (IF todo = None THEN {} ELSE {todo.path})))
OtherProgram(p) ==
    /\ OtherReplaces(p) \/ OtherRemoves(p) \/ \E q \in Paths : OtherLinks(p, q)
    /\ state' = [s \in Ids |-> IF at[s] = p /\ state[s] # "none" THEN "Diverged" ELSE state[s]]
    /\ Moves
    /\ UNCHANGED <<at, working, lists>>

Opening == (\E p \in Paths : Open(p)) \/ (\E s \in Ids : Look(s)) \/ Fresh
Turns == \/ \E i \in DOMAIN table : Pump(i) \/ Refresh(i)
         \/ \E s \in Ids : Close(s) \/ Settle(s)
         \/ \E q \in pending : Answer(q) \/ LetGo(q)
Leaving == Exit \/ Quit \/ StandDownLive \/ StandDownRest
Outside == \/ \E s \in Ids : Save(s) \/ StartsWorking(s) \/ StopsWorking(s)
           \/ \E p \in Paths : OtherProgram(p)

Next == Opening \/ Turns \/ Leaving \/ Outside

Spec == Init /\ [][Next]_vars

-----------------------------------------------------------------------------
\* A container that has a live session is not opened twice, whatever name it is
\* reached by and whenever that name was made: two live sessions are on two paths
\* always, and on two files, so that neither writes back over the other, unless
\* the table has been left behind on the path of one of them.  That is where,
\* since the session was opened, another program put a file at the path, took it
\* away or made the path a name of another's file; a directory of the container
\* that was not the live one's was put back there; or a write-back was committed
\* and could not be counted.  refresh follows only the write-backs that pump_all
\* has seen succeed.
OneSessionEach ==
    \A i, j \in DOMAIN table :
        i # j => /\ table[i].path # table[j].path
                 /\ \/ file[table[i].path] # file[table[j].path]
                    \/ {table[i].path, table[j].path} \cap unnoticed # {}

\* Recovery keeps its hands off what is open, where the table has not been left
\* behind on its path: no open that looks for what was left on a container takes
\* a live session's directory for a leftover, to put back, or to ask about.
LiveIsNotRecovered ==
    \A s \in Live : at[s] \notin unnoticed =>
                       state[s] # "none" /\ s \notin lingering \cup Abouts

\* No button has nobody behind it: a question on a screen is one this instance
\* holds, through answers, failures, time running out and standing down.
NoDeadButtons == shown \subseteq Abouts

\* What was left comes first: a fresh session is not opened on a container while
\* another directory has an edit that has not reached it.
NothingLeftBeside ==
    [][\A s \in Ids : state[s] = "none" /\ state'[s] = "Unchanged" =>
         \A t \in Ids : t # s /\ at[t] = at'[s] => state[t] \notin {"Edited", "Diverged"}]_vars

-----------------------------------------------------------------------------
(***************************************************************************)
(* The inductive invariant behind OneSessionEach, LiveIsNotRecovered and   *)
(* NoDeadButtons.                                                          *)
(***************************************************************************)
\* Paths on which the table is up to date, or will be.
Noted == LivePaths \ unnoticed

\* No two entries have one session or one path, and each has the path its session
\* records.
Distinct ==
    /\ \A i, j \in DOMAIN table :
         i # j => table[i].id # table[j].id /\ table[i].path # table[j].path
    /\ \A i \in DOMAIN table : table[i].path = at[table[i].id]

\* Where the table has not been left behind, an entry remembers the file its path
\* names, or is about to; and two such entries are on two files.
Current ==
    /\ \A i \in DOMAIN table :
         table[i].path \in Noted \ due => table[i].identity = file[table[i].path]
    /\ \A p, q \in Noted : p # q => file[p] # file[q]
    /\ \A p \in Noted : file[p] # Gone

\* An open under way is of a path that has no entry, and looks for what was left
\* on a file that none of those paths names.
ClearOf ==
    todo # None =>
        /\ due = {} /\ todo.path \notin LivePaths
        /\ \A p \in Noted : file[p] # todo.want
        /\ todo.path \notin unnoticed => \A p \in Noted : file[p] # file[todo.path]

\* No session is live and lingering.
NotBoth == Live \cap lingering = {}

\* All that the proofs carry from one step to the next.
IndInv ==
    /\ TypeOK
    /\ Distinct /\ Current /\ ClearOf /\ NotBoth
    /\ LiveIsNotRecovered
    /\ NoDeadButtons
===============================================================================
