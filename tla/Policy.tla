--------------------------------- MODULE Policy ---------------------------------
(***************************************************************************)
(* What may be opened, and who gets to say: three layers that somebody may *)
(* change at any moment and the one the build ships, read one after the    *)
(* other in the middle of an open, and what comes between the decision and *)
(* the launch.                                                             *)
(*                                                                         *)
(* Only the extension and the lists matter here.  An extension is the key  *)
(* it is compared as; a list's entry is the key it folds to, or odd.       *)
(*                                                                         *)
(* Sources: src/src/policy/mod.rs, files.rs and registry.rs, extension.rs, *)
(* content.rs, and flow.rs for the order of an open.                       *)
(***************************************************************************)
EXTENDS Naturals

CONSTANTS
    Keys,       \* extensions that can be compared
    Odd,        \* entries of a list that cannot
    NoKey,      \* a name that has no such extension
    Shipped,    \* BUILT_IN_ALLOWED
    Expected,   \* extensions that programs go by
    Layers,     \* what somebody may write into a layer
    Broken,     \* a layer that is there and cannot be read or understood
    MaxPushes   \* how often a layer changes

\* What a layer may say of something: nothing, or one value.
Optional(S) == {{}} \cup {{x} : x \in S}
Lists == Optional(SUBSET (Keys \cup Odd))

\* A layer.  quiet is false where it sets confirm_each_write_back or notify,
\* which decide nothing.
Layer == [allowed : Lists, mode : Optional({"replace", "append"}), denied : Lists,
          user_may_extend : Optional(BOOLEAN), quiet : BOOLEAN]

\* Layer::says_nothing, and a layer that is not there.
Silent == [allowed |-> {}, mode |-> {}, denied |-> {}, user_may_extend |-> {}, quiet |-> TRUE]
\* The layer below the others, which no platform has a source for.
BuiltIn == [Silent EXCEPT !.allowed = {Shipped}]

ASSUME KeysAssumption == NoKey \notin Keys /\ Odd \cap Keys = {} /\ Shipped \subseteq Keys
ASSUME LayersAssumption == Layers \subseteq Layer /\ Silent \in Layers /\ Broken \notin Layers
ASSUME PushesAssumption == MaxPushes \in Nat

\* The layers that have a source, the strongest first.
Source == {"machine", "user", "configuration"}
\* What reading one may give.
Read == Layers \cup {Broken}

VARIABLES
    layer,      \* what is in each layer now
    pc,         \* what the open does next
    name,       \* the content file: the key of its extension, whether it runs
    got,        \* what has been read of each layer
    outcome,    \* how the last open ended
    since,      \* history: everything each layer has said during the open
    pushes

vars == <<layer, pc, name, got, outcome, since, pushes>>

Name == [key : Keys \cup {NoKey}, runs : BOOLEAN]
Decisions == {"Open", "Denied", "NotPermitted"}
Outcomes == {"none", "NoUsableExtension", "Unreadable", "Misrepresented", "Failed"} \cup Decisions

\* The type invariant.
TypeOK ==
    /\ layer \in [Source -> Read]
    /\ pc \in Source \cup {"idle", "decide", "inspect", "launch"}
    /\ name \in Name
    /\ got \in [Source -> Layers]
    /\ outcome \in Outcomes
    /\ since \in [Source -> SUBSET Read]
    /\ pushes \in Nat

Nothing == [s \in Source |-> Silent]
Now == [s \in Source |-> {layer[s]}]

Init ==
    /\ layer \in [Source -> Read]
    /\ pc = "idle" /\ name = [key |-> NoKey, runs |-> FALSE]
    /\ got = Nothing /\ outcome = "none"
    /\ since = Now
    /\ pushes = 0

-----------------------------------------------------------------------------
\* misrepresents: it runs, and its name does not say so.
Disguised(n) == n.runs /\ n.key \notin Expected

\* fold_into: the entries of a list that may be there, as keys.
Folded(list) == UNION list \cap Keys

\* Mutant: the user's policy is asked before the machine's.
MayExtendUserFirst(machine, user) ==
    (IF user.user_may_extend # {} THEN user ELSE machine).user_may_extend # {FALSE}

\* What the stronger policy layer that says so says of the configuration.
MayExtend(machine, user) ==
    (IF machine.user_may_extend # {} THEN machine ELSE user).user_may_extend # {FALSE}

\* Mutant: a list whose layer does not say how it counts adds to those beneath.
OverAppending(l, beneath) ==
    Folded(l.allowed) \cup IF l.mode = {"replace"} THEN {} ELSE beneath

\* A layer over what is allowed beneath it.
Over(l, beneath) ==
    IF l.allowed = {} THEN beneath
    ELSE Folded(l.allowed) \cup IF l.mode = {"append"} THEN beneath ELSE {}

Allowed(r) ==
    Over(r["machine"], Over(r["user"], Over(r["configuration"], Over(BuiltIn, {}))))

\* Mutant: only what policy refuses is refused.
DeniedByPolicy(r) == Folded(r["machine"].denied) \cup Folded(r["user"].denied)

\* Every layer's refusals.
Denied(r) == UNION {Folded(r[s].denied) : s \in Source}

\* Mutant: the user's policy does not count as administered.
ManagedByMachine(r) == r["machine"] # Silent

\* Whether a policy layer set anything.
Managed(r) == \E s \in {"machine", "user"} : r[s] # Silent

\* decide, once every layer is read.
Decision(r, key) ==
    IF key \in Denied(r) THEN "Denied"
    ELSE IF key \in Allowed(r) THEN "Open" ELSE "NotPermitted"

-----------------------------------------------------------------------------
(***************************************************************************)
(* An open.                                                                *)
(***************************************************************************)
Ends(how) == pc' = "idle" /\ outcome' = how
Goes(to) == pc' = to /\ UNCHANGED outcome

\* A name with no usable extension is refused before a layer is read.
Begin(n) ==
    /\ pc = "idle"
    /\ name' = n /\ got' = Nothing /\ since' = Now
    /\ IF n.key = NoKey THEN Ends("NoUsableExtension")
       ELSE pc' = "machine" /\ outcome' = "none"
    /\ UNCHANGED <<layer, pushes>>

\* A layer as it is now; one that cannot be understood ends the open.
ReadLayer(s, next) ==
    /\ pc = s
    /\ IF layer[s] = Broken THEN Ends("Unreadable") /\ UNCHANGED got
       ELSE Goes(next) /\ got' = [got EXCEPT ![s] = layer[s]]
    /\ UNCHANGED <<layer, name, since, pushes>>

ReadMachine == ReadLayer("machine", "user")
ReadUser == ReadLayer("user", "configuration")

\* Mutant: a suppressed configuration is read like any other.
ReadConfigurationAlways == ReadLayer("configuration", "decide")

ReadConfiguration ==
    /\ MayExtend(got["machine"], got["user"])
    /\ ReadLayer("configuration", "decide")
\* A configuration that policy suppresses is not consulted.
SkipConfiguration ==
    /\ pc = "configuration" /\ ~MayExtend(got["machine"], got["user"])
    /\ Goes("decide")
    /\ UNCHANGED <<layer, name, got, since, pushes>>

Decide ==
    /\ pc = "decide"
    /\ LET d == Decision(got, name.key) IN
         IF d = "Open" THEN Goes("inspect") ELSE Ends(d)
    /\ UNCHANGED <<layer, name, got, since, pushes>>

\* A program under a document's name is refused; where the head cannot be read
\* nothing is said against it.
Inspect ==
    /\ pc = "inspect"
    /\ \/ Disguised(name) /\ Ends("Misrepresented")
       \/ Goes("launch")
    /\ UNCHANGED <<layer, name, got, since, pushes>>

\* The session, the extraction, the watch and the launch, any of which may fail.
Launch ==
    /\ pc = "launch"
    /\ Ends("Open") \/ Ends("Failed")
    /\ UNCHANGED <<layer, name, got, since, pushes>>

\* An administrator or the user writes a layer, at any moment.
Push(s, l) ==
    /\ pushes < MaxPushes /\ l # layer[s]
    /\ pushes' = pushes + 1
    /\ layer' = [layer EXCEPT ![s] = l]
    /\ since' = IF pc = "idle" THEN since ELSE [since EXCEPT ![s] = @ \cup {l}]
    /\ UNCHANGED <<pc, name, got, outcome>>

Next ==
    \/ \E n \in Name : Begin(n)
    \/ ReadMachine \/ ReadUser \/ ReadConfiguration \/ SkipConfiguration
    \/ Decide \/ Inspect \/ Launch
    \/ \E s \in Source, l \in Read : Push(s, l)

Spec == Init /\ [][Next]_vars

-----------------------------------------------------------------------------
(***************************************************************************)
(* Properties.                                                             *)
(***************************************************************************)
\* Layers that refuse a key: by name, or with a list that stands alone and
\* does not have it; and those that suppress the configuration.
Denying(key) == {l \in Layers : key \in Folded(l.denied)}
Locking(key) == {l \in Layers : l.allowed # {} /\ l.mode # {"append"} /\ key \notin Folded(l.allowed)}
Gating == {l \in Layers : l.user_may_extend = {FALSE}}

\* What is refused from the beginning of an open to its launch is not opened,
\* whatever is changed meanwhile in the other layers: by a machine policy that
\* denies it, locks the list or cannot be read, by a user policy that denies it
\* or cannot be read, and by a configuration that does, unless one of the two
\* policies suppressed that at some moment.
StandingRefusalsHold ==
    outcome = "Open" =>
        LET refusing == Denying(name.key) \cup {Broken} IN
        /\ ~(since["machine"] \subseteq refusing \cup Locking(name.key))
        /\ ~(since["user"] \subseteq refusing)
        /\ since["configuration"] \subseteq refusing
             => (since["machine"] \cup since["user"]) \cap Gating # {}

\* While the machine's policy suppresses the configuration, the user adds
\* nothing and breaks nothing: what opens is on a list of a policy or of the
\* build, and an open that fails for a layer fails for the user policy.
GateHolds ==
    since["machine"] \subseteq Gating =>
        /\ outcome = "Open" =>
             \E l \in {BuiltIn} \cup since["machine"] \cup (since["user"] \ {Broken}) :
               name.key \in Folded(l.allowed)
        /\ outcome = "Unreadable" => Broken \in since["user"]

\* The reference for a decision.  A layer's list counts unless a stronger layer
\* has one that stands alone, and a refusal counts wherever it is.
Rank == [machine |-> 3, user |-> 2, configuration |-> 1, builtin |-> 0]
Said == [s \in DOMAIN Rank |-> IF s = "builtin" THEN BuiltIn ELSE got[s]]
Listed(key) ==
    \E s \in DOMAIN Rank :
        /\ key \in Folded(Said[s].allowed)
        /\ \A t \in DOMAIN Rank :
             Rank[t] > Rank[s] /\ Said[t].allowed # {} => Said[t].mode = {"append"}
Refused(key) == \E s \in DOMAIN Rank : key \in Folded(Said[s].denied)

\* Every decision is the reference's, for what was read.
DecisionsAreTheReference ==
    /\ outcome = "Denied" => Refused(name.key)
    /\ outcome = "NotPermitted" => ~Refused(name.key) /\ ~Listed(name.key)
    /\ outcome = "Open" => ~Refused(name.key) /\ Listed(name.key)

\* A refusal that is policy's doing can be told for one: where the configuration
\* alone would have opened it whenever it was read, a layer of policy has set
\* something.
RefusalsAreExplained ==
    /\ outcome \in {"Denied", "NotPermitted"}
    /\ \A c \in since["configuration"] :
         c # Broken /\ Decision([Nothing EXCEPT !["configuration"] = c], name.key) = "Open"
    => Managed(got)

-----------------------------------------------------------------------------
(***************************************************************************)
(* The inductive invariant behind them: what has been read was there, a    *)
(* suppressed configuration was not read, and nothing comes after a        *)
(* decision that was not made of all of it.                                *)
(***************************************************************************)
After == [machine       |-> {"user", "configuration", "decide", "inspect", "launch"},
          user          |-> {"configuration", "decide", "inspect", "launch"},
          configuration |-> {"decide", "inspect", "launch"}]

HasRead(s) == got[s] \in since[s]
Policies == HasRead("machine") /\ HasRead("user")
Consulted ==
    IF MayExtend(got["machine"], got["user"]) THEN HasRead("configuration")
    ELSE got["configuration"] = Silent

ReadsAreReal ==
    /\ pc # "idle" => outcome = "none" /\ \A s \in Source : layer[s] \in since[s]
    /\ pc \in After.machine => HasRead("machine")
    /\ pc \in After.user => HasRead("user")
    /\ pc \in {"machine", "user", "configuration"} => got["configuration"] = Silent
    /\ pc \in After.configuration => Consulted
DecisionsAreMade ==
    /\ pc \in {"inspect", "launch"} => Decision(got, name.key) = "Open"
    /\ outcome \in Decisions => /\ Policies /\ Consulted
                                /\ outcome = Decision(got, name.key)
FailuresAreReal ==
    outcome = "Unreadable" =>
        \/ Broken \in since["machine"] \cup since["user"]
        \/ Policies /\ MayExtend(got["machine"], got["user"])

\* The invariant: types, and that an open goes by what somebody had written
\* while it was under way.
IndInv == TypeOK /\ ReadsAreReal /\ DecisionsAreMade /\ FailuresAreReal
===============================================================================
