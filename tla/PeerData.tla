----------------------------- MODULE PeerData -----------------------------
(***************************************************************************)
(* The peer relation as DataPeerData and DataPeerUnitData keep it: each    *)
(* of the application and the units has a databag and one secret, found by *)
(* its label, for the fields that the charm declared secret.  Handlers     *)
(* write through RelationContext.update.  Shown to implement SharedDict,   *)
(* the dictionaries that the handlers take it for.                         *)
(*                                                                         *)
(* A hook reads databags and secrets as they were when it started; writes  *)
(* are committed when it ends well.  Juju refuses those to the             *)
(* application's databag and secret from a unit that lost the lead since   *)
(* the hook began, and the hook fails.  A secret that was removed in a     *)
(* hook is taken not to be found again in the same hook.                   *)
(***************************************************************************)
EXTENDS Naturals, FiniteSets, FiniteSetsExt, DataOps

CONSTANTS
    Units,       \* the units of the application
    AppSecrets, AppPlain,    \* fields of AppContext: in the secret, in the databag
    UnitSecrets, UnitPlain,  \* fields of TLSContext
    Values, Empty,  \* what a field may be set to; the empty string
    MaxWrites,   \* bound: calls of RelationContext.update
    MaxLeads,    \* bound: how often the leadership moves
    MaxFaults    \* bound: hooks that die

ASSUME UnitsAssumption  == IsFiniteSet(Units) /\ Units # {} /\ "app" \notin Units
ASSUME FieldsAssumption ==
    /\ AppSecrets \cap AppPlain = {} /\ UnitSecrets \cap UnitPlain = {}
    /\ IsFiniteSet(AppSecrets \cup AppPlain) /\ IsFiniteSet(UnitSecrets \cup UnitPlain)
ASSUME ValuesAssumption == Empty \notin Values
ASSUME BoundsAssumption == MaxWrites \in Nat /\ MaxLeads \in Nat /\ MaxFaults \in Nat

VARIABLES
    bag,      \* databags: of "app" and of each unit
    secret,   \* their secrets' contents, empty where there is no secret
    leader,
    hook,     \* for each unit: its view of "app" and of itself
    writes, leads, faults

vars == <<bag, secret, leader, hook, writes, leads, faults>>

AppFields  == AppSecrets \cup AppPlain
UnitFields == UnitSecrets \cup UnitPlain
Scopes     == {"app"} \cup Units
FieldsOf(s) == IF s = "app" THEN AppFields ELSE UnitFields
Items(s) == UNION {[F -> Values \cup {Empty}] : F \in SUBSET FieldsOf(s) \ {{}}}

\* A view of one scope, in the form that DataOps takes; all secret fields of a
\* scope are in its one secret.
View(b, s) == [bag |-> [own |-> b], secret |-> [extra |-> s]]
NoHook == [on |-> FALSE, app |-> View(<<>>, <<>>), unit |-> View(<<>>, <<>>),
           wrote |-> FALSE, void |-> FALSE]

IsPart(f, F) == DOMAIN f \subseteq F /\ \A x \in DOMAIN f : f[x] \in Values
IsView(v, s) == IsPart(v.bag["own"], FieldsOf(s)) /\ IsPart(v.secret["extra"], FieldsOf(s))

TypeOK ==
    /\ DOMAIN bag = Scopes /\ DOMAIN secret = Scopes
    /\ \A s \in Scopes : IsView(View(bag[s], secret[s]), s)
    /\ leader \in Units /\ DOMAIN hook = Units
    /\ \A u \in Units : /\ {hook[u].on, hook[u].wrote, hook[u].void} \subseteq BOOLEAN
                        /\ IsView(hook[u].app, "app") /\ IsView(hook[u].unit, u)
    /\ writes \in 0..MaxWrites /\ leads \in 0..MaxLeads /\ faults \in 0..MaxFaults

-----------------------------------------------------------------------------
(* DataPeerData *)

\* mutant: the fields are not declared secret
NoSecrets(s) == {}

\* The additional_secret_fields that Context gives its two interfaces.
SecretsOf(s) == IF s = "app" THEN AppSecrets ELSE UnitSecrets

PeerObject(u, s) ==
    [component |-> "own", leader |-> u = leader, local |-> SecretsOf(s),
     group |-> [f \in FieldsOf(s) |-> "extra"], uri |-> <<>>]

\* update_relation_data: what an older version left in the databag goes first.
PeerUpdate(d, v, data) ==
    Update(d, [v EXCEPT !.bag["own"] = Drop(@, d.local \cap DOMAIN data)], data)

\* mutant: empty strings are stored
StoreAll(d, v, items) == PeerUpdate(d, v, items)

\* RelationContext.update: empty fields are deleted, one after the other.
SetItems(d, v, items) ==
    LET empty == {f \in DOMAIN items : items[f] = Empty}
    IN  FoldSet(LAMBDA f, w : Delete(d, w, {f}), PeerUpdate(d, v, Drop(items, empty)), empty)

\* DataDict.get of every field.
Contents(d, v, s) ==
    LET got == [f \in FieldsOf(s) |-> Fetch(d, v, "own", d.local, {f})]
    IN  [f \in {x \in FieldsOf(s) : x \in DOMAIN got[x]} |-> got[f][f]]

-----------------------------------------------------------------------------
(* Hooks *)

Begin(u) ==
    /\ ~hook[u].on
    /\ hook' = [hook EXCEPT ![u] = [NoHook EXCEPT !.on = TRUE,
           !.app = View(bag["app"], secret["app"]), !.unit = View(bag[u], secret[u])]]
    /\ UNCHANGED <<bag, secret, leader, writes, leads, faults>>

\* A handler updates the unit's own data ...
UpdateUnit(u, items) ==
    /\ hook[u].on /\ writes < MaxWrites /\ writes' = writes + 1
    /\ hook' = [hook EXCEPT ![u].unit = SetItems(PeerObject(u, u), @, items)]
    /\ UNCHANGED <<bag, secret, leader, leads, faults>>

\* mutant: any unit's update of the application's data is taken
UpdateAppUnguarded(u, items) ==
    /\ hook[u].on /\ writes < MaxWrites /\ writes' = writes + 1
    /\ hook' = [hook EXCEPT ![u].app = SetItems(PeerObject(u, "app"), @, items),
                            ![u].wrote = TRUE]
    /\ UNCHANGED <<bag, secret, leader, leads, faults>>

\* ... or the application's, which the library drops unless the unit leads.
UpdateApp(u, items) ==
    /\ hook[u].on /\ writes < MaxWrites /\ writes' = writes + 1
    /\ hook' = IF u = leader
               THEN [hook EXCEPT ![u].app = SetItems(PeerObject(u, "app"), @, items),
                                 ![u].wrote = TRUE]
               ELSE hook
    /\ UNCHANGED <<bag, secret, leader, leads, faults>>

Commit(u) ==
    LET h == hook[u]
    IN  /\ h.on /\ ~(h.wrote /\ h.void)
        /\ bag' = [bag EXCEPT ![u] = h.unit.bag["own"],
                              !["app"] = IF h.wrote THEN h.app.bag["own"] ELSE @]
        /\ secret' = [secret EXCEPT ![u] = h.unit.secret["extra"],
                                    !["app"] = IF h.wrote THEN h.app.secret["extra"] ELSE @]
        /\ hook' = [hook EXCEPT ![u] = NoHook]
        /\ UNCHANGED <<leader, writes, leads, faults>>

\* The commit is refused, or the hook dies before.
Abort(u) ==
    /\ hook[u].on /\ hook' = [hook EXCEPT ![u] = NoHook]
    /\ IF hook[u].wrote /\ hook[u].void THEN UNCHANGED faults
       ELSE faults < MaxFaults /\ faults' = faults + 1
    /\ UNCHANGED <<bag, secret, leader, writes, leads>>

LeaderMoves(u) ==
    /\ u # leader /\ leads < MaxLeads /\ leads' = leads + 1
    /\ leader' = u
    /\ hook' = [x \in Units |-> [hook[x] EXCEPT !.void = hook[x].on]]
    /\ UNCHANGED <<bag, secret, writes, faults>>

Init ==
    /\ bag = [s \in Scopes |-> <<>>] /\ secret = [s \in Scopes |-> <<>>]
    /\ leader \in Units /\ hook = [u \in Units |-> NoHook]
    /\ writes = 0 /\ leads = 0 /\ faults = 0

Next ==
    \E u \in Units :
        \/ Begin(u) \/ Commit(u) \/ Abort(u) \/ LeaderMoves(u)
        \/ \E items \in Items(u) : UpdateUnit(u, items)
        \/ \E items \in Items("app") : UpdateApp(u, items)

Spec == Init /\ [][Next]_vars

-----------------------------------------------------------------------------
(* Properties *)

\* Passwords and keys are never in a databag (which every unit and the operator
\* can read), neither by an update nor by a deletion that fails halfway.
PeerSecretsStaySecret ==
    /\ \A s \in Scopes : DOMAIN bag[s] \cap SecretsOf(s) = {}
    /\ \A u \in Units : /\ DOMAIN hook[u].app.bag["own"] \cap AppSecrets = {}
                        /\ DOMAIN hook[u].unit.bag["own"] \cap UnitSecrets = {}

\* Whatever is set and deleted in whatever order, by whichever unit, and whichever
\* hooks die, what the charm reads is what the dictionaries of SharedDict hold:
\* deleting some fields of a secret keeps the others, the last one removes the
\* secret, a later update makes it anew, and updates of a unit that does not lead
\* leave nothing behind.
CopyOf(u) ==
    [app  |-> Contents(PeerObject(u, "app"), hook[u].app, "app"),
     unit |-> Contents(PeerObject(u, u), hook[u].unit, u)]

Dict == INSTANCE SharedDict WITH
    dict <- [s \in Scopes |-> Contents(PeerObject(leader, s), View(bag[s], secret[s]), s)],
    running <- {u \in Units : hook[u].on}, wrote <- {u \in Units : hook[u].wrote},
    void <- {u \in Units : hook[u].void}, copy <- [u \in Units |-> CopyOf(u)]

IsADictionary == Dict!Spec

\* Each update of a unit's or, by the leader, of the application's data leaves
\* exactly what setting the items in a dictionary would, in whatever state other
\* updates have left secret and databag: a field that is emptied takes no other with
\* it (the loop of deletions in RelationContext.update), and one that is set is read
\* back as set.
UpdateIsSet ==
    \A u \in Units : hook[u].on =>
        \A s \in {u} \cup (IF u = leader THEN {"app"} ELSE {}) :
            LET d == PeerObject(u, s)
                v == IF s = "app" THEN hook[u].app ELSE hook[u].unit
            IN  \A items \in Items(s) :
                    Contents(d, SetItems(d, v, items), s) = Dict!Set(Contents(d, v, s), items)
=============================================================================
