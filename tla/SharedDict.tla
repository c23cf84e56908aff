---------------------------- MODULE SharedDict ----------------------------
(***************************************************************************)
(* What the charm's code takes the peer relation for: one dictionary of    *)
(* the application, which every unit reads and the leader writes, and one  *)
(* of each unit.  A field set to the empty string is not there.  A hook    *)
(* works on a copy, in which it reads what it wrote; others see the copy   *)
(* when the hook ends well, and nothing of it when the hook dies.          *)
(***************************************************************************)
CONSTANTS Units, AppFields, UnitFields, Values, Empty

VARIABLES dict,    \* "app" or a unit -> fields -> values
          leader,  \* the unit that leads
          running, \* units that run a hook
          wrote,   \* those whose hook wrote for the application
          void,    \* those whose hook began under another leader
          copy     \* for each unit: what its hook works on
vars == <<dict, leader, running, wrote, void, copy>>

Scopes == {"app"} \cup Units
FieldsOf(s) == IF s = "app" THEN AppFields ELSE UnitFields
\* What may be given to RelationContext.update.
Items(s) == UNION {[F -> Values \cup {Empty}] : F \in SUBSET FieldsOf(s) \ {{}}}

NoCopy == [app |-> <<>>, unit |-> <<>>]

\* The dictionary d with the items set.
Set(d, items) ==
    LET at(f) == IF f \in DOMAIN items THEN items[f] ELSE d[f]
    IN  [f \in {x \in DOMAIN items \cup DOMAIN d : at(x) # Empty} |-> at(f)]

Begin(u) ==
    /\ u \notin running /\ running' = running \cup {u}
    /\ copy' = [copy EXCEPT ![u] = [app |-> dict["app"], unit |-> dict[u]]]
    /\ UNCHANGED <<leader, wrote, void, dict>>

WriteUnit(u) ==
    /\ u \in running /\ UNCHANGED <<leader, running, wrote, void, dict>>
    /\ \E items \in Items(u) : copy' = [copy EXCEPT ![u].unit = Set(@, items)]

\* Of other units than the leader, this is ignored.
WriteApp(u) ==
    /\ u \in running /\ u = leader
    /\ wrote' = wrote \cup {u}
    /\ UNCHANGED <<leader, running, void, dict>>
    /\ \E items \in Items("app") : copy' = [copy EXCEPT ![u].app = Set(@, items)]

End(u) ==
    /\ u \in running /\ running' = running \ {u}
    /\ wrote' = wrote \ {u} /\ void' = void \ {u} /\ UNCHANGED leader
    /\ copy' = [copy EXCEPT ![u] = NoCopy]

Commit(u) ==
    /\ u \notin wrote \cap void /\ End(u)
    /\ dict' = [dict EXCEPT ![u] = copy[u].unit,
                            !["app"] = IF u \in wrote THEN copy[u].app ELSE @]

Abort(u) == End(u) /\ UNCHANGED dict

\* What a hook wrote for the application under the former leader is void.
NewLeader(u) ==
    /\ leader' = u /\ leader # u
    /\ void' = running
    /\ UNCHANGED <<running, wrote, dict, copy>>

Init ==
    /\ dict = [s \in Scopes |-> <<>>] /\ leader \in Units
    /\ running = {} /\ wrote = {} /\ void = {}
    /\ copy = [u \in Units |-> NoCopy]

Next ==
    \E u \in Units : \/ Begin(u) \/ Commit(u) \/ Abort(u) \/ NewLeader(u)
                     \/ WriteUnit(u) \/ WriteApp(u)

Spec == Init /\ [][Next]_vars
=============================================================================
