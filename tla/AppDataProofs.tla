--------------------------- MODULE AppDataProofs ---------------------------
(***************************************************************************)
(* Theorems about AppData, for any number of units, changes, relations and *)
(* faults.                                                                 *)
(***************************************************************************)
EXTENDS AppData, TLAPS, SequenceTheorems

(* What the helpers return. *)
LEMMA EventTasksType == \A e \in Events : EventTasks(e) \in Seq(Tasks)
<1> SUFFICES ASSUME NEW e \in Events PROVE EventTasks(e) \in Seq(Tasks)
  OBVIOUS
<1>1. \A s, t \in Tasks : <<s>> \in Seq(Tasks) /\ <<s, t>> \in Seq(Tasks)
  OBVIOUS
<1>2. EventTasks(e) \in {<<"secrets", "reconcile">>, <<"secrets">>, <<"route_lib">>,
                         <<"route_lib", "reconcile">>, <<"reconcile">>, <<"oauth_lib">>,
                         <<"oauth">>, <<"oauth_broken">>}
  BY DEF Events, EventTasks
<1>3. {"secrets", "reconcile", "oauth", "oauth_broken", "route_lib", "oauth_lib"} \subseteq Tasks
  BY DEF Tasks
<1> QED
  BY <1>1, <1>2, <1>3

LEMMA IdleHookType == IdleHook \in Hook
<1>1. (CHOOSE w \in InitialWorlds : TRUE) \in World
  BY InitialAssumption
<1>2. [admin |-> Empty, javaPw |-> Empty, secret |-> Empty] \in App
  BY DEF App, Empty
<1>3. "status" \in Events
  BY DEF Events
<1>4. <<>> \in Seq(Tasks)
  OBVIOUS
<1> QED
  BY <1>1, <1>2, <1>3, <1>4 DEF IdleHook, Hook

LEMMA IngressUrlType == ASSUME NEW u \in Units, NEW w PROVE IngressUrl(u, w) \in Urls
BY DEF IngressUrl, Urls

LEMMA RenderType ==
    ASSUME NEW u \in Units, NEW a \in App, NEW w \in World PROVE Render(u, a, w) \in Conf
<1>1. IngressUrl(u, w) \in Urls /\ NoUrl \in Urls
  BY IngressUrlType DEF Urls
<1> QED
  BY <1>1 DEF Render, Conf, App, Empty

LEMMA AppPasswordsType ==
    ASSUME NEW a \in App, NEW p \in Nat, NEW q \in Nat PROVE AppPasswords(a, p, q) \in App
BY DEF AppPasswords, App

LEMMA Append1Type ==
    ASSUME NEW s \in Seq(Tasks), NEW t \in Tasks PROVE Append1(s, t) \in Seq(Tasks)
BY DEF Append1

\* A handler that returns, defers or emits leaves a hook.
LEMMA HandlerTypes ==
    ASSUME NEW h \in Hook, h.work # <<>>
    PROVE  /\ Return(h) \in Hook /\ Defer(h) \in Hook /\ Emit(h) \in Hook
           /\ Return(h).work = Tail(h.work) /\ Defer(h).work = Tail(h.work)
           /\ Return(h).app = h.app /\ Defer(h).app = h.app /\ Emit(h).app = h.app
<1>1. h.work \in Seq(Tasks) /\ h.deferred \in Seq(Tasks)
  BY DEF Hook
<1>2. Tail(h.work) \in Seq(Tasks) /\ Head(h.work) \in Tasks
  BY <1>1, HeadTailProperties
<1>3. Return(h) \in Hook /\ Return(h).work = Tail(h.work) /\ Return(h).deferred = h.deferred
      /\ Return(h).app = h.app
  BY <1>2 DEF Return, Hook
<1>4. Append1(h.deferred, Head(h.work)) \in Seq(Tasks)
  BY <1>1, <1>2, Append1Type
<1>5. Defer(h) \in Hook /\ Defer(h).work = Tail(h.work) /\ Defer(h).app = h.app
  BY <1>3, <1>4 DEF Defer, Hook
<1>6. EventTasks("config") \in Seq(Tasks)
  BY EventTasksType DEF Events
<1>7. EventTasks("config") \o Tail(h.work) \in Seq(Tasks)
  BY <1>2, <1>6, ConcatProperties
<1>8. Emit(h) \in Hook /\ Emit(h).app = h.app
  BY <1>3, <1>7 DEF Emit, Hook
<1> QED
  BY <1>3, <1>5, <1>8

-----------------------------------------------------------------------------
(* Type correctness. *)

LEMMA TypeInit == Init => TypeOK
<1> SUFFICES ASSUME Init PROVE TypeOK
  OBVIOUS
<1>1. world \in World /\ leader \in Units /\ {world.route, world.oauth} \subseteq {NoRel, 1}
  BY InitialAssumption DEF Init
<1>2. pending \in [Units -> SUBSET Events]
  BY DEF Init, Events
<1>3. app \in App
  BY DEF Init, App, Empty
<1>4. deferred \in [Units -> Seq(Tasks)]
  BY DEF Init
<1>5. hook \in [Units -> Hook]
  BY IdleHookType DEF Init
<1>6. conf \in [Units -> Conf]
  BY DEF Init, Conf, Empty, Urls
<1>7. made \in [{"route", "oauth"} -> 0..MaxRelations]
  BY <1>1, BoundsAssumption DEF Init, NoRel
<1>8. changes \in 0..MaxChanges /\ faults \in 0..MaxFaults
  BY BoundsAssumption DEF Init
<1> QED
  BY <1>1, <1>2, <1>3, <1>4, <1>5, <1>6, <1>7, <1>8 DEF Init, TypeOK

LEMMA RaiseType ==
    ASSUME NEW new \in SUBSET Events, NEW gone, TypeOK, Raise(new, gone)
    PROVE  pending' \in [Units -> SUBSET Events]
BY DEF TypeOK, Raise

LEMMA CanChangeType ==
    ASSUME NEW kind, TypeOK, CanChange(kind) PROVE changes' \in 0..MaxChanges
BY BoundsAssumption DEF TypeOK, CanChange

LEMMA WorldNextType == TypeOK /\ WorldNext => TypeOK'
<1> SUFFICES ASSUME TypeOK, WorldNext PROVE TypeOK'
  OBVIOUS
<1> USE DEF RestUnchanged, fileVars, bagVars
<1>1. {"config", "route_created", "route_changed", "route_broken", "oauth_created",
       "oauth_changed", "oauth_broken", "secret"} \subseteq Events
  BY DEF Events
<1>2. CASE ConfigChange
  <2>1. world' \in World
    BY <1>2 DEF ConfigChange, TypeOK, World
  <2>2. pending' \in [Units -> SUBSET Events] /\ changes' \in 0..MaxChanges
    BY <1>1, <1>2, RaiseType, CanChangeType DEF ConfigChange
  <2> QED
    BY <1>2, <2>1, <2>2 DEF ConfigChange, TypeOK
<1>3. CASE AdminRotated
  <2>1. world' \in World
    BY <1>3 DEF AdminRotated, TypeOK, World
  <2>2. pending' \in [Units -> SUBSET Events]
    <3>1. CASE world.userPw = Empty
      BY <1>1, <1>3, <3>1, RaiseType DEF AdminRotated
    <3>2. CASE world.userPw # Empty
      <4>1. pending' = [pending EXCEPT ![leader] = pending[leader] \cup {"secret"}]
        BY <1>3, <3>2 DEF AdminRotated
      <4>2. pending \in [Units -> SUBSET Events]
        BY DEF TypeOK
      <4> QED
        BY <1>1, <4>1, <4>2
    <3> QED
      BY <3>1, <3>2
  <2>3. changes' \in 0..MaxChanges
    BY <1>3, CanChangeType DEF AdminRotated
  <2> QED
    BY <1>3, <2>1, <2>2, <2>3 DEF AdminRotated, TypeOK
<1>4. CASE RouteAdded
  <2>1. made' \in [{"route", "oauth"} -> 0..MaxRelations] /\ made'["route"] \in Nat
    BY <1>4, BoundsAssumption DEF RouteAdded, TypeOK
  <2>2. world' \in World
    BY <1>4, <2>1 DEF RouteAdded, TypeOK, World
  <2>3. pending' \in [Units -> SUBSET Events] /\ changes' \in 0..MaxChanges
    BY <1>1, <1>4, RaiseType, CanChangeType DEF RouteAdded
  <2> QED
    BY <1>4, <2>1, <2>2, <2>3 DEF RouteAdded, TypeOK
<1>5. CASE RouteRemoved
  <2>1. world' \in World
    BY <1>5 DEF RouteRemoved, TypeOK, World, NoRel
  <2>2. pending' \in [Units -> SUBSET Events] /\ changes' \in 0..MaxChanges
    BY <1>1, <1>5, RaiseType, CanChangeType DEF RouteRemoved
  <2> QED
    BY <1>5, <2>1, <2>2 DEF RouteRemoved, TypeOK
<1>6. CASE OAuthAdded
  <2>1. made' \in [{"route", "oauth"} -> 0..MaxRelations] /\ made'["oauth"] \in Nat
    BY <1>6, BoundsAssumption DEF OAuthAdded, TypeOK
  <2>2. world' \in World
    BY <1>6, <2>1 DEF OAuthAdded, TypeOK, World
  <2>3. pending' \in [Units -> SUBSET Events] /\ changes' \in 0..MaxChanges
    BY <1>1, <1>6, RaiseType, CanChangeType DEF OAuthAdded
  <2> QED
    BY <1>6, <2>1, <2>2, <2>3 DEF OAuthAdded, TypeOK
<1>7. CASE OAuthRemoved
  <2>1. world' \in World
    BY <1>7 DEF OAuthRemoved, TypeOK, World, NoRel
  <2>2. pending' \in [Units -> SUBSET Events] /\ changes' \in 0..MaxChanges
    BY <1>1, <1>7, RaiseType, CanChangeType DEF OAuthRemoved
  <2> QED
    BY <1>7, <2>1, <2>2 DEF OAuthRemoved, TypeOK
<1>8. CASE LeadershipChange
  BY <1>8, CanChangeType DEF LeadershipChange, TypeOK
<1> QED
  BY <1>2, <1>3, <1>4, <1>5, <1>6, <1>7, <1>8 DEF WorldNext

LEMMA ProvidersNextType == TypeOK /\ ProvidersNext => TypeOK'
<1> SUFFICES ASSUME TypeOK, ProvidersNext PROVE TypeOK'
  OBVIOUS
<1>1. "route_changed" \in Events /\ "oauth_changed" \in Events
  BY DEF Events
<1>2. world' \in World
  BY DEF ProvidersNext, HAProxyAnswers, ProviderAnswers, TypeOK, World
<1>3. pending' \in [Units -> SUBSET Events]
  BY <1>1, RaiseType DEF ProvidersNext, HAProxyAnswers, ProviderAnswers
<1> QED
  BY <1>2, <1>3 DEF ProvidersNext, HAProxyAnswers, ProviderAnswers, TypeOK, RestUnchanged,
                    fileVars, bagVars

LEMMA StartHookType ==
    ASSUME TypeOK, NEW u \in Units, NEW e \in Events, StartHook(u, e)
    PROVE  /\ hook' \in [Units -> Hook] /\ \A x \in Units \ {u} : hook'[x] = hook[x]
           /\ hook'[u].app = app /\ hook'[u].pc = "run" /\ hook'[u].world = world
           /\ hook'[u].routes = NoConfig /\ hook'[u].wrote = FALSE
           /\ hook'[u].work = deferred[u] \o EventTasks(e) /\ hook'[u].event = e
<1> DEFINE h == [IdleHook EXCEPT !.pc = "run", !.event = e, !.world = world, !.app = app,
                                 !.work = deferred[u] \o EventTasks(e)]
<1>1. deferred[u] \o EventTasks(e) \in Seq(Tasks)
  BY EventTasksType, ConcatProperties DEF TypeOK
<1>2. h \in Hook
  BY <1>1, IdleHookType DEF Hook, TypeOK
<1>3. hook' = [hook EXCEPT ![u] = h]
  BY DEF StartHook
<1> HIDE DEF h
<1>4. hook' \in [Units -> Hook] /\ hook'[u] = h /\ \A x \in Units \ {u} : hook'[x] = hook[x]
  BY <1>2, <1>3 DEF TypeOK
<1> QED
  BY <1>4 DEF h, IdleHook

LEMMA FailedType ==
    ASSUME TypeOK, NEW u \in Units, Failed(u)
    PROVE  /\ hook' \in [Units -> Hook] /\ suspect' = suspect \cup {u}
           /\ \A x \in Units \ {u} : hook'[x] = hook[x]
           /\ hook'[u].app = [admin |-> Empty, javaPw |-> Empty, secret |-> Empty]
           /\ hook'[u].pc = "failed"
<1> DEFINE h == [IdleHook EXCEPT !.pc = "failed", !.event = hook[u].event]
<1>1. h \in Hook
  BY IdleHookType DEF Hook, TypeOK
<1>2. hook' = [hook EXCEPT ![u] = h] /\ suspect' = suspect \cup {u}
  BY DEF Failed
<1> HIDE DEF h
<1>3. hook' \in [Units -> Hook] /\ hook'[u] = h /\ \A x \in Units \ {u} : hook'[x] = hook[x]
  BY <1>1, <1>2 DEF TypeOK
<1> QED
  BY <1>2, <1>3 DEF h, IdleHook

LEMMA HookSet ==
    ASSUME TypeOK, NEW u \in Units, NEW h \in Hook, hook' = [hook EXCEPT ![u] = h]
    PROVE  hook' \in [Units -> Hook] /\ hook'[u] = h /\ \A x \in Units \ {u} : hook'[x] = hook[x]
BY DEF TypeOK

LEMMA CallsType ==
    ASSUME TypeOK, NEW u \in Units, NEW t, Calls(u, t)
    PROVE  /\ hook[u] \in Hook /\ hook[u].work # <<>> /\ hook[u].app \in App
           /\ hook[u].world \in World /\ hook[u].pc = "run"
BY DEF TypeOK, Calls, Hook

\* What the handlers do with a hook: types, and what becomes of its databag.
LEMMA SecretsHook ==
    ASSUME TypeOK, NEW u \in Units, Secrets(u)
    PROVE  /\ hook' \in [Units -> Hook] /\ \A x \in Units \ {u} : hook'[x] = hook[x]
           /\ \/ hook'[u].app = hook[u].app
              \/ \E p \in Nat \ {Empty} : hook'[u].app = [hook[u].app EXCEPT !.admin = p]
           /\ hook'[u].routes = hook[u].routes
<1> DEFINE h == hook[u]
           p == h.world.userPw
           g == [Emit(h) EXCEPT !.app.admin = p, !.wrote = TRUE]
<1>1. h \in Hook /\ h.work # <<>> /\ h.app \in App /\ h.world \in World
  BY CallsType DEF Secrets
<1>2. Return(h) \in Hook /\ Emit(h) \in Hook /\ Emit(h).app = h.app /\ Return(h).app = h.app
  BY <1>1, HandlerTypes
<1>3. Return(h).routes = h.routes /\ Emit(h).routes = h.routes
  BY <1>1 DEF Return, Emit, Hook
<1>4. CASE leader = u /\ p \notin {Empty, h.app.admin}
  <2>1. p \in Nat \ {Empty}
    BY <1>1, <1>4, UserPwsAssumption DEF World
  <2>2. g \in Hook /\ g.app = [h.app EXCEPT !.admin = p] /\ g.routes = h.routes
    BY <1>1, <1>2, <1>3, <2>1 DEF Hook, App
  <2>3. hook' = [hook EXCEPT ![u] = g]
    BY <1>4 DEF Secrets
  <2> HIDE DEF g
  <2>4. hook' \in [Units -> Hook] /\ hook'[u] = g /\ \A x \in Units \ {u} : hook'[x] = hook[x]
    BY <2>2, <2>3, HookSet
  <2> QED
    BY <2>1, <2>2, <2>4
<1>5. CASE ~(leader = u /\ p \notin {Empty, h.app.admin})
  <2>1. hook' = [hook EXCEPT ![u] = Return(h)]
    BY <1>5 DEF Secrets
  <2>2. hook' \in [Units -> Hook] /\ hook'[u] = Return(h) /\ \A x \in Units \ {u} : hook'[x] = hook[x]
    BY <1>2, <2>1, HookSet
  <2> QED
    BY <1>2, <1>3, <2>2
<1> QED
  BY <1>4, <1>5

LEMMA OAuthHook ==
    ASSUME TypeOK, NEW u \in Units, OAuth(u) \/ OAuthBroken(u)
    PROVE  /\ hook' \in [Units -> Hook] /\ \A x \in Units \ {u} : hook'[x] = hook[x]
           /\ \E s \in Nat : hook'[u].app = [hook[u].app EXCEPT !.secret = s]
           /\ hook'[u].routes = hook[u].routes
<1> DEFINE h == hook[u]
           g(s) == [Emit(h) EXCEPT !.app.secret = s, !.wrote = TRUE]
<1>1. h \in Hook /\ h.work # <<>> /\ h.app \in App /\ h.world \in World
  BY CallsType DEF OAuth, OAuthBroken
<1>2. /\ Return(h) \in Hook /\ Emit(h) \in Hook /\ Defer(h) \in Hook
      /\ Emit(h).app = h.app /\ Return(h).app = h.app /\ Defer(h).app = h.app
  BY <1>1, HandlerTypes
<1>3. Return(h).routes = h.routes /\ Emit(h).routes = h.routes /\ Defer(h).routes = h.routes
  BY <1>1 DEF Return, Emit, Defer, Hook
<1>4. \A s \in Nat : g(s) \in Hook /\ g(s).app = [h.app EXCEPT !.secret = s]
                     /\ g(s).routes = h.routes
  BY <1>1, <1>2, <1>3 DEF Hook, App
<1>5. \E s \in Nat : h.app = [h.app EXCEPT !.secret = s]
  <2>1. h.app.secret \in Nat /\ h.app = [h.app EXCEPT !.secret = h.app.secret]
    BY <1>1 DEF App
  <2> QED
    BY <2>1
<1>6. h.world.oauth \in Nat /\ Empty \in Nat
  BY <1>1 DEF World, Empty
<1>7. PICK f : /\ hook' = [hook EXCEPT ![u] = f]
               /\ f \in {Return(h), Defer(h)} \/ \E s \in Nat : f = g(s)
  <2>1. CASE OAuth(u)
    <3>1. \/ hook' = [hook EXCEPT ![u] = Return(h)] \/ hook' = [hook EXCEPT ![u] = Defer(h)]
          \/ hook' = [hook EXCEPT ![u] = g(h.world.oauth)]
      BY <2>1 DEF OAuth
    <3> QED
      BY <3>1, <1>6
  <2>2. CASE OAuthBroken(u)
    <3>1. \/ hook' = [hook EXCEPT ![u] = Return(h)] \/ hook' = [hook EXCEPT ![u] = g(Empty)]
      BY <2>2 DEF OAuthBroken
    <3> QED
      BY <3>1, <1>6
  <2> QED
    BY <2>1, <2>2
<1> HIDE DEF g
<1>8. f \in Hook /\ f.routes = h.routes
  BY <1>2, <1>3, <1>4, <1>7
<1>9. \E s \in Nat : f.app = [h.app EXCEPT !.secret = s]
  BY <1>2, <1>4, <1>5, <1>7
<1>10. hook' \in [Units -> Hook] /\ hook'[u] = f /\ \A x \in Units \ {u} : hook'[x] = hook[x]
  BY <1>7, <1>8, HookSet
<1> QED
  BY <1>8, <1>9, <1>10

LEMMA LibHook ==
    ASSUME TypeOK, NEW u \in Units, RouteLib(u) \/ OAuthLib(u)
    PROVE  /\ hook' \in [Units -> Hook] /\ \A x \in Units \ {u} : hook'[x] = hook[x]
           /\ hook'[u].app = hook[u].app
<1> DEFINE h == hook[u]
           r == [Return(h) EXCEPT !.routes = h.world.cfg]
           c == [Return(h) EXCEPT !.client = IngressUrl(u, h.world)]
<1>1. h \in Hook /\ h.work # <<>> /\ h.app \in App /\ h.world \in World
  BY CallsType DEF RouteLib, OAuthLib
<1>2. Return(h) \in Hook /\ Return(h).app = h.app
  BY <1>1, HandlerTypes
<1>3. r \in Hook /\ r.app = h.app
  BY <1>1, <1>2 DEF Hook, World
<1>4. c \in Hook /\ c.app = h.app
  BY <1>1, <1>2, IngressUrlType DEF Hook
<1>5. PICK f \in {Return(h), r, c} : hook' = [hook EXCEPT ![u] = f]
  <2>1. \/ hook' = [hook EXCEPT ![u] = Return(h)] \/ hook' = [hook EXCEPT ![u] = r]
        \/ hook' = [hook EXCEPT ![u] = c]
    BY DEF RouteLib, OAuthLib
  <2> HIDE DEF r, c
  <2> QED
    BY <2>1
<1> HIDE DEF r, c
<1>6. f \in Hook /\ f.app = h.app
  BY <1>2, <1>3, <1>4
<1> QED
  BY <1>5, <1>6, HookSet

\* The databag that _on_config_changed goes on with.
AppOf(u) ==
    IF leader = u /\ Empty \in {hook[u].app.admin, hook[u].app.javaPw}
    THEN AppPasswords(hook[u].app, drawn + 1, drawn + 2) ELSE hook[u].app
\* The hook after it.
Reconciled(u) ==
    [Return(hook[u]) EXCEPT
        !.app    = AppOf(u),
        !.wrote  = @ \/ (leader = u /\ Empty \in {hook[u].app.admin, hook[u].app.javaPw}),
        !.routes = IF RoutesDue(u, hook[u]) /\ leader = u THEN hook[u].world.cfg ELSE @,
        !.client = IF ClientDue(u, hook[u]) THEN IngressUrl(u, hook[u].world) ELSE @]

LEMMA AppOfType == ASSUME TypeOK, NEW u \in Units, Calls(u, "reconcile") PROVE AppOf(u) \in App
<1>1. hook[u].app \in App /\ drawn + 1 \in Nat /\ drawn + 2 \in Nat
  BY CallsType DEF TypeOK
<1> QED
  BY <1>1, AppPasswordsType DEF AppOf

LEMMA ReconciledType ==
    ASSUME TypeOK, NEW u \in Units, Calls(u, "reconcile")
    PROVE  /\ Reconciled(u) \in Hook /\ Reconciled(u).app = AppOf(u)
           /\ Reconciled(u).routes = IF RoutesDue(u, hook[u]) THEN hook[u].world.cfg
                                     ELSE hook[u].routes
           /\ Reconciled(u).work = Tail(hook[u].work)
<1> DEFINE h == hook[u]
<1>1. h \in Hook /\ h.work # <<>> /\ h.app \in App /\ h.world \in World
  BY CallsType
<1>2. Return(h) \in Hook /\ Return(h).work = Tail(h.work)
  BY <1>1, HandlerTypes
<1>3. Return(h).routes = h.routes
  BY <1>1 DEF Return, Hook
<1>4. h.world.cfg \in Configs /\ IngressUrl(u, h.world) \in Urls
  BY <1>1, IngressUrlType DEF World
<1>5. AppOf(u) \in App
  BY AppOfType
<1> QED
  BY <1>2, <1>3, <1>4, <1>5 DEF Reconciled, Hook, RoutesDue

LEMMA ReconcileHook ==
    ASSUME TypeOK, NEW u \in Units, Reconcile(u)
    PROVE  /\ hook' \in [Units -> Hook] /\ \A x \in Units \ {u} : hook'[x] = hook[x]
           /\ \/ /\ AppOf(u).javaPw = Empty /\ UNCHANGED fileVars
                 /\ hook'[u].app = hook[u].app /\ hook'[u] = Defer(hook[u])
              \/ /\ AppOf(u).javaPw # Empty
                 /\ hook'[u] = Reconciled(u) /\ hook'[u].app = AppOf(u)
                 /\ file' = IF RoutesDue(u, hook[u])
                            THEN [file EXCEPT ![u] = hook[u].world.cfg] ELSE file
                 /\ conf' = [conf EXCEPT ![u] = Render(u, AppOf(u), hook[u].world)]
<1>1. Calls(u, "reconcile")
  BY DEF Reconcile
<1>2. CASE AppOf(u).javaPw = Empty
  <2>1. Defer(hook[u]) \in Hook /\ Defer(hook[u]).app = hook[u].app
    BY <1>1, CallsType, HandlerTypes
  <2>2. hook' = [hook EXCEPT ![u] = Defer(hook[u])] /\ UNCHANGED fileVars
    BY <1>2 DEF Reconcile, AppOf, MustWait
  <2> QED
    BY <1>2, <2>1, <2>2, HookSet
<1>3. CASE AppOf(u).javaPw # Empty
  <2>1. Reconciled(u) \in Hook /\ Reconciled(u).app = AppOf(u)
    BY <1>1, ReconciledType
  <2>2. /\ hook' = [hook EXCEPT ![u] = Reconciled(u)]
        /\ file' = IF RoutesDue(u, hook[u]) THEN [file EXCEPT ![u] = hook[u].world.cfg] ELSE file
        /\ conf' = [conf EXCEPT ![u] = Render(u, AppOf(u), hook[u].world)]
    BY <1>3 DEF Reconcile, AppOf, MustWait, Reconciled
  <2>3. hook' \in [Units -> Hook] /\ hook'[u] = Reconciled(u)
        /\ \A x \in Units \ {u} : hook'[x] = hook[x]
    BY <2>1, <2>2, HookSet
  <2> QED
    BY <1>3, <2>1, <2>2, <2>3
<1> QED
  BY <1>2, <1>3

LEMMA CommitHook ==
    ASSUME TypeOK, NEW u \in Units, Commit(u)
    PROVE  /\ hook' \in [Units -> Hook] /\ \A x \in Units \ {u} : hook'[x] = hook[x]
           /\ hook'[u].app = [admin |-> Empty, javaPw |-> Empty, secret |-> Empty]
           /\ \/ /\ hook'[u] = IdleHook /\ UNCHANGED suspect
                 /\ LeadersWrites(hook[u]) => leader = u
                 /\ app' = IF hook[u].wrote THEN hook[u].app ELSE app
                 /\ routes' = IF hook[u].routes # NoConfig /\ hook[u].world.route = world.route
                              THEN hook[u].routes ELSE routes
                 /\ client' \in {client, hook[u].client}
                 /\ deferred' = [deferred EXCEPT ![u] = hook[u].deferred]
              \/ Failed(u) /\ leader # u
<1> DEFINE ok == /\ LeadersWrites(hook[u]) => leader = u
                 /\ app'    = IF hook[u].wrote THEN hook[u].app ELSE app
                 /\ routes' = IF hook[u].routes # NoConfig /\ hook[u].world.route = world.route
                              THEN hook[u].routes ELSE routes
                 /\ client' = IF hook[u].client # NoConfig /\ hook[u].world.oauth = world.oauth
                              THEN hook[u].client ELSE client
                 /\ deferred' = [deferred EXCEPT ![u] = hook[u].deferred]
                 /\ hook' = [hook EXCEPT ![u] = IdleHook]
                 /\ UNCHANGED suspect
<1>1. ok \/ (Failed(u) /\ leader # u)
  BY DEF Commit
<1>2. CASE ok
  <2>1. hook' \in [Units -> Hook] /\ hook'[u] = IdleHook /\ \A x \in Units \ {u} : hook'[x] = hook[x]
    BY <1>2, IdleHookType, HookSet
  <2>2. IdleHook.app = [admin |-> Empty, javaPw |-> Empty, secret |-> Empty]
    BY DEF IdleHook
  <2> QED
    BY <1>2, <2>1, <2>2
<1>3. CASE Failed(u) /\ leader # u
  BY <1>3, FailedType
<1> QED
  BY <1>1, <1>2, <1>3

LEMMA HookStepType ==
    ASSUME TypeOK, NEW u \in Units, HookStep(u) \/ Crash(u) \/ \E e \in Events : Start(u, e)
    PROVE  TypeOK'
<1> USE DEF Rest, jujuVars, bagVars, boundVars, fileVars
<1>1. CASE Secrets(u)
  BY <1>1, SecretsHook DEF Secrets, TypeOK
<1>2. CASE OAuth(u) \/ OAuthBroken(u)
  BY <1>2, OAuthHook DEF OAuth, OAuthBroken, TypeOK
<1>3. CASE RouteLib(u) \/ OAuthLib(u)
  BY <1>3, LibHook DEF RouteLib, OAuthLib, TypeOK
<1>4. CASE Reconcile(u)
  <2>1. hook' \in [Units -> Hook]
    BY <1>4, ReconcileHook
  <2>2. Calls(u, "reconcile") /\ AppOf(u) \in App /\ hook[u].world \in World
    BY <1>4, AppOfType, CallsType DEF Reconcile
  <2>3. conf' \in [Units -> Conf] /\ file' \in [Units -> Configs \cup {NoConfig}]
    <3>1. Render(u, AppOf(u), hook[u].world) \in Conf /\ hook[u].world.cfg \in Configs
      BY <2>2, RenderType DEF World
    <3> QED
      BY ZenonT(30), <1>4, <3>1, ReconcileHook DEF TypeOK
  <2>4. drawn' \in Nat
    BY <1>4 DEF Reconcile, TypeOK
  <2> QED
    BY <1>4, <2>1, <2>3, <2>4 DEF Reconcile, TypeOK
<1>5. CASE Commit(u)
  <2>1. hook' \in [Units -> Hook]
    BY <1>5, CommitHook
  <2>2. /\ hook[u].app \in App /\ hook[u].routes \in Configs \cup {NoConfig}
        /\ hook[u].client \in Urls \cup {NoConfig} /\ hook[u].deferred \in Seq(Tasks)
    BY DEF TypeOK, Hook
  <2>3. CASE Failed(u)
    BY <1>5, <2>1, <2>3, FailedType DEF Commit, TypeOK, Failed
  <2>4. CASE ~Failed(u)
    <3>1. /\ app' \in App /\ routes' \in Configs \cup {NoConfig}
          /\ client' \in Urls \cup {NoConfig} /\ deferred' \in [Units -> Seq(Tasks)]
          /\ UNCHANGED suspect
      BY <1>5, <2>2, <2>4, CommitHook DEF TypeOK
    <3> QED
      BY <1>5, <2>1, <3>1 DEF Commit, TypeOK
  <2> QED
    BY <2>3, <2>4
<1>6. CASE Retry(u)
  <2>1. hook[u].event \in Events
    BY DEF TypeOK, Hook
  <2>2. hook' \in [Units -> Hook]
    BY <1>6, <2>1, StartHookType DEF Retry
  <2> QED
    BY <1>6, <2>2 DEF Retry, TypeOK
<1>7. CASE Crash(u)
  <2>1. hook' \in [Units -> Hook] /\ suspect' \subseteq Units
    BY <1>7, FailedType DEF Crash, TypeOK
  <2>2. faults' \in 0..MaxFaults
    BY <1>7, BoundsAssumption DEF Crash, TypeOK
  <2> QED
    BY <1>7, <2>1, <2>2 DEF Crash, Failed, TypeOK
<1>8. CASE \E e \in Events : Start(u, e)
  <2>1. PICK e \in Events : Start(u, e)
    BY <1>8
  <2>2. hook' \in [Units -> Hook]
    BY <2>1, StartHookType DEF Start
  <2>3. pending' \in [Units -> SUBSET Events]
    BY <2>1 DEF Start, TypeOK
  <2> QED
    BY <2>1, <2>2, <2>3 DEF Start, TypeOK
<1> QED
  BY <1>1, <1>2, <1>3, <1>4, <1>5, <1>6, <1>7, <1>8 DEF HookStep

\* Every variable keeps its type, for any number of units, changes and faults.
THEOREM TypeCorrect == Spec => []TypeOK
<1>1. Init => TypeOK
  BY TypeInit
<1>2. TypeOK /\ [Next]_vars => TypeOK'
  <2> SUFFICES ASSUME TypeOK, [Next]_vars PROVE TypeOK'
    OBVIOUS
  <2>1. CASE Next
    BY <2>1, WorldNextType, ProvidersNextType, HookStepType DEF Next
  <2>2. CASE UNCHANGED vars
    BY <2>2 DEF vars, jujuVars, bagVars, fileVars, boundVars, TypeOK
  <2> QED
    BY <2>1, <2>2
<1> QED
  BY <1>1, <1>2, PTL DEF Spec

-----------------------------------------------------------------------------
(* The password of the login form. *)

\* The leader makes both passwords in one hook, which is committed as a whole:
\* where there is the one a follower waits for, there is the one it serves.
Paired(a) == a.javaPw # Empty => a.admin # Empty
LoginInv ==
    /\ Paired(app)
    /\ \A u \in Units : Paired(hook[u].app)
    /\ LoginHasPassword

LEMMA LoginInit == Init => LoginInv
BY DEF Init, LoginInv, Paired, LoginHasPassword, IdleHook

LEMMA AppOfPaired ==
    ASSUME TypeOK, LoginInv, NEW u \in Units, Calls(u, "reconcile")
    PROVE  Paired(AppOf(u))
<1>1. hook[u].app \in App /\ drawn + 1 \in Nat /\ drawn + 1 # Empty
  BY CallsType DEF TypeOK, Empty
<1>2. Paired(hook[u].app)
  BY DEF LoginInv
<1> QED
  BY <1>1, <1>2 DEF AppOf, AppPasswords, Paired, App

LEMMA LoginStep ==
    ASSUME TypeOK, LoginInv, NEW u \in Units,
           HookStep(u) \/ Crash(u) \/ \E e \in Events : Start(u, e)
    PROVE  LoginInv'
<1> USE DEF Rest, bagVars, fileVars
<1>1. hook[u].app \in App /\ Paired(hook[u].app) /\ Paired(app)
  BY DEF LoginInv, TypeOK, Hook
<1>2. Paired([admin |-> Empty, javaPw |-> Empty, secret |-> Empty])
  BY DEF Paired
<1>3. ASSUME UNCHANGED <<app, conf>>, Paired(hook'[u].app),
             \A x \in Units \ {u} : hook'[x] = hook[x]
      PROVE  LoginInv'
  BY <1>3 DEF LoginInv, LoginHasPassword, Paired
<1>4. CASE Secrets(u)
  <2>1. Paired(hook'[u].app)
    BY <1>1, <1>4, SecretsHook DEF Paired, App
  <2> QED
    BY <1>3, <1>4, <2>1, SecretsHook DEF Secrets
<1>5. CASE OAuth(u) \/ OAuthBroken(u)
  <2>1. Paired(hook'[u].app)
    BY <1>1, <1>5, OAuthHook DEF Paired, App
  <2> QED
    BY <1>3, <1>5, <2>1, OAuthHook DEF OAuth, OAuthBroken
<1>6. CASE RouteLib(u) \/ OAuthLib(u)
  BY <1>1, <1>3, <1>6, LibHook DEF RouteLib, OAuthLib
<1>7. CASE Reconcile(u)
  <2>1. Calls(u, "reconcile") /\ UNCHANGED app
    BY <1>7 DEF Reconcile
  <2>2. CASE AppOf(u).javaPw = Empty
    BY <1>1, <1>3, <1>7, <2>1, <2>2, ReconcileHook
  <2>3. CASE AppOf(u).javaPw # Empty
    <3>1. Paired(AppOf(u)) /\ AppOf(u) \in App /\ AppOf(u).admin # Empty
      BY <2>1, <2>3, AppOfPaired, AppOfType DEF Paired
    <3>2. LET r == Render(u, AppOf(u), hook[u].world)
          IN  r.auth = "basic" => r.admin # Empty
      BY <3>1 DEF Render
    <3>3. LoginHasPassword'
      <4>1. conf' = [conf EXCEPT ![u] = Render(u, AppOf(u), hook[u].world)]
        BY <1>7, <2>3, ReconcileHook
      <4> QED
        BY <3>2, <4>1 DEF LoginHasPassword, LoginInv, TypeOK
    <3>4. \A x \in Units : Paired(hook'[x].app)
      BY <1>7, <2>3, <3>1, ReconcileHook DEF LoginInv
    <3> QED
      BY <2>1, <3>3, <3>4 DEF LoginInv, Paired
  <2> QED
    BY <2>2, <2>3
<1>8. CASE Commit(u)
  <2>1. Paired(app')
    BY <1>1, <1>8, CommitHook DEF Failed
  <2>2. \A x \in Units : Paired(hook'[x].app)
    BY <1>2, <1>8, CommitHook DEF LoginInv
  <2> QED
    BY <1>8, <2>1, <2>2 DEF Commit, LoginInv, LoginHasPassword, Paired
<1>9. CASE Retry(u)
  <2>1. hook[u].event \in Events
    BY DEF TypeOK, Hook
  <2> QED
    BY <1>1, <1>3, <1>9, <2>1, StartHookType DEF Retry
<1>10. CASE Crash(u)
  BY <1>2, <1>3, <1>10, FailedType DEF Crash, Failed
<1>11. CASE \E e \in Events : Start(u, e)
  BY <1>1, <1>3, <1>11, StartHookType DEF Start
<1> QED
  BY <1>4, <1>5, <1>6, <1>7, <1>8, <1>9, <1>10, <1>11 DEF HookStep

\* No unit ever serves the login form with an empty password of the admin,
\* whichever units lead and whichever hooks die.
THEOREM LoginPassword == Spec => []LoginHasPassword
<1>1. Init => LoginInv
  BY LoginInit
<1>2. TypeOK /\ LoginInv /\ [Next]_vars => LoginInv'
  <2> SUFFICES ASSUME TypeOK, LoginInv, [Next]_vars PROVE LoginInv'
    OBVIOUS
  <2>1. ASSUME UNCHANGED <<app, hook, conf>> PROVE LoginInv'
    BY <2>1 DEF LoginInv, LoginHasPassword, Paired
  <2>2. CASE WorldNext \/ ProvidersNext
    <3>1. UNCHANGED <<app, hook, conf>>
      BY <2>2 DEF WorldNext, ProvidersNext, ConfigChange, AdminRotated, RouteAdded, RouteRemoved,
                  OAuthAdded, OAuthRemoved, LeadershipChange, HAProxyAnswers, ProviderAnswers,
                  RestUnchanged, bagVars, fileVars
    <3> QED
      BY <2>1, <3>1
  <2>3. CASE \E u \in Units : HookStep(u) \/ Crash(u) \/ \E e \in Events : Start(u, e)
    BY <2>3, LoginStep
  <2>4. CASE UNCHANGED vars
    BY <2>1, <2>4 DEF vars, bagVars, fileVars
  <2> QED
    BY <2>2, <2>3, <2>4 DEF Next
<1>3. LoginInv => LoginHasPassword
  BY DEF LoginInv
<1> QED
  BY <1>1, <1>2, <1>3, TypeCorrect, PTL DEF Spec

-----------------------------------------------------------------------------
(***************************************************************************)
(* The leader's routes.json (AppData, FirstLeadersCache), for any number   *)
(* of units, changes, relations and faults.                                *)
(***************************************************************************)

\* Events that make the leader publish its routes anew.
Queued(u) == {"route_created", "route_changed"} \cap pending[u]
NoLib(s) == \A i \in 1..Len(s) : s[i] # "route_lib"
\* The library publishes in relation-created, or right before the last handler
\* of relation-changed.
LibInPlace(h) ==
    \A i \in 1..Len(h.work) : h.work[i] = "route_lib" =>
        \/ h.event = "route_created"
        \/ /\ h.event = "route_changed" /\ i = Len(h.work) - 1
           /\ h.work[Len(h.work)] = "reconcile"
\* The library has published or will publish, and the last handler, which
\* writes the file, is still to come.
WillSync(h) ==
    /\ h.work # <<>> /\ h.work[Len(h.work)] = "reconcile"
    /\ h.routes = h.world.cfg \/ (Len(h.work) > 1 /\ h.work[Len(h.work) - 1] = "route_lib")
\* The file holds what is published, or will be when this hook ends.
InSync(u) ==
    file[u] # NoConfig =>
        file[u] = IF hook[u].pc = "run" /\ hook[u].routes # NoConfig
                  THEN hook[u].routes ELSE routes

EventsInOrder(u) ==
    /\ "route_created" \in pending[u] => "route_changed" \in pending[u]
    /\ (hook[u].pc = "run" /\ world.route # NoRel /\ hook[u].world.route # world.route)
          => "route_changed" \in pending[u]
    /\ (hook[u].pc # "idle" /\ hook[u].event = "route_created" /\ world.route # NoRel)
          => "route_changed" \in pending[u]
FailureIsKnown(u) == hook[u].pc = "failed" => u \in suspect
WorkInOrder(u) ==
    /\ NoLib(deferred[u]) /\ NoLib(hook[u].deferred)
    /\ hook[u].pc = "run" => LibInPlace(hook[u])
\* A unit that never led has no routes.json and publishes nothing.
FollowersAreBlank(u) ==
    (u \notin suspect /\ u # leader) => file[u] = NoConfig /\ hook[u].routes = NoConfig

LeadersCache ==
    (leader \notin suspect /\ world.route # NoRel /\ Queued(leader) = {})
        => InSync(leader) \/ (hook[leader].pc = "run" /\ WillSync(hook[leader]))

UnitsInv == \A u \in Units : /\ EventsInOrder(u) /\ FailureIsKnown(u)
                             /\ WorkInOrder(u) /\ FollowersAreBlank(u)
CacheInv == UnitsInv /\ LeadersCache

-----------------------------------------------------------------------------
(* What a handler leaves of its hook. *)

Frame(h, g) ==
    /\ g.pc = h.pc /\ g.world = h.world /\ g.event = h.event
    /\ g.work \in {Tail(h.work), EventTasks("config") \o Tail(h.work)}
    /\ \/ g.deferred = h.deferred
       \/ Head(h.work) # "route_lib" /\ g.deferred = Append1(h.deferred, Head(h.work))
\* The rest of the work stays in order, with config-changed's handlers before it or not.
Shifted(s, t) ==
    \E d \in {0, 2} :
        /\ Len(t) = Len(s) - 1 + d
        /\ \A i \in 1..d : t[i] # "route_lib"
        /\ \A i \in d + 1..Len(t) : t[i] = s[i - d + 1]

LEMMA HandlerFrames ==
    ASSUME NEW h \in Hook, h.work # <<>>
    PROVE  /\ Frame(h, Return(h)) /\ Frame(h, Emit(h))
           /\ Head(h.work) # "route_lib" => Frame(h, Defer(h))
           /\ Return(h).routes = h.routes /\ Emit(h).routes = h.routes
           /\ Defer(h).routes = h.routes
<1>1. Return(h) = [h EXCEPT !.work = Tail(h.work)]
  BY DEF Return
<1>2. Emit(h) = [h EXCEPT !.work = EventTasks("config") \o Tail(h.work)]
  BY <1>1 DEF Emit, Hook
<1>3. Defer(h) = [h EXCEPT !.work = Tail(h.work),
                           !.deferred = Append1(h.deferred, Head(h.work))]
  BY <1>1 DEF Defer, Hook
<1> QED
  BY <1>1, <1>2, <1>3 DEF Frame, Hook

LEMMA FrameShifts ==
    ASSUME NEW h \in Hook, NEW g \in Hook, h.work # <<>>, Frame(h, g)
    PROVE  Shifted(h.work, g.work)
<1>1. h.work \in Seq(Tasks) /\ g.work \in Seq(Tasks)
  BY DEF Hook
<1>2. /\ Tail(h.work) \in Seq(Tasks) /\ Len(Tail(h.work)) = Len(h.work) - 1
      /\ \A i \in 1..Len(h.work) - 1 : Tail(h.work)[i] = h.work[i + 1]
  BY <1>1
<1>3. CASE g.work = Tail(h.work)
  BY <1>2, <1>3 DEF Shifted
<1>4. CASE g.work = EventTasks("config") \o Tail(h.work)
  <2>1. EventTasks("config") = <<"secrets", "reconcile">>
    BY DEF EventTasks
  <2>2. /\ Len(g.work) = 2 + (Len(h.work) - 1)
        /\ g.work[1] = "secrets" /\ g.work[2] = "reconcile"
        /\ \A i \in 3..Len(g.work) : g.work[i] = Tail(h.work)[i - 2]
    <3> DEFINE c == <<"secrets", "reconcile">>
               t == Tail(h.work)
    <3>1. c \in Seq(Tasks) /\ t \in Seq(Tasks)
      BY <1>2, <2>1, EventTasksType DEF Events
    <3>2. Len(c) = 2 /\ c[1] = "secrets" /\ c[2] = "reconcile"
      OBVIOUS
    <3>3. g.work = c \o t
      BY <1>4, <2>1
    <3> HIDE DEF c
    <3>4. Len(t) = Len(h.work) - 1 /\ Len(t) \in Nat
      BY <1>2
    <3> HIDE DEF t
    <3>5. /\ Len(c \o t) = Len(c) + Len(t)
          /\ \A i \in 1..Len(c) + Len(t) :
                (c \o t)[i] = IF i <= Len(c) THEN c[i] ELSE t[i - Len(c)]
      BY <3>1, ConcatProperties
    <3>6. /\ Len(g.work) = 2 + Len(t)
          /\ \A i \in 1..2 + Len(t) : g.work[i] = IF i <= 2 THEN c[i] ELSE t[i - 2]
      BY <3>2, <3>3, <3>4, <3>5
    <3>7. g.work[1] = c[1] /\ g.work[2] = c[2]
          /\ \A i \in 3..Len(g.work) : g.work[i] = t[i - 2]
      BY <3>6, <3>4
    <3> QED
      BY <3>2, <3>6, <3>7, <3>4 DEF t
  <2>3. \A i \in 1..2 : g.work[i] # "route_lib"
    BY <2>2
  <2> QED
    BY <1>1, <1>2, <2>2, <2>3 DEF Shifted
<1> QED
  BY <1>3, <1>4 DEF Frame

LEMMA SecretsFrame ==
    ASSUME TypeOK, NEW u \in Units, Secrets(u) PROVE Frame(hook[u], hook'[u])
<1> DEFINE h == hook[u]
           g == [Emit(h) EXCEPT !.app.admin = h.world.userPw, !.wrote = TRUE]
<1>1. h \in Hook /\ h.work # <<>>
  BY CallsType DEF Secrets
<1>2. Frame(h, Return(h)) /\ Frame(h, Emit(h)) /\ Emit(h) \in Hook /\ Return(h) \in Hook
  BY <1>1, HandlerFrames, HandlerTypes
<1>3. Frame(h, g)
  BY <1>2 DEF Frame, Hook
<1>4. hook' = [hook EXCEPT ![u] = Return(h)] \/ hook' = [hook EXCEPT ![u] = g]
  BY DEF Secrets
<1> HIDE DEF g
<1> QED
  BY <1>2, <1>3, <1>4 DEF TypeOK

LEMMA OAuthFrame ==
    ASSUME TypeOK, NEW u \in Units, OAuth(u) \/ OAuthBroken(u) PROVE Frame(hook[u], hook'[u])
<1> DEFINE h == hook[u]
           g(s) == [Emit(h) EXCEPT !.app.secret = s, !.wrote = TRUE]
<1>1. h \in Hook /\ h.work # <<>> /\ Head(h.work) # "route_lib"
  BY CallsType DEF OAuth, OAuthBroken, Calls
<1>2. /\ Frame(h, Return(h)) /\ Frame(h, Emit(h)) /\ Frame(h, Defer(h)) /\ Emit(h) \in Hook
  BY <1>1, HandlerFrames, HandlerTypes
<1>3. \A s : Frame(h, g(s))
  BY <1>2 DEF Frame, Hook
<1>4. \/ hook' = [hook EXCEPT ![u] = Return(h)] \/ hook' = [hook EXCEPT ![u] = Defer(h)]
      \/ \E s : hook' = [hook EXCEPT ![u] = g(s)]
  BY DEF OAuth, OAuthBroken
<1> HIDE DEF g
<1> QED
  BY <1>2, <1>3, <1>4 DEF TypeOK

LEMMA LibFrame ==
    ASSUME TypeOK, NEW u \in Units, RouteLib(u) \/ OAuthLib(u)
    PROVE  /\ Frame(hook[u], hook'[u])
           /\ OAuthLib(u) => hook'[u].routes = hook[u].routes
           /\ RouteLib(u) => hook'[u].deferred = hook[u].deferred
           /\ RouteLib(u) => hook'[u].routes = IF leader = u /\ hook[u].world.route # NoRel
                                               THEN hook[u].world.cfg ELSE hook[u].routes
<1> DEFINE h == hook[u]
           r == [Return(h) EXCEPT !.routes = h.world.cfg]
           c == [Return(h) EXCEPT !.client = IngressUrl(u, h.world)]
<1>1. h \in Hook /\ h.work # <<>>
  BY CallsType DEF RouteLib, OAuthLib
<1>2. /\ Frame(h, Return(h)) /\ Return(h) \in Hook /\ Return(h).routes = h.routes
      /\ Return(h).deferred = h.deferred
  BY <1>1, HandlerFrames, HandlerTypes DEF Return, Hook
<1>3. /\ Frame(h, r) /\ r.routes = h.world.cfg /\ r.deferred = h.deferred
      /\ Frame(h, c) /\ c.routes = h.routes
  BY <1>2 DEF Frame, Hook
<1>4. /\ OAuthLib(u) => \/ hook' = [hook EXCEPT ![u] = Return(h)]
                        \/ hook' = [hook EXCEPT ![u] = c]
      /\ RouteLib(u) => hook' = [hook EXCEPT ![u] = IF leader = u /\ h.world.route # NoRel
                                                    THEN r ELSE Return(h)]
  BY DEF RouteLib, OAuthLib
<1> HIDE DEF r, c
<1>5. OAuthLib(u) => hook'[u] \in {Return(h), c}
  BY <1>4 DEF TypeOK
<1>6. RouteLib(u) => hook'[u] = IF leader = u /\ h.world.route # NoRel THEN r ELSE Return(h)
  BY <1>4 DEF TypeOK
<1> QED
  BY <1>2, <1>3, <1>5, <1>6

LEMMA ReconcileFrame ==
    ASSUME TypeOK, NEW u \in Units, Reconcile(u) PROVE Frame(hook[u], hook'[u])
<1>1. Calls(u, "reconcile")
  BY DEF Reconcile
<1>2. hook[u] \in Hook /\ hook[u].work # <<>> /\ Head(hook[u].work) # "route_lib"
  BY <1>1, CallsType DEF Calls
<1>3. Frame(hook[u], Return(hook[u])) /\ Return(hook[u]) \in Hook /\ Frame(hook[u], Defer(hook[u]))
  BY <1>2, HandlerFrames, HandlerTypes
<1>4. Frame(hook[u], Reconciled(u))
  BY <1>3 DEF Reconciled, Frame, Hook
<1> QED
  BY <1>3, <1>4, ReconcileHook

-----------------------------------------------------------------------------
(* Each unit's part of the invariant. *)

LEMMA Append1NoLib ==
    ASSUME NEW s \in Seq(Tasks), NEW t \in Tasks, NoLib(s), t # "route_lib"
    PROVE  NoLib(Append1(s, t))
BY DEF NoLib, Append1

LEMMA LibStaysInPlace ==
    ASSUME NEW h \in Hook, NEW g \in Hook, h.work # <<>>, Frame(h, g), LibInPlace(h)
    PROVE  LibInPlace(g)
<1>1. h.work \in Seq(Tasks) /\ g.work \in Seq(Tasks)
  BY DEF Hook
<1>2. PICK d \in {0, 2} : /\ Len(g.work) = Len(h.work) - 1 + d
                          /\ \A i \in 1..d : g.work[i] # "route_lib"
                          /\ \A i \in d + 1..Len(g.work) : g.work[i] = h.work[i - d + 1]
  BY FrameShifts DEF Shifted
<1>3. SUFFICES ASSUME NEW i \in 1..Len(g.work), g.work[i] = "route_lib"
               PROVE  \/ g.event = "route_created"
                      \/ /\ g.event = "route_changed" /\ i = Len(g.work) - 1
                         /\ g.work[Len(g.work)] = "reconcile"
  BY DEF LibInPlace
<1>4. i \in d + 1..Len(g.work) /\ h.work[i - d + 1] = "route_lib"
  BY <1>1, <1>2, <1>3
<1>5. i - d + 1 \in 1..Len(h.work) /\ g.event = h.event
  BY <1>1, <1>2, <1>4 DEF Frame
<1>6. CASE h.event # "route_created"
  <2>1. /\ h.event = "route_changed" /\ i - d + 1 = Len(h.work) - 1
        /\ h.work[Len(h.work)] = "reconcile"
    BY <1>4, <1>5, <1>6 DEF LibInPlace
  <2>2. Len(g.work) \in d + 1..Len(g.work) /\ Len(h.work) = Len(g.work) + 1 - d
    BY SMTT(30), <1>1, <1>2, <1>4
  <2>3. g.work[Len(g.work)] = h.work[Len(g.work) - d + 1] /\ Len(g.work) - d + 1 = Len(h.work)
    BY <1>1, <1>2, <2>2
  <2> QED
    BY <1>2, <1>5, <2>1, <2>2, <2>3
<1> QED
  BY <1>5, <1>6

\* A handler of unit u.
LEMMA HandlerUnits ==
    ASSUME TypeOK, TypeOK', UnitsInv, NEW u \in Units,
           hook[u].pc = "run", hook[u].work # <<>>,
           Frame(hook[u], hook'[u]), \A x \in Units \ {u} : hook'[x] = hook[x],
           UNCHANGED <<world, leader, pending, deferred, suspect>>,
           \A x \in Units : x # leader => file'[x] = file[x],
           u # leader => hook'[u].routes = hook[u].routes
    PROVE  UnitsInv'
<1>1. hook[u] \in Hook /\ hook'[u] \in Hook
  BY DEF TypeOK
<1>2. /\ EventsInOrder(u) /\ FailureIsKnown(u) /\ WorkInOrder(u) /\ FollowersAreBlank(u)
  BY DEF UnitsInv
<1>3. EventsInOrder(u)' /\ FailureIsKnown(u)' /\ FollowersAreBlank(u)'
  BY <1>2 DEF EventsInOrder, FailureIsKnown, FollowersAreBlank, Frame
<1>4. WorkInOrder(u)'
  <2>1. LibInPlace(hook'[u])
    BY <1>1, <1>2, LibStaysInPlace DEF WorkInOrder
  <2>2. NoLib(hook'[u].deferred)
    <3>1. hook[u].deferred \in Seq(Tasks) /\ Head(hook[u].work) \in Tasks
      BY <1>1 DEF Hook
    <3> QED
      BY <1>2, <3>1, Append1NoLib DEF WorkInOrder, Frame
  <2> QED
    BY <1>2, <2>1, <2>2 DEF WorkInOrder
<1>5. \A x \in Units \ {u} : /\ EventsInOrder(x)' /\ FailureIsKnown(x)'
                             /\ WorkInOrder(x)' /\ FollowersAreBlank(x)'
  BY DEF UnitsInv, EventsInOrder, FailureIsKnown, WorkInOrder, FollowersAreBlank
<1> QED
  BY <1>3, <1>4, <1>5 DEF UnitsInv

-----------------------------------------------------------------------------
(* The leader's part. *)

\* What is still to come after a handler that is not of routes.
LEMMA StillWillSync ==
    ASSUME NEW h \in Hook, NEW g \in Hook, h.work # <<>>, Frame(h, g), g.routes = h.routes,
           WillSync(h), Head(h.work) # "route_lib",
           Head(h.work) # "reconcile" \/ h.routes # h.world.cfg
    PROVE  WillSync(g)
<1> DEFINE n == Len(h.work)
<1>1. h.work \in Seq(Tasks) /\ g.work \in Seq(Tasks) /\ Head(h.work) = h.work[1]
      /\ n \in Nat \ {0}
  BY DEF Hook
<1>2. PICK d \in {0, 2} : /\ Len(g.work) = n - 1 + d
                          /\ \A i \in d + 1..Len(g.work) : g.work[i] = h.work[i - d + 1]
  BY FrameShifts DEF Shifted
<1>3. n > 1
  BY <1>1 DEF WillSync
<1>4. g.work # <<>> /\ g.work[Len(g.work)] = "reconcile"
  <2>1. Len(g.work) \in d + 1..Len(g.work) /\ Len(g.work) - d + 1 = n
    BY <1>1, <1>2, <1>3
  <2>2. g.work[Len(g.work)] = h.work[n]
    BY <1>2, <2>1
  <2> QED
    BY <1>1, <2>1, <2>2 DEF WillSync
<1>5. CASE h.routes = h.world.cfg
  BY <1>4, <1>5 DEF WillSync, Frame
<1>6. CASE h.work[n - 1] = "route_lib"
  <2>1. n - 1 > 1
    BY <1>1, <1>3, <1>6
  <2>2. Len(g.work) - 1 \in d + 1..Len(g.work) /\ Len(g.work) - 1 - d + 1 = n - 1
    BY <1>1, <1>2, <2>1
  <2> DEFINE k == Len(g.work) - 1
  <2>3. g.work[k] = h.work[k - d + 1]
    <3> HIDE DEF k
    <3> QED
      BY <1>2, <2>2 DEF k
  <2>4. Len(g.work) > 1
    BY <1>1, <1>2, <2>1
  <2>5. g.work[Len(g.work) - 1] = h.work[n - 1]
    BY <2>2, <2>3
  <2> QED
    BY <1>4, <1>6, <2>4, <2>5 DEF WillSync
<1> QED
  BY <1>5, <1>6 DEF WillSync

\* What a step of another unit leaves alone.
LEMMA OthersLeaveLeader ==
    ASSUME LeadersCache, UNCHANGED <<world, leader, routes>>,
           leader \notin suspect' => leader \notin suspect,
           pending'[leader] = pending[leader], hook'[leader] = hook[leader],
           file'[leader] = file[leader]
    PROVE  LeadersCache'
BY DEF LeadersCache, Queued, InSync, WillSync

-----------------------------------------------------------------------------
(* The start of a hook. *)

LEMMA LibInEvents ==
    ASSUME NEW e \in Events, NEW i \in 1..Len(EventTasks(e)), EventTasks(e)[i] = "route_lib"
    PROVE  \/ e = "route_created"
           \/ /\ e = "route_changed" /\ i = Len(EventTasks(e)) - 1
              /\ EventTasks(e)[Len(EventTasks(e))] = "reconcile"
<1>1. CASE e = "route_changed"
  <2>1. EventTasks(e) = <<"route_lib", "reconcile">>
    BY <1>1 DEF EventTasks
  <2>2. i = 1
    BY <2>1
  <2> QED
    BY <1>1, <2>1, <2>2
<1>2. CASE e \notin {"route_created", "route_changed"}
  <2>1. EventTasks(e) \in {<<"secrets", "reconcile">>, <<"secrets">>, <<"reconcile">>,
                           <<"oauth_lib">>, <<"oauth">>, <<"oauth_broken">>}
    BY <1>2 DEF Events, EventTasks
  <2> QED
    BY <2>1
<1> QED
  BY <1>1, <1>2

LEMMA StartedInOrder ==
    ASSUME TypeOK, NEW u \in Units, NEW e \in Events, StartHook(u, e), NoLib(deferred[u])
    PROVE  /\ LibInPlace(hook'[u]) /\ NoLib(hook'[u].deferred)
           /\ e = "route_changed" => WillSync(hook'[u])
<1> DEFINE d == deferred[u]
           t == EventTasks(e)
           h == hook'[u]
<1>0. NoLib(d)
  OBVIOUS
<1>1. h.work = d \o t /\ h.event = e
  BY StartHookType
<1>2. h.deferred = <<>>
  BY DEF StartHook, TypeOK, IdleHook
<1>3. d \in Seq(Tasks) /\ t \in Seq(Tasks)
  BY EventTasksType DEF TypeOK
<1>4. e = "route_changed" => Len(t) = 2 /\ t[1] = "route_lib" /\ t[2] = "reconcile"
  BY DEF EventTasks
<1> HIDE DEF d, t, h
<1>5. /\ h.work \in Seq(Tasks) /\ Len(h.work) = Len(d) + Len(t)
      /\ \A i \in 1..Len(d) + Len(t) :
            h.work[i] = IF i <= Len(d) THEN d[i] ELSE t[i - Len(d)]
  BY <1>1, <1>3, ConcatProperties
<1>6. LibInPlace(h)
  <2>1. SUFFICES ASSUME NEW i \in 1..Len(h.work), h.work[i] = "route_lib"
                 PROVE  \/ h.event = "route_created"
                        \/ /\ h.event = "route_changed" /\ i = Len(h.work) - 1
                           /\ h.work[Len(h.work)] = "reconcile"
    BY DEF LibInPlace
  <2>2. i > Len(d)
    BY <1>0, <1>3, <1>5, <2>1 DEF NoLib
  <2>3. i - Len(d) \in 1..Len(t) /\ t[i - Len(d)] = "route_lib"
    BY <1>3, <1>5, <2>1, <2>2
  <2>4. \/ e = "route_created"
        \/ e = "route_changed" /\ i - Len(d) = Len(t) - 1 /\ t[Len(t)] = "reconcile"
    BY <2>3, LibInEvents DEF t
  <2>5. Len(h.work) - Len(d) = Len(t) /\ h.work[Len(h.work)] = t[Len(t)]
    BY <1>3, <1>5, <2>2, <2>3
  <2> QED
    BY <1>1, <1>3, <1>5, <2>3, <2>4, <2>5
<1>7. ASSUME e = "route_changed" PROVE WillSync(h)
  <2>1. Len(h.work) = Len(d) + 2 /\ Len(d) \in Nat
    <3>1. Len(d) \in Nat
      BY <1>3, LenProperties
    <3>2. Len(t) = 2 /\ Len(h.work) = Len(d) + Len(t)
      BY <1>4, <1>5, <1>7
    <3> QED
      BY <3>1, <3>2
  <2>2. h.work[Len(d) + 2] = t[2] /\ h.work[Len(d) + 1] = t[1]
    BY <1>4, <1>5, <1>7, <2>1
  <2> QED
    BY <1>4, <1>5, <1>7, <2>1, <2>2 DEF WillSync
<1> QED
  BY <1>2, <1>6, <1>7 DEF NoLib, h

LEMMA CacheStart ==
    ASSUME TypeOK, CacheInv, NEW u \in Units, NEW e \in Events, Start(u, e)
    PROVE  CacheInv'
<1> USE DEF bagVars, fileVars
<1>1. /\ StartHook(u, e) /\ MayCome(u, e) /\ pending' = [pending EXCEPT ![u] = @ \ {e}]
      /\ UNCHANGED <<world, leader, routes, deferred, file, suspect>> /\ hook[u].pc = "idle"
  BY DEF Start
<1>2. /\ EventsInOrder(u) /\ FailureIsKnown(u) /\ WorkInOrder(u) /\ FollowersAreBlank(u)
  BY DEF CacheInv, UnitsInv
<1>3. /\ pending'[u] = pending[u] \ {e} /\ \A x \in Units \ {u} : pending'[x] = pending[x]
  BY <1>1 DEF TypeOK
<1>4. /\ \A x \in Units \ {u} : hook'[x] = hook[x]
      /\ hook'[u].pc = "run" /\ hook'[u].world = world /\ hook'[u].routes = NoConfig
      /\ hook'[u].event = e
  BY <1>1, StartHookType
<1>5. e = "route_changed" => "route_created" \notin pending[u]
  BY <1>1 DEF MayCome
<1>6. e \in {"route_created", "route_changed"} => e \in pending[u]
  BY <1>1 DEF MayCome
<1>7. EventsInOrder(u)'
  BY <1>1, <1>2, <1>3, <1>4, <1>5, <1>6 DEF EventsInOrder
<1>8. FailureIsKnown(u)' /\ FollowersAreBlank(u)'
  BY <1>1, <1>2, <1>4 DEF FailureIsKnown, FollowersAreBlank
<1>9. WorkInOrder(u)' /\ (e = "route_changed" => WillSync(hook'[u]))
  BY <1>1, <1>2, <1>4, StartedInOrder DEF WorkInOrder
<1>10. UnitsInv'
  <2>1. \A x \in Units \ {u} : /\ EventsInOrder(x)' /\ FailureIsKnown(x)'
                               /\ WorkInOrder(x)' /\ FollowersAreBlank(x)'
    BY <1>1, <1>3, <1>4 DEF CacheInv, UnitsInv, EventsInOrder, FailureIsKnown, WorkInOrder,
                            FollowersAreBlank
  <2> QED
    BY <1>7, <1>8, <1>9, <2>1 DEF UnitsInv
<1>11. LeadersCache'
  <2>1. CASE u # leader
    BY <1>1, <1>3, <1>4, <2>1, OthersLeaveLeader DEF CacheInv, TypeOK
  <2>2. CASE u = leader
    <3>1. CASE e = "route_changed"
      BY <1>1, <1>4, <1>9, <2>2, <3>1 DEF LeadersCache
    <3>2. CASE e # "route_changed"
      <4>1. Queued(u)' = {} => Queued(u) = {}
        BY <1>2, <1>3, <1>6, <3>2 DEF Queued, EventsInOrder
      <4>2. InSync(u) => InSync(u)'
        BY <1>1, <1>4 DEF InSync
      <4> QED
        BY <1>1, <2>2, <4>1, <4>2 DEF CacheInv, LeadersCache
    <3> QED
      BY <3>1, <3>2
  <2> QED
    BY <2>1, <2>2
<1> QED
  BY <1>10, <1>11 DEF CacheInv

LEMMA CacheRetry ==
    ASSUME TypeOK, CacheInv, NEW u \in Units, Retry(u)
    PROVE  CacheInv'
<1> USE DEF jujuVars, bagVars, fileVars
<1> DEFINE e == hook[u].event
<1>1. /\ StartHook(u, e) /\ UNCHANGED <<world, leader, pending, routes, deferred, file, suspect>>
      /\ hook[u].pc = "failed" /\ e \in Events
  BY DEF Retry, TypeOK, Hook
<1>2. /\ EventsInOrder(u) /\ WorkInOrder(u) /\ u \in suspect
  BY <1>1 DEF CacheInv, UnitsInv, FailureIsKnown
<1>3. /\ \A x \in Units \ {u} : hook'[x] = hook[x]
      /\ hook'[u].pc = "run" /\ hook'[u].world = world /\ hook'[u].event = e
  BY <1>1, StartHookType
<1>4. WorkInOrder(u)'
  BY <1>1, <1>2, <1>3, StartedInOrder DEF WorkInOrder
<1>5. UnitsInv'
  <2>1. \A x \in Units \ {u} : /\ EventsInOrder(x)' /\ FailureIsKnown(x)'
                               /\ WorkInOrder(x)' /\ FollowersAreBlank(x)'
    BY <1>1, <1>3 DEF CacheInv, UnitsInv, EventsInOrder, FailureIsKnown, WorkInOrder,
                      FollowersAreBlank
  <2>2. EventsInOrder(u)' /\ FailureIsKnown(u)' /\ FollowersAreBlank(u)'
    BY <1>1, <1>2, <1>3 DEF EventsInOrder, FailureIsKnown, FollowersAreBlank
  <2> QED
    BY <1>4, <2>1, <2>2 DEF UnitsInv
<1>6. LeadersCache'
  <2>1. CASE u # leader
    BY <1>1, <1>3, <2>1, OthersLeaveLeader DEF CacheInv, TypeOK
  <2>2. CASE u = leader
    BY <1>1, <1>2, <2>2 DEF LeadersCache
  <2> QED
    BY <2>1, <2>2
<1> QED
  BY <1>5, <1>6 DEF CacheInv

-----------------------------------------------------------------------------
(* The end of a hook. *)

LEMMA CacheFailed ==
    ASSUME TypeOK, CacheInv, NEW u \in Units, Failed(u), hook[u].pc = "run",
           UNCHANGED <<world, leader, pending, file>>
    PROVE  CacheInv'
<1> USE DEF bagVars
<1>1. /\ \A x \in Units \ {u} : hook'[x] = hook[x]
      /\ suspect' = suspect \cup {u} /\ hook'[u].pc = "failed"
  BY FailedType
<1>2. hook'[u].event = hook[u].event /\ hook'[u].deferred = <<>>
  BY DEF Failed, TypeOK, IdleHook
<1>3. UNCHANGED <<routes, deferred>>
  BY DEF Failed
<1>4. UnitsInv'
  <2>1. \A x \in Units \ {u} : /\ EventsInOrder(x)' /\ FailureIsKnown(x)'
                               /\ WorkInOrder(x)' /\ FollowersAreBlank(x)'
    BY <1>1, <1>3 DEF CacheInv, UnitsInv, EventsInOrder, FailureIsKnown, WorkInOrder,
                      FollowersAreBlank
  <2>2. EventsInOrder(u)' /\ FailureIsKnown(u)' /\ WorkInOrder(u)' /\ FollowersAreBlank(u)'
    BY <1>1, <1>2, <1>3 DEF CacheInv, UnitsInv, EventsInOrder, FailureIsKnown, WorkInOrder,
                            FollowersAreBlank, NoLib
  <2> QED
    BY <2>1, <2>2 DEF UnitsInv
<1>5. LeadersCache'
  <2>1. CASE u # leader
    BY <1>1, <1>3, <2>1, OthersLeaveLeader DEF CacheInv, TypeOK
  <2>2. CASE u = leader
    BY <1>1, <2>2 DEF LeadersCache
  <2> QED
    BY <2>1, <2>2
<1> QED
  BY <1>4, <1>5 DEF CacheInv

\* The commit publishes what the file holds; the relation is still the one for
\* which the hook wrote, unless relation-changed is yet to come.
LEMMA CacheCommit ==
    ASSUME TypeOK, CacheInv, NEW u \in Units, Commit(u)
    PROVE  CacheInv'
<1> USE DEF jujuVars, fileVars
<1>1. /\ UNCHANGED <<world, leader, pending, file>> /\ hook[u].pc = "run"
      /\ hook[u].work = <<>>
  BY DEF Commit, Quiet
<1>2. CASE Failed(u)
  BY <1>1, <1>2, CacheFailed
<1>3. CASE ~Failed(u)
  <2>1. /\ hook'[u] = IdleHook /\ UNCHANGED suspect
        /\ \A x \in Units \ {u} : hook'[x] = hook[x]
        /\ LeadersWrites(hook[u]) => leader = u
        /\ routes' = IF hook[u].routes # NoConfig /\ hook[u].world.route = world.route
                     THEN hook[u].routes ELSE routes
        /\ deferred' = [deferred EXCEPT ![u] = hook[u].deferred]
    BY <1>3, CommitHook
  <2>2. IdleHook.pc = "idle" /\ IdleHook.routes = NoConfig /\ IdleHook.deferred = <<>>
    BY DEF IdleHook
  <2>3. /\ deferred'[u] = hook[u].deferred /\ \A x \in Units \ {u} : deferred'[x] = deferred[x]
    BY <2>1 DEF TypeOK
  <2>4. UnitsInv'
    <3>1. \A x \in Units \ {u} : /\ EventsInOrder(x)' /\ FailureIsKnown(x)'
                                 /\ WorkInOrder(x)' /\ FollowersAreBlank(x)'
      BY <1>1, <2>1, <2>3 DEF CacheInv, UnitsInv, EventsInOrder, FailureIsKnown, WorkInOrder,
                              FollowersAreBlank
    <3>2. EventsInOrder(u)' /\ FailureIsKnown(u)' /\ WorkInOrder(u)' /\ FollowersAreBlank(u)'
      BY <1>1, <2>1, <2>2, <2>3 DEF CacheInv, UnitsInv, EventsInOrder, FailureIsKnown,
                                    WorkInOrder, FollowersAreBlank, NoLib
    <3> QED
      BY <3>1, <3>2 DEF UnitsInv
  <2>5. LeadersCache'
    <3>1. CASE u # leader
      <4>1. UNCHANGED routes
        BY <2>1, <3>1 DEF LeadersWrites
      <4> QED
        BY <1>1, <2>1, <3>1, <4>1, OthersLeaveLeader DEF CacheInv, TypeOK
    <3>2. CASE u = leader
      <4>1. SUFFICES ASSUME leader \notin suspect, world.route # NoRel, Queued(leader) = {}
                     PROVE  InSync(u)'
        BY <1>1, <2>1, <3>2 DEF LeadersCache, Queued
      <4>2. InSync(u)
        BY <1>1, <3>2, <4>1 DEF CacheInv, LeadersCache, WillSync
      <4>3. hook[u].world.route = world.route
        BY <1>1, <3>2, <4>1 DEF CacheInv, UnitsInv, EventsInOrder, Queued
      <4> QED
        BY <1>1, <2>1, <2>2, <4>2, <4>3 DEF InSync
    <3> QED
      BY <3>1, <3>2
  <2> QED
    BY <2>4, <2>5 DEF CacheInv
<1> QED
  BY <1>2, <1>3

-----------------------------------------------------------------------------
(* The handlers. *)

\* What the hook of a leader with nothing queued looks like.
LEMMA LeaderKnowsRelation ==
    ASSUME UnitsInv, leader \in Units, hook[leader].pc = "run", world.route # NoRel,
           Queued(leader) = {}
    PROVE  hook[leader].world.route = world.route /\ hook[leader].event # "route_created"
BY DEF UnitsInv, EventsInOrder, Queued

\* Handlers that publish no routes.
LEMMA CacheElsewhere ==
    ASSUME TypeOK, TypeOK', CacheInv, NEW u \in Units, NEW t, Calls(u, t),
           t \notin {"route_lib", "reconcile"},
           Frame(hook[u], hook'[u]), \A x \in Units \ {u} : hook'[x] = hook[x],
           hook'[u].routes = hook[u].routes,
           UNCHANGED <<world, leader, pending, deferred, suspect, file, routes>>
    PROVE  CacheInv'
<1>1. hook[u].pc = "run" /\ hook[u].work # <<>> /\ Head(hook[u].work) = t
  BY DEF Calls
<1>2. UnitsInv'
  BY <1>1, HandlerUnits DEF CacheInv
<1>3. LeadersCache'
  <2>1. CASE u # leader
    BY <2>1, OthersLeaveLeader DEF CacheInv, TypeOK
  <2>2. CASE u = leader
    <3>1. SUFFICES ASSUME leader \notin suspect, world.route # NoRel, Queued(leader) = {}
                   PROVE  InSync(u)' \/ (hook'[u].pc = "run" /\ WillSync(hook'[u]))
      BY <2>2 DEF LeadersCache, Queued
    <3>2. hook'[u].pc = "run"
      BY <1>1 DEF Frame
    <3>3. InSync(u) => InSync(u)'
      BY <1>1, <3>2 DEF InSync
    <3>4. WillSync(hook[u]) => WillSync(hook'[u])
      BY <1>1, StillWillSync DEF TypeOK
    <3> QED
      BY <2>2, <3>1, <3>2, <3>3, <3>4 DEF CacheInv, LeadersCache
  <2> QED
    BY <2>1, <2>2
<1> QED
  BY <1>2, <1>3 DEF CacheInv

LEMMA CacheRouteLib ==
    ASSUME TypeOK, TypeOK', CacheInv, NEW u \in Units, RouteLib(u)
    PROVE  CacheInv'
<1> USE DEF Rest, jujuVars, bagVars, fileVars
<1>1. /\ hook[u].pc = "run" /\ hook[u].work # <<>> /\ Head(hook[u].work) = "route_lib"
      /\ UNCHANGED <<world, leader, pending, deferred, suspect, file, routes>>
  BY DEF RouteLib, Calls
<1>2. /\ Frame(hook[u], hook'[u]) /\ \A x \in Units \ {u} : hook'[x] = hook[x]
      /\ hook'[u].routes = IF leader = u /\ hook[u].world.route # NoRel
                           THEN hook[u].world.cfg ELSE hook[u].routes
  BY LibFrame, LibHook
<1>3. UnitsInv'
  BY <1>1, <1>2, HandlerUnits DEF CacheInv
<1>4. LeadersCache'
  <2>1. CASE u # leader
    BY <1>1, <1>2, <2>1, OthersLeaveLeader DEF CacheInv, TypeOK
  <2>2. CASE u = leader
    <3>1. SUFFICES ASSUME leader \notin suspect, world.route # NoRel, Queued(leader) = {}
                   PROVE  hook'[u].pc = "run" /\ WillSync(hook'[u])
      BY <1>1, <2>2 DEF LeadersCache, Queued
    <3>2. hook[u].world.route # NoRel /\ hook[u].event # "route_created"
      BY <1>1, <2>2, <3>1, LeaderKnowsRelation DEF CacheInv
    <3>3. hook[u].work \in Seq(Tasks) /\ hook'[u].work \in Seq(Tasks)
      BY DEF TypeOK, Hook
    <3>4. hook[u].work[1] = "route_lib" /\ LibInPlace(hook[u])
      BY <1>1, <3>3 DEF CacheInv, UnitsInv, WorkInOrder
    <3>5. Len(hook[u].work) = 2 /\ hook[u].work[2] = "reconcile"
      <4>1. 1 \in 1..Len(hook[u].work)
        BY <1>1, <3>3
      <4>2. 1 = Len(hook[u].work) - 1 /\ hook[u].work[Len(hook[u].work)] = "reconcile"
        BY <3>2, <3>4, <4>1 DEF LibInPlace
      <4>3. Len(hook[u].work) \in Nat
        BY <3>3, LenProperties
      <4> QED
        BY <4>2, <4>3
    <3>6. hook'[u].work # <<>> /\ hook'[u].work[Len(hook'[u].work)] = "reconcile"
      <4>1. Shifted(hook[u].work, hook'[u].work)
        BY <1>1, <1>2, FrameShifts DEF TypeOK
      <4> QED
        BY <3>3, <3>5, <4>1 DEF Shifted
    <3>7. hook'[u].pc = "run" /\ hook'[u].routes = hook'[u].world.cfg
      BY <1>1, <1>2, <2>2, <3>2 DEF Frame
    <3> QED
      BY <3>6, <3>7 DEF WillSync
  <2> QED
    BY <2>1, <2>2
<1> QED
  BY <1>3, <1>4 DEF CacheInv

LEMMA CacheReconcile ==
    ASSUME TypeOK, TypeOK', CacheInv, NEW u \in Units, Reconcile(u)
    PROVE  CacheInv'
<1> USE DEF Rest, jujuVars, bagVars, fileVars
<1> DEFINE h == hook[u]
           cfg == h.world.cfg
<1>1. /\ Calls(u, "reconcile") /\ h.pc = "run" /\ h.work # <<>> /\ Head(h.work) = "reconcile"
      /\ UNCHANGED <<world, leader, pending, deferred, suspect, routes>>
  BY DEF Reconcile, Calls
<1>2. Frame(h, hook'[u]) /\ \A x \in Units \ {u} : hook'[x] = hook[x]
  BY ReconcileFrame, ReconcileHook
<1>3. Defer(h).routes = h.routes
  BY <1>1, HandlerFrames DEF TypeOK
<1>4. /\ \A x \in Units \ {u} : file'[x] = file[x]
      /\ file'[u] = file[u] \/ RoutesDue(u, h)
      /\ hook'[u].routes = h.routes \/ RoutesDue(u, h)
  <2>1. CASE AppOf(u).javaPw = Empty
    BY <1>3, <2>1, ReconcileHook
  <2>2. CASE AppOf(u).javaPw # Empty
    <3>1. /\ file' = IF RoutesDue(u, h) THEN [file EXCEPT ![u] = cfg] ELSE file
          /\ hook'[u] = Reconciled(u)
      BY <2>2, ReconcileHook
    <3>2. Reconciled(u).routes = IF RoutesDue(u, h) THEN cfg ELSE h.routes
      BY <1>1, ReconciledType
    <3> QED
      BY <3>1, <3>2 DEF TypeOK
  <2> QED
    BY <2>1, <2>2
<1>5. UnitsInv'
  <2>1. \A x \in Units : x # leader => file'[x] = file[x]
    BY <1>4 DEF RoutesDue
  <2>2. u # leader => hook'[u].routes = h.routes
    BY <1>4 DEF RoutesDue
  <2> QED
    BY <1>1, <1>2, <2>1, <2>2, HandlerUnits DEF CacheInv
<1>6. LeadersCache'
  <2>1. CASE u # leader
    BY <1>1, <1>2, <1>4, <2>1, OthersLeaveLeader DEF CacheInv, TypeOK
  <2>2. CASE u = leader
    <3>1. SUFFICES ASSUME leader \notin suspect, world.route # NoRel, Queued(leader) = {}
                   PROVE  InSync(u)' \/ (hook'[u].pc = "run" /\ WillSync(hook'[u]))
      BY <1>1, <2>2 DEF LeadersCache, Queued
    <3>2. h.world.route # NoRel
      BY <1>1, <2>2, <3>1, LeaderKnowsRelation DEF CacheInv
    <3>3. AppOf(u).javaPw # Empty
      <4>1. h.app \in App /\ drawn + 2 # Empty
        BY <1>1, CallsType DEF TypeOK, Empty
      <4> QED
        BY <2>2, <4>1 DEF AppOf, AppPasswords, App
    <3>4. /\ hook'[u].routes = IF RoutesDue(u, h) THEN cfg ELSE h.routes
          /\ file' = IF RoutesDue(u, h) THEN [file EXCEPT ![u] = cfg] ELSE file
          /\ hook'[u].pc = "run"
      BY <1>1, <1>2, <3>3, ReconcileHook, ReconciledType DEF Frame
    <3>5. cfg # NoConfig
      BY <1>1, CallsType, NamesAssumption DEF World
    <3>6. CASE file[u] # cfg
      <4>1. file'[u] = cfg /\ hook'[u].routes = cfg
        BY <2>2, <3>2, <3>4, <3>6 DEF RoutesDue, TypeOK
      <4> QED
        BY <3>4, <3>5, <4>1 DEF InSync
    <3>7. CASE file[u] = cfg
      <4>1. file' = file /\ hook'[u].routes = h.routes
        BY <3>4, <3>7 DEF RoutesDue
      <4>2. InSync(u) \/ h.routes = cfg => InSync(u)'
        BY <1>1, <3>4, <3>5, <3>7, <4>1 DEF InSync
      <4>3. WillSync(h) /\ h.routes # cfg => WillSync(hook'[u])
        BY <1>1, <1>2, <4>1, StillWillSync DEF TypeOK
      <4> QED
        BY <2>2, <3>1, <3>4, <4>2, <4>3 DEF CacheInv, LeadersCache
    <3> QED
      BY <3>6, <3>7
  <2> QED
    BY <2>1, <2>2
<1> QED
  BY <1>5, <1>6 DEF CacheInv

-----------------------------------------------------------------------------
(* Juju, the operator and HAProxy.  None of them moves within the handlers of *)
(* a hook, so that a file which will be in step is in step already.           *)

LEMMA CacheInit == Init => CacheInv
<1> SUFFICES ASSUME Init PROVE CacheInv
  OBVIOUS
<1>1. IdleHook.pc = "idle" /\ IdleHook.routes = NoConfig /\ IdleHook.deferred = <<>>
  BY DEF IdleHook
<1>2. leader \in Units
  BY InitialAssumption DEF Init
<1>3. UnitsInv
  BY <1>1 DEF Init, UnitsInv, EventsInOrder, FailureIsKnown, WorkInOrder, FollowersAreBlank, NoLib
<1>4. LeadersCache
  BY <1>2 DEF Init, LeadersCache, Queued
<1> QED
  BY <1>3, <1>4 DEF CacheInv

LEMMA InSyncWhenQuiet ==
    ASSUME TypeOK, CacheInv, Quiet, leader \notin suspect, world.route # NoRel,
           Queued(leader) = {}
    PROVE  InSync(leader)
BY DEF CacheInv, LeadersCache, WillSync, Quiet, TypeOK

\* What changes the backend relation raises events of it.
LEMMA CacheWorld ==
    ASSUME TypeOK, TypeOK', CacheInv, Quiet,
           UNCHANGED <<hook, file, deferred, suspect, leader, routes>>,
           world'.route = world.route,
           \A u \in Units : /\ "route_changed" \in pending[u] => "route_changed" \in pending'[u]
                            /\ "route_created" \in pending'[u] => "route_created" \in pending[u]
                            /\ Queued(u)' = {} => Queued(u) = {}
    PROVE  CacheInv'
<1>1. UnitsInv'
  <2> SUFFICES ASSUME NEW u \in Units
               PROVE  /\ EventsInOrder(u)' /\ FailureIsKnown(u)'
                      /\ WorkInOrder(u)' /\ FollowersAreBlank(u)'
    BY DEF UnitsInv
  <2>1. /\ EventsInOrder(u) /\ FailureIsKnown(u) /\ WorkInOrder(u) /\ FollowersAreBlank(u)
    BY DEF CacheInv, UnitsInv
  <2>2. EventsInOrder(u)'
    BY <2>1 DEF EventsInOrder
  <2> QED
    BY <2>1, <2>2 DEF FailureIsKnown, WorkInOrder, FollowersAreBlank
<1>2. LeadersCache'
  <2>1. SUFFICES ASSUME leader \notin suspect, world.route # NoRel, Queued(leader)' = {}
                 PROVE  InSync(leader)'
    BY DEF LeadersCache, Queued
  <2>2. leader \in Units
    BY DEF TypeOK
  <2>3. Queued(leader) = {}
    BY <2>1, <2>2 DEF Queued
  <2>4. InSync(leader)
    BY <2>1, <2>3, InSyncWhenQuiet
  <2> QED
    BY <2>4 DEF InSync
<1> QED
  BY <1>1, <1>2 DEF CacheInv

LEMMA CacheRouteAdded ==
    ASSUME TypeOK, TypeOK', CacheInv, RouteAdded
    PROVE  CacheInv'
<1> USE DEF RestUnchanged, bagVars, fileVars
<1>1. /\ UNCHANGED <<hook, file, deferred, suspect, leader>>
      /\ \A u \in Units : {"route_created", "route_changed"} \subseteq pending'[u]
  BY DEF RouteAdded, Raise
<1>2. UnitsInv'
  BY <1>1 DEF CacheInv, UnitsInv, EventsInOrder, FailureIsKnown, WorkInOrder, FollowersAreBlank
<1>3. LeadersCache'
  BY <1>1 DEF LeadersCache, Queued, TypeOK
<1> QED
  BY <1>2, <1>3 DEF CacheInv

LEMMA CacheRouteRemoved ==
    ASSUME TypeOK, TypeOK', CacheInv, RouteRemoved
    PROVE  CacheInv'
<1> USE DEF RestUnchanged, bagVars, fileVars
<1>1. /\ UNCHANGED <<hook, file, deferred, suspect, leader>>
      /\ \A u \in Units : "route_created" \notin pending'[u]
      /\ world'.route = NoRel
  BY DEF RouteRemoved, Raise, TypeOK, World
<1>2. UnitsInv'
  BY <1>1 DEF CacheInv, UnitsInv, EventsInOrder, FailureIsKnown, WorkInOrder, FollowersAreBlank
<1>3. LeadersCache'
  BY <1>1 DEF LeadersCache
<1> QED
  BY <1>2, <1>3 DEF CacheInv

LEMMA CacheLeadership ==
    ASSUME TypeOK, TypeOK', CacheInv, LeadershipChange
    PROVE  CacheInv'
<1> USE DEF RestUnchanged, bagVars, fileVars
<1>1. /\ UNCHANGED <<hook, file, deferred, world, pending, routes>>
      /\ suspect' = suspect \cup {leader} /\ leader' \in Units \ {leader}
  BY DEF LeadershipChange
<1>2. UnitsInv'
  BY <1>1 DEF CacheInv, UnitsInv, EventsInOrder, FailureIsKnown, WorkInOrder, FollowersAreBlank
<1>3. LeadersCache'
  BY <1>1, <1>2 DEF CacheInv, UnitsInv, FollowersAreBlank, LeadersCache, InSync
<1> QED
  BY <1>2, <1>3 DEF CacheInv

LEMMA CacheWorldNext ==
    ASSUME TypeOK, TypeOK', CacheInv, WorldNext \/ ProvidersNext
    PROVE  CacheInv'
<1> USE DEF RestUnchanged, bagVars, fileVars
<1>1. CASE ConfigChange
  <2>1. world'.route = world.route
    BY <1>1 DEF ConfigChange, TypeOK, World
  <2>2. \A u \in Units : pending'[u] = pending[u] \cup {"config"}
    BY <1>1 DEF ConfigChange, Raise
  <2> QED
    BY <1>1, <2>1, <2>2, CacheWorld DEF ConfigChange, CanChange, Queued
<1>2. CASE AdminRotated
  <2>1. world'.route = world.route
    BY <1>2 DEF AdminRotated, TypeOK, World
  <2>2. \A u \in Units : pending'[u] \in {pending[u] \cup {"config"}, pending[u] \cup {"secret"},
                                          pending[u]}
    BY <1>2 DEF AdminRotated, Raise, TypeOK
  <2> QED
    BY <1>2, <2>1, <2>2, CacheWorld DEF AdminRotated, CanChange, Queued
<1>3. CASE OAuthAdded
  <2>1. world'.route = world.route
    BY <1>3 DEF OAuthAdded, TypeOK, World
  <2>2. \A u \in Units : pending'[u] = pending[u] \cup {"oauth_created", "oauth_changed"}
    BY <1>3 DEF OAuthAdded, Raise
  <2> QED
    BY <1>3, <2>1, <2>2, CacheWorld DEF OAuthAdded, CanChange, Queued
<1>4. CASE OAuthRemoved
  <2>1. world'.route = world.route
    BY <1>4 DEF OAuthRemoved, TypeOK, World
  <2>2. \A u \in Units : pending'[u] = (pending[u] \ {"oauth_created", "oauth_changed"})
                                       \cup {"oauth_broken"}
    BY <1>4 DEF OAuthRemoved, Raise
  <2> QED
    BY <1>4, <2>1, <2>2, CacheWorld DEF OAuthRemoved, CanChange, Queued
<1>5. CASE HAProxyAnswers
  <2>1. world'.route = world.route
    BY <1>5 DEF HAProxyAnswers, TypeOK, World
  <2>2. \A u \in Units : pending'[u] = pending[u] \cup {"route_changed"}
    BY <1>5 DEF HAProxyAnswers, Raise
  <2> QED
    BY <1>5, <2>1, <2>2, CacheWorld DEF HAProxyAnswers, Queued
<1>6. CASE ProviderAnswers
  <2>1. world'.route = world.route
    BY <1>6 DEF ProviderAnswers, TypeOK, World
  <2>2. \A u \in Units : pending'[u] = pending[u] \cup {"oauth_changed"}
    BY <1>6 DEF ProviderAnswers, Raise
  <2> QED
    BY <1>6, <2>1, <2>2, CacheWorld DEF ProviderAnswers, Queued
<1> QED
  BY <1>1, <1>2, <1>3, <1>4, <1>5, <1>6, CacheRouteAdded, CacheRouteRemoved, CacheLeadership
     DEF WorldNext, ProvidersNext

-----------------------------------------------------------------------------

LEMMA CacheHandlers ==
    ASSUME TypeOK, TypeOK', CacheInv, NEW u \in Units, HookStep(u)
    PROVE  CacheInv'
<1> USE DEF Rest, jujuVars, bagVars, fileVars
<1>1. CASE Secrets(u)
  <2>1. Calls(u, "secrets") /\ Frame(hook[u], hook'[u])
    BY <1>1, SecretsFrame DEF Secrets
  <2> QED
    BY <1>1, <2>1, SecretsHook, CacheElsewhere DEF Secrets
<1>2. CASE OAuth(u) \/ OAuthBroken(u)
  <2>1. PICK t \in {"oauth", "oauth_broken"} : Calls(u, t)
    BY <1>2 DEF OAuth, OAuthBroken
  <2>2. Frame(hook[u], hook'[u])
    BY <1>2, OAuthFrame
  <2> QED
    BY <1>2, <2>1, <2>2, OAuthHook, CacheElsewhere DEF OAuth, OAuthBroken
<1>3. CASE OAuthLib(u)
  <2>1. Calls(u, "oauth_lib") /\ Frame(hook[u], hook'[u]) /\ hook'[u].routes = hook[u].routes
    BY <1>3, LibFrame DEF OAuthLib
  <2> QED
    BY <1>3, <2>1, LibHook, CacheElsewhere DEF OAuthLib
<1> QED
  BY <1>1, <1>2, <1>3, CacheRouteLib, CacheReconcile, CacheCommit, CacheRetry DEF HookStep

\* A leader whose hooks never failed and who never lost the lead knows from its
\* routes.json what the backend relation was told (reconcile_routes compares with
\* the file, not with the relation).
THEOREM LeadersCacheIsTrue == Spec => []FirstLeadersCache
<1>1. Init => CacheInv
  BY CacheInit
<1>2. TypeOK /\ TypeOK' /\ CacheInv /\ [Next]_vars => CacheInv'
  <2> SUFFICES ASSUME TypeOK, TypeOK', CacheInv, [Next]_vars PROVE CacheInv'
    OBVIOUS
  <2>1. CASE \E u \in Units : Crash(u)
    BY <2>1, CacheFailed DEF Crash, InHook, jujuVars, fileVars
  <2>2. CASE UNCHANGED vars
    BY <2>2 DEF vars, jujuVars, bagVars, fileVars, CacheInv, UnitsInv, EventsInOrder,
                FailureIsKnown, WorkInOrder, FollowersAreBlank, LeadersCache, Queued, InSync
  <2> QED
    BY <2>1, <2>2, CacheWorldNext, CacheHandlers, CacheStart DEF Next
<1>3. TypeOK /\ CacheInv => FirstLeadersCache
  <2> SUFFICES ASSUME TypeOK, CacheInv, leader \notin suspect, hook[leader].pc = "idle",
                      world.route # NoRel, Queued(leader) = {}, file[leader] = world.cfg
               PROVE  routes = world.cfg
    BY DEF FirstLeadersCache, Queued
  <2>1. InSync(leader)
    BY DEF CacheInv, LeadersCache
  <2>2. world.cfg # NoConfig
    BY NamesAssumption DEF TypeOK, World
  <2> QED
    BY <2>1, <2>2 DEF InSync
<1> QED
  BY <1>1, <1>2, <1>3, TypeCorrect, PTL DEF Spec
=============================================================================
