------------------------------ MODULE AppData ------------------------------
(***************************************************************************)
(* Several units of the Kafka UI charm and what they share: the secrets of *)
(* the peer application databag, the route requirements in the databag of  *)
(* the backend relation and the client configuration in the databag of the *)
(* oauth relation.  Only the leader may write them, every unit reads them, *)
(* the leadership moves, and hooks of different units overlap.             *)
(*                                                                         *)
(* A hook reads the world and the databags as they were when it started,   *)
(* and its own writes to databags are committed when it ends well and      *)
(* dropped when it fails.  routes.json and application-local.yml are files *)
(* of one unit, written at once.  What one unit does with its stores and   *)
(* its service is UnitAgent's subject and left out here.                   *)
(*                                                                         *)
(* External to src/: Juju (events, leadership, commit, retry), HAProxy     *)
(* and the identity provider, and the relation libraries' own handlers.    *)
(***************************************************************************)
EXTENDS Integers, Sequences, FiniteSets

CONSTANTS
    Units,        \* the units of the application
    Configs,      \* values of route_config (host names, addresses of units)
    NoConfig,     \* "nothing was published / written"
    Ingress,      \* the URL that HAProxy gives the application
    NoUrl,        \* the empty ingress_url, while HAProxy has not answered
    UserPws,      \* passwords an operator may put into system-users
    InitialWorlds,  \* relations and options at deployment
    InitialLeaders, \* units that may lead first
    Changes,      \* the kinds of change that may happen
    MaxChanges,   \* bound: changes of the world and of the leadership
    MaxRelations, \* bound: how often a relation is added, for each relation
    MaxFaults,    \* bound: hooks that die
    LeaseMayEnd   \* whether a unit may lose the lead within a hook

Empty   == 0
NoRel   == 0      \* this relation does not exist; others are numbered
\* route_config; the backend relation and whether HAProxy answered; the oauth
\* relation and whether the provider issued its client secret; system-users.
World == [cfg : Configs, route : Nat, url : BOOLEAN,
          oauth : Nat, issued : BOOLEAN, userPw : UserPws \cup {Empty}]
Urls  == Units \cup {Ingress, NoUrl}

ASSUME UnitsAssumption  == IsFiniteSet(Units) /\ Units # {}
ASSUME NamesAssumption  ==
    /\ NoConfig \notin Configs
    /\ Ingress # NoUrl /\ {Ingress, NoUrl} \cap Units = {}
ASSUME UserPwsAssumption == UserPws \subseteq Nat \ {Empty}
ASSUME InitialAssumption ==
    /\ InitialWorlds \subseteq World /\ InitialWorlds # {}
    /\ \A w \in InitialWorlds : {w.route, w.oauth} \subseteq {NoRel, 1} /\ ~w.url /\ ~w.issued
    /\ InitialLeaders \subseteq Units /\ InitialLeaders # {}
ASSUME BoundsAssumption  ==
    /\ MaxChanges \in Nat /\ MaxRelations \in Nat \ {0} /\ MaxFaults \in Nat
    /\ LeaseMayEnd \in BOOLEAN
    /\ Changes \subseteq {"cfg", "user", "route", "oauth", "lead"}

VARIABLES
    world,     \* relation data and options as Juju holds them now
    leader,    \* the unit that leads
    pending,   \* events queued for each unit
    app,       \* the peer application databag (its secrets)
    routes,    \* route requirements in the backend relation's databag
    client,    \* redirect URI in the oauth relation's databag
    deferred,  \* handlers each unit deferred, oldest first
    hook,      \* the hook each unit runs
    file,      \* routes.json of each unit
    conf,      \* application-local.yml of each unit: what it says about login
    suspect,   \* units that lost the lead or had a hook that failed
    drawn,     \* how many passwords were generated so far
    made,      \* how often each relation was added
    changes, faults

jujuVars  == <<world, leader, pending>>
bagVars   == <<app, routes, client>>
fileVars  == <<file, conf>>
boundVars == <<changes, faults>>
vars == <<jujuVars, bagVars, deferred, hook, fileVars, suspect, drawn, made, boundVars>>

-----------------------------------------------------------------------------
(* Types *)

App  == [admin : Nat, javaPw : Nat, secret : Nat]
Conf == [auth : {"none", "basic", "oauth"}, admin : Nat, secret : Nat,
         redirect : Urls]
Tasks  == {"secrets", "reconcile", "oauth", "oauth_broken", "route_lib", "oauth_lib"}
Events == {"start", "config", "status", "secret",
           "route_created", "route_changed", "route_broken",
           "oauth_created", "oauth_changed", "oauth_broken"}
\* A hook: the world it sees, and its uncommitted writes (NoConfig and NoUrl:
\* none; wrote: the peer databag is among them).
Hook == [pc : {"idle", "run", "failed"}, event : Events, world : World, app : App,
         wrote : BOOLEAN, routes : Configs \cup {NoConfig},
         client : Urls \cup {NoConfig}, deferred : Seq(Tasks), work : Seq(Tasks)]

TypeOK ==
    /\ world \in World /\ leader \in Units
    /\ pending \in [Units -> SUBSET Events]
    /\ app \in App
    /\ routes \in Configs \cup {NoConfig}
    /\ client \in Urls \cup {NoConfig}
    /\ deferred \in [Units -> Seq(Tasks)]
    /\ hook \in [Units -> Hook]
    /\ file \in [Units -> Configs \cup {NoConfig}]
    /\ conf \in [Units -> Conf]
    /\ suspect \subseteq Units
    /\ drawn \in Nat
    /\ made \in [{"route", "oauth"} -> 0..MaxRelations]
    /\ changes \in 0..MaxChanges /\ faults \in 0..MaxFaults

InHook(u) == hook[u].pc = "run"
\* No unit is within its handlers.  A handler reads and writes only what is its
\* unit's own (besides asking who leads), so it does not matter when
\* the others move meanwhile: they move before the first handler, or after the
\* last one and before the commit.
Quiet == \A u \in Units : hook[u].work = <<>>
\* Idle units are all in the same state: nothing of a hook survives it.
IdleHook == [pc |-> "idle", event |-> "status", world |-> CHOOSE w \in InitialWorlds : TRUE,
             app |-> [admin |-> Empty, javaPw |-> Empty, secret |-> Empty],
             wrote |-> FALSE, routes |-> NoConfig, client |-> NoConfig,
             deferred |-> <<>>, work |-> <<>>]

-----------------------------------------------------------------------------
(* What the charm computes from the state *)

\* KafkaUiCharm.init_app_passwords
AppPasswords(a, p, q) ==
    [a EXCEPT !.admin  = IF @ = Empty THEN p ELSE @,
              !.javaPw = IF @ = Empty THEN q ELSE @]

\* Context.ingress_url on unit u: its own endpoint without a backend relation.
IngressUrl(u, w) ==
    CASE w.route = NoRel -> u
      [] w.route # NoRel /\ w.url -> Ingress
      [] OTHER -> NoUrl

\* The login part of ConfigManager.application_local_config on unit u: basic
\* authentication of the admin, or the oauth client.
Render(u, a, w) ==
    IF w.oauth = NoRel
    THEN [auth |-> "basic", admin |-> a.admin, secret |-> Empty, redirect |-> NoUrl]
    ELSE [auth |-> "oauth", admin |-> Empty, secret |-> a.secret,
          redirect |-> IngressUrl(u, w)]

\* Mutant: system-users is only looked at when Juju says that it changed.
EventTasksSecretOnly(e) ==
    CASE e \in {"start", "config", "status"} -> <<"reconcile">>
      [] e = "secret"                -> <<"secrets">>
      [] e = "route_created"         -> <<"route_lib">>
      [] e = "route_changed"         -> <<"route_lib", "reconcile">>
      [] e = "route_broken"          -> <<"reconcile">>
      [] e = "oauth_created"         -> <<"oauth_lib">>
      [] e = "oauth_changed"         -> <<"oauth">>
      [] e = "oauth_broken"          -> <<"oauth_broken">>

\* The handlers of an event in the order they observe it; update-status emits
\* config_changed.
EventTasks(e) ==
    CASE e \in {"start", "config", "status"} -> <<"secrets", "reconcile">>
      [] e = "secret"                -> <<"secrets">>
      [] e = "route_created"         -> <<"route_lib">>
      [] e = "route_changed"         -> <<"route_lib", "reconcile">>
      [] e = "route_broken"          -> <<"reconcile">>
      [] e = "oauth_created"         -> <<"oauth_lib">>
      [] e = "oauth_changed"         -> <<"oauth">>
      [] e = "oauth_broken"          -> <<"oauth_broken">>

-----------------------------------------------------------------------------
(* Juju, the operator, HAProxy and the identity provider *)

CanChange(kind) ==
    kind \in Changes /\ Quiet /\ changes < MaxChanges /\ changes' = changes + 1
\* New events for every unit; events of a relation that is gone are not served.
Raise(new, gone) == pending' = [u \in Units |-> (pending[u] \ gone) \cup new]
RestUnchanged == UNCHANGED <<deferred, hook, fileVars, drawn, faults>>

ConfigChange ==
    /\ CanChange("cfg")
    /\ \E c \in Configs \ {world.cfg} : world' = [world EXCEPT !.cfg = c]
    /\ Raise({"config"}, {})
    /\ UNCHANGED <<leader, bagVars, suspect, made>> /\ RestUnchanged
\* The option is set, or the secret it names gets other content: secret-changed
\* goes to the units that have read the secret, of which the leader is one.
AdminRotated ==
    /\ CanChange("user")
    /\ \E p \in UserPws \ {world.userPw} : world' = [world EXCEPT !.userPw = p]
    /\ IF world.userPw = Empty THEN Raise({"config"}, {})
       ELSE pending' = [pending EXCEPT ![leader] = @ \cup {"secret"}]
    /\ UNCHANGED <<leader, bagVars, suspect, made>> /\ RestUnchanged

\* Relations are numbered: a new one is not the old one.
RouteAdded ==
    /\ CanChange("route")
    /\ world.route = NoRel /\ made["route"] < MaxRelations
    /\ made' = [made EXCEPT !["route"] = @ + 1]
    /\ world' = [world EXCEPT !.route = made'["route"]]
    /\ Raise({"route_created", "route_changed"}, {})
    /\ UNCHANGED <<leader, bagVars, suspect>> /\ RestUnchanged
RouteRemoved ==
    /\ CanChange("route")
    /\ world.route # NoRel
    /\ world' = [world EXCEPT !.route = NoRel, !.url = FALSE]
    /\ Raise({"route_broken"}, {"route_created", "route_changed"})
    /\ routes' = NoConfig
    /\ UNCHANGED <<leader, app, client, suspect, made>> /\ RestUnchanged
OAuthAdded ==
    /\ CanChange("oauth")
    /\ world.oauth = NoRel /\ made["oauth"] < MaxRelations
    /\ made' = [made EXCEPT !["oauth"] = @ + 1]
    /\ world' = [world EXCEPT !.oauth = made'["oauth"]]
    /\ Raise({"oauth_created", "oauth_changed"}, {})
    /\ UNCHANGED <<leader, bagVars, suspect>> /\ RestUnchanged
OAuthRemoved ==
    /\ CanChange("oauth")
    /\ world.oauth # NoRel
    /\ world' = [world EXCEPT !.oauth = NoRel, !.issued = FALSE]
    /\ Raise({"oauth_broken"}, {"oauth_created", "oauth_changed"})
    /\ client' = NoConfig
    /\ UNCHANGED <<leader, app, routes, suspect, made>> /\ RestUnchanged

\* HAProxy answers published requirements with the URL it serves.
HAProxyAnswers ==
    /\ Quiet
    /\ world.route # NoRel /\ ~world.url /\ routes # NoConfig
    /\ world' = [world EXCEPT !.url = TRUE]
    /\ Raise({"route_changed"}, {})
    /\ UNCHANGED <<leader, bagVars, suspect, made, changes>> /\ RestUnchanged
\* The provider registers the client and issues its secret.
ProviderAnswers ==
    /\ Quiet
    /\ world.oauth # NoRel /\ ~world.issued /\ client # NoConfig
    /\ world' = [world EXCEPT !.issued = TRUE]
    /\ Raise({"oauth_changed"}, {})
    /\ UNCHANGED <<leader, bagVars, suspect, made, changes>> /\ RestUnchanged

\* The lead goes from one unit to another that is between two hooks; within a
\* hook it is only lost when the hook outlasts the lease.
LeadershipChange ==
    /\ CanChange("lead")
    /\ InHook(leader) => LeaseMayEnd
    /\ leader' \in {u \in Units \ {leader} : ~InHook(u)}
    /\ suspect' = suspect \cup {leader}
    /\ UNCHANGED <<world, pending, bagVars, made>> /\ RestUnchanged

-----------------------------------------------------------------------------
(* The hook: start, commit, failure *)

\* Events of one relation come in order; only relation-created may come before
\* the first config-changed.
MayCome(u, e) ==
    /\ e \in pending[u] \cup {"status"}
    /\ "start" \in pending[u] => e \in {"start", "route_created", "oauth_created"}
    /\ e = "route_created" => "route_broken" \notin pending[u]
    /\ e = "route_changed" => {"route_broken", "route_created"} \cap pending[u] = {}
    /\ e = "oauth_created" => "oauth_broken" \notin pending[u]
    /\ e = "oauth_changed" => {"oauth_broken", "oauth_created"} \cap pending[u] = {}
\* Deferred notices come before the handlers of the event.
StartHook(u, e) ==
    hook' = [hook EXCEPT ![u] =
        [IdleHook EXCEPT !.pc = "run", !.event = e, !.world = world, !.app = app,
                         !.work = deferred[u] \o EventTasks(e)]]
Start(u, e) ==
    /\ Quiet /\ hook[u].pc = "idle"
    /\ MayCome(u, e)
    /\ StartHook(u, e)
    /\ pending' = [pending EXCEPT ![u] = @ \ {e}]
    /\ UNCHANGED <<world, leader, bagVars, deferred, fileVars, suspect, drawn, made, boundVars>>

\* Juju retries a failed hook before it runs any other.
Retry(u) ==
    /\ Quiet /\ hook[u].pc = "failed"
    /\ StartHook(u, hook[u].event)
    /\ UNCHANGED <<jujuVars, bagVars, deferred, fileVars, suspect, drawn, made, boundVars>>

Failed(u) ==
    /\ hook' = [hook EXCEPT ![u] = [IdleHook EXCEPT !.pc = "failed", !.event = hook[u].event]]
    /\ suspect' = suspect \cup {u}
    /\ UNCHANGED <<bagVars, deferred>>
\* What the leader alone may write: it is refused to a unit that lost the lead.
LeadersWrites(h) == h.wrote \/ h.routes # NoConfig \/ h.client # NoConfig
Commit(u) ==
    LET h == hook[u] IN
    /\ Quiet /\ h.pc = "run"
    /\ \/ /\ LeadersWrites(h) => leader = u
          /\ app'    = IF h.wrote THEN h.app ELSE app
          /\ routes' = IF h.routes # NoConfig /\ h.world.route = world.route
                       THEN h.routes ELSE routes
          /\ client' = IF h.client # NoConfig /\ h.world.oauth = world.oauth
                       THEN h.client ELSE client
          /\ deferred' = [deferred EXCEPT ![u] = h.deferred]
          /\ hook' = [hook EXCEPT ![u] = IdleHook]
          /\ UNCHANGED suspect
       \/ LeadersWrites(h) /\ leader # u /\ Failed(u)
    /\ UNCHANGED <<jujuVars, fileVars, drawn, made, boundVars>>
\* A hook dies, of itself (keytool, the snap) or of the machine.
Crash(u) ==
    /\ InHook(u)
    /\ faults < MaxFaults /\ faults' = faults + 1
    /\ Failed(u)
    /\ UNCHANGED <<jujuVars, fileVars, drawn, made, changes>>

-----------------------------------------------------------------------------
(* The handlers of a hook, one action for each *)

\* The handler that is called next is t, on unit u.
Calls(u, t) == hook[u].pc = "run" /\ hook[u].work # <<>> /\ Head(hook[u].work) = t
Return(h) == [h EXCEPT !.work = Tail(@)]
Append1(s, t) == IF \E i \in DOMAIN s : s[i] = t THEN s ELSE Append(s, t)
\* Mutant: the notice keeps the event instead of the handler.
DeferEvent(h) == [Return(h) EXCEPT !.deferred = Append1(@, h.event)]
\* event.defer()
Defer(h) == [Return(h) EXCEPT !.deferred = Append1(@, Head(h.work))]
\* self.on.config_changed.emit()
Emit(h) == [Return(h) EXCEPT !.work = EventTasks("config") \o @]
Rest(u) == UNCHANGED <<jujuVars, bagVars, deferred, suspect, made, boundVars>>

\* SecretsHandler._on_secret_changed
Secrets(u) ==
    LET h == hook[u]
    IN  /\ Calls(u, "secrets")
        /\ hook' = [hook EXCEPT ![u] =
                IF leader = u /\ h.world.userPw \notin {Empty, h.app.admin}
                THEN [Emit(h) EXCEPT !.app.admin = h.world.userPw, !.wrote = TRUE]
                ELSE Return(h)]
    /\ UNCHANGED <<fileVars, drawn>> /\ Rest(u)

\* OAuthHandler._on_oauth_relation_changed
OAuth(u) ==
    LET h == hook[u]
    IN  /\ Calls(u, "oauth")
        /\ hook' = [hook EXCEPT ![u] =
                CASE leader # u -> Return(h)
                  [] leader = u /\ ~h.world.issued -> Defer(h)
                  [] OTHER -> [Emit(h) EXCEPT !.app.secret = h.world.oauth, !.wrote = TRUE]]
    /\ UNCHANGED <<fileVars, drawn>> /\ Rest(u)

\* OAuthHandler._on_oauth_relation_broken
OAuthBroken(u) ==
    LET h == hook[u]
    IN  /\ Calls(u, "oauth_broken")
        /\ hook' = [hook EXCEPT ![u] =
                IF leader = u
                THEN [Emit(h) EXCEPT !.app.secret = Empty, !.wrote = TRUE]
                ELSE Return(h)]
    /\ UNCHANGED <<fileVars, drawn>> /\ Rest(u)

\* The libraries' own handlers publish what the charm gave them when it started.
RouteLib(u) ==
    LET h == hook[u]
    IN  /\ Calls(u, "route_lib")
        /\ hook' = [hook EXCEPT ![u] =
                IF leader = u /\ h.world.route # NoRel
                THEN [Return(h) EXCEPT !.routes = h.world.cfg] ELSE Return(h)]
    /\ UNCHANGED <<fileVars, drawn>> /\ Rest(u)
OAuthLib(u) ==
    LET h == hook[u]
    IN  /\ Calls(u, "oauth_lib")
        /\ hook' = [hook EXCEPT ![u] =
                IF leader = u /\ h.world.oauth # NoRel
                THEN [Return(h) EXCEPT !.client = IngressUrl(u, h.world)] ELSE Return(h)]
    /\ UNCHANGED <<fileVars, drawn>> /\ Rest(u)

\* Mutant: every unit keeps routes.json, the leader publishes.
RoutesDueAnywhere(u, h) == h.world.route # NoRel /\ file[u] # h.world.cfg
\* KafkaUiCharm.reconcile_routes: the leader has something to publish.
RoutesDue(u, h) == leader = u /\ h.world.route # NoRel /\ file[u] # h.world.cfg

\* Mutant: the client is registered once, when the relation is created.
ClientDueNever(u, h) == FALSE
\* OAuthHandler.reconcile_client_config
ClientDue(u, h) == leader = u /\ h.world.oauth # NoRel

\* Mutant: a follower goes on without the application's passwords.
MustWaitNever(a) == FALSE
\* No application passwords yet: the leader has to create them first.
MustWait(a) == a.javaPw = Empty

\* KafkaUiCharm._on_config_changed as far as databags and login go.  The route
\* library publishes for the leader only.
Reconcile(u) ==
    LET h    == hook[u]
        draw == leader = u /\ Empty \in {h.app.admin, h.app.javaPw}
        a    == IF draw THEN AppPasswords(h.app, drawn + 1, drawn + 2) ELSE h.app
    IN  /\ Calls(u, "reconcile")
        /\ drawn' = IF draw THEN drawn + 2 ELSE drawn
        /\ IF MustWait(a)
           THEN /\ hook' = [hook EXCEPT ![u] = Defer(h)]
                /\ UNCHANGED fileVars
           ELSE /\ hook' = [hook EXCEPT ![u] =
                       [Return(h) EXCEPT
                           !.app    = a,
                           !.wrote  = @ \/ draw,
                           !.routes = IF RoutesDue(u, h) /\ leader = u THEN h.world.cfg ELSE @,
                           !.client = IF ClientDue(u, h) THEN IngressUrl(u, h.world) ELSE @]]
                /\ file' = IF RoutesDue(u, h) THEN [file EXCEPT ![u] = h.world.cfg] ELSE file
                /\ conf' = [conf EXCEPT ![u] = Render(u, a, h.world)]
        /\ Rest(u)

-----------------------------------------------------------------------------
(* The specification *)

Init ==
    /\ world \in InitialWorlds /\ leader \in InitialLeaders
    /\ pending = [u \in Units |->
          {"start"} \cup (IF world.route # NoRel THEN {"route_created", "route_changed"} ELSE {})
                    \cup (IF world.oauth # NoRel THEN {"oauth_created", "oauth_changed"} ELSE {})]
    /\ app = [admin |-> Empty, javaPw |-> Empty, secret |-> Empty]
    /\ routes = NoConfig /\ client = NoConfig
    /\ deferred = [u \in Units |-> <<>>]
    /\ hook = [u \in Units |-> IdleHook]
    /\ file = [u \in Units |-> NoConfig]
    /\ conf = [u \in Units |-> [auth |-> "none", admin |-> Empty, secret |-> Empty,
                                redirect |-> NoUrl]]
    /\ suspect = {} /\ drawn = 0
    /\ made = [route |-> world.route, oauth |-> world.oauth]
    /\ changes = 0 /\ faults = 0

WorldNext ==
    \/ ConfigChange \/ AdminRotated \/ RouteAdded \/ RouteRemoved \/ OAuthAdded \/ OAuthRemoved
    \/ LeadershipChange
ProvidersNext == HAProxyAnswers \/ ProviderAnswers
\* What the agent of unit u does with a hook that was started.
HookStep(u) ==
    \/ Secrets(u) \/ OAuth(u) \/ OAuthBroken(u) \/ RouteLib(u) \/ OAuthLib(u)
    \/ Reconcile(u) \/ Commit(u) \/ Retry(u)
Next ==
    \/ WorldNext \/ ProvidersNext
    \/ \E u \in Units : HookStep(u) \/ Crash(u) \/ \E e \in Events : Start(u, e)

Spec == Init /\ [][Next]_vars

\* An agent runs a hook on and retries one that failed, serves each queued
\* event in the end and fires update-status; the providers answer.
Fairness ==
    /\ SF_vars(HAProxyAnswers) /\ SF_vars(ProviderAnswers)
    /\ \A u \in Units : /\ SF_vars(HookStep(u))
                        /\ SF_vars(Start(u, "status"))
                        /\ SF_vars(\E e \in pending[u] : Start(u, e))
FairSpec == Spec /\ Fairness

-----------------------------------------------------------------------------
(* Properties.  FirstLeadersCache holds, RoutesConverge does not: the file  *)
(* routes.json can be trusted until its unit loses the lead or a hook.      *)

\* A leader whose hooks never failed and who never lost the lead knows from
\* its routes.json what the backend relation was told: reconcile_routes does
\* not skip an update that is due (the file is not a follower's).
FirstLeadersCache ==
    /\ leader \notin suspect
    /\ hook[leader].pc = "idle"
    /\ world.route # NoRel
    /\ {"route_created", "route_changed"} \cap pending[leader] = {}
    /\ file[leader] = world.cfg
    => routes = world.cfg

\* No unit ever serves the login form with an empty admin password: whichever
\* unit leads, followers wait for its passwords (the guard of
\* _on_config_changed looks at the other one of the two).
LoginHasPassword == \A u \in Units : conf[u].auth = "basic" => conf[u].admin # Empty

\* When changes stop, every unit asks for the same admin password, the one of
\* system-users if there is one, even if the lead moved before the leader
\* handled the rotation (_on_secret_changed also runs in config-changed).
RotationReachesEveryUnit ==
    <>[](world.oauth = NoRel =>
            \A u \in Units : /\ conf[u].auth = "basic"
                             /\ conf[u].admin = app.admin
                             /\ world.userPw # Empty => conf[u].admin = world.userPw)

\* When changes stop, the provider knows the redirect URI that the leader's
\* configuration names (reconcile_client_config after a move of the lead: the
\* new leader has another endpoint).
ClientConfigConverges ==
    <>[](world.oauth # NoRel => client = conf[leader].redirect)

\* charm.py, reconcile_routes: "Reconcile configured routes for the
\* application."  When changes stop, the backend relation is told the routes.
RoutesConverge == <>[](world.route # NoRel => routes = world.cfg)

\* models.py, OAuthContext.client_secret: "Client secret created by Hydra."
\* When changes stop, the charm has the secret that the provider issued.
ClientSecretConverges == <>[](world.issued => app.secret = world.oauth)
=============================================================================
