------------------------------ MODULE Routes ------------------------------
(***************************************************************************)
(* How a user reaches the Kafka UI: its leader tells HAProxy the route,    *)
(* HAProxy checks what the applications behind it ask for and publishes    *)
(* URLs, and every unit writes the configuration that goes with that       *)
(* (module ConfigContent).  Both ends of the relation run the library      *)
(* haproxy_route; another application is behind the same HAProxy.          *)
(*                                                                         *)
(* A hook is one step here: one that fails changes nothing and is run      *)
(* again.  The leader stays.  (Module AppData has hooks that die halfway,  *)
(* and what becomes of routes.json when the lead moves.)                   *)
(*                                                                         *)
(* External to src/: Juju, the charm of HAProxy, the other application.    *)
(***************************************************************************)
EXTENDS Naturals, FiniteSets, ConfigContent

CONSTANTS
    Units,       \* units that may be of the application
    Leader,      \* the one that leads
    Hostnames,   \* values of option hostname that are domains
    BadHostname, \* one that is not
    Mappings,    \* values of option roles-mapping: functions, or None for no JSON
    Clients,     \* of the client relations, those that come and go
    Passwords,   \* passwords that an operator gives the user admin
    DefaultName, \* under which HAProxy publishes what asks for no name
    OtherData,   \* what another application may ask HAProxy for
    OurId, OtherId,  \* numbers of the two relations
    MaxChanges   \* bound: changes of options, relations and units

OurName == "kafka-ui"     \* service: the application's name
Options == [hostname : Hostnames \cup {BadHostname, None}, mapping : Mappings]
Services == [valid : BOOLEAN, service : STRING, protocol : {"http", "https"}, grpc : Nat]

ASSUME UnitsAssumption   == IsFiniteSet(Units) /\ Leader \in Units
ASSUME IdsAssumption     == OurId \in Nat /\ OtherId \in Nat /\ OurId # OtherId
ASSUME OptionsAssumption == BadHostname \notin Hostnames /\ None \notin Hostnames
ASSUME OtherAssumption   == OtherData \subseteq Services
\* The path in a redirect URI does not end in "null".
ASSUME NamesAssumption   ==
    /\ Empty \notin Hostnames \cup {DefaultName}
    /\ \A h \in Hostnames \cup {DefaultName} : <<h, "/login/oauth2/code/iam">> \notin EndInNull \cup {None}
ASSUME ClientsAssumption == Clients \subseteq {"kafka", "connect", "karapace"}
ASSUME BoundsAssumption  == MaxChanges \in Nat

VARIABLES
    options,   \* the charm's options
    members,   \* the units that there are
    related,   \* client relations of the application
    oauth, tls,  \* the oauth relation exists; Kafka uses TLS
    password,  \* of the user admin
    route,     \* the relation to HAProxy exists
    pending,   \* events queued for each unit
    bag,       \* our application's databag in that relation
    addressed, \* units that have put their address into theirs
    cache,     \* routes.json of the leader
    written,   \* what application-local.yml of each unit was written from
    other,     \* what the other application asks for
    told,      \* HAProxy's hook is due
    served,    \* the relations HAProxy routes to
    hosts,     \* the addresses it uses for ours
    url,       \* the endpoint it has published to us
    changes

worldVars == <<options, members, related, oauth, tls, password, route, other>>
vars == <<worldVars, pending, bag, addressed, cache, written, told, served, hosts, url, changes>>

Events  == {"config", "created", "changed", "broken"}
NoFile  == <<>>

TypeOK ==
    /\ options \in Options
    /\ members \subseteq Units /\ Leader \in members
    /\ related \subseteq Clients /\ {oauth, tls, route, told} \subseteq BOOLEAN
    /\ password \in Passwords
    /\ pending \in [Units -> SUBSET Events]
    /\ addressed \subseteq Units
    /\ DOMAIN bag \subseteq {"service", "hosts", "hostname", "paths"}
    /\ other \in OtherData \cup {None}
    /\ served \subseteq {OurId, OtherId} /\ hosts \subseteq Units
    /\ url \in Hostnames \cup {Empty, DefaultName}
    /\ changes \in 0..MaxChanges

-----------------------------------------------------------------------------
(* The requirer: route_config and the library *)

\* Context.route_config: what differs from call to call.
RouteConfig == [service |-> OurName, hosts |-> members, hostname |-> options.hostname]

\* _generate_application_data: empty lists for those that are not given.
ApplicationData(config) == Over(config, [paths |-> {}])

\* RequirerApplicationData: what a field is if it is not in the databag.
Defaults == [hosts |-> {}, paths |-> {}, hostname |-> None]

\* from_dict: only hostname may be refused.
Acceptable(data) == data.hostname # BadHostname

\* What dump puts into the databag: fields that are not as by default.
Dumped(data) == Only(data, {k \in DOMAIN data : k \in DOMAIN Defaults => data[k] # Defaults[k]})

\* mutant: the databag is not cleared
DumpOver(b, data) == Over(Dumped(data), b)

\* _DatabagModel.dump, in place of what was there.
Dump(b, data) == Dumped(data)

\* _DatabagModel.load
Load(b) == Over(b, Defaults)

\* mutant: no unit asks whether it can be published
NoRefusal(u) == TRUE

\* HaproxyRouteRequirer.update_relation_data, of the leader, raises
\* DataValidationError and fails the hook.
CanPublish(u) == u = Leader /\ route => Acceptable(ApplicationData(RouteConfig))

\* update_relation_data, called from hook u.
UpdateRelationData(u) ==
    /\ bag' = IF u = Leader /\ route THEN Dump(bag, ApplicationData(RouteConfig)) ELSE bag
    /\ addressed' = IF route THEN addressed \cup {u} ELSE addressed
    /\ told' = (told \/ bag' # bag \/ addressed' # addressed)

-----------------------------------------------------------------------------
(* Our hooks *)

\* TypedCharmBase.config, which Context reads when the charm object is made:
\* with an option that is not valid, every hook fails.
OptionsValid == ValidMapping(options.mapping)

\* What Context says on unit u after init_unit_tls.
ContextOf(u) ==
    [related |-> related, tls |-> tls, oauth |-> oauth, route |-> route, ready |-> TRUE,
     url |-> IF route THEN url ELSE <<u, "8080">>, mapping |-> options.mapping,
     password |-> password]

\* relation-created of HAProxy: only the library's _configure.
RelationCreated(u) ==
    /\ "created" \in pending[u]
    /\ UpdateRelationData(u)
    /\ UNCHANGED <<cache, written>>

\* reconcile_routes: the leader publishes what routes.json does not have.
ReconcileRoutes(u) ==
    LET due == u = Leader /\ route /\ cache # RouteConfig
    IN  /\ cache' = IF due THEN RouteConfig ELSE cache
        /\ IF due THEN UpdateRelationData(u) ELSE UNCHANGED <<bag, addressed, told>>

\* _on_config_changed
ConfigChanged(u) ==
    /\ ReconcileRoutes(u)
    /\ written' = [written EXCEPT ![u] = ContextOf(u)]

\* mutant: relation-changed is left to the library
RelationChangedOfLibrary(u) == UpdateRelationData(u) /\ UNCHANGED <<cache, written>>

\* relation-changed of HAProxy: _configure, then _on_config_changed, whose
\* publication repeats that of _configure.
RelationChanged(u) ==
    /\ UpdateRelationData(u)
    /\ cache' = IF u = Leader /\ route THEN RouteConfig ELSE cache
    /\ written' = [written EXCEPT ![u] = ContextOf(u)]

\* A hook: config-changed, relation-changed or relation-broken of any relation,
\* or update-status when nothing else is queued.
Handle(u, e) ==
    /\ u \in members /\ OptionsValid
    /\ \/ e = "created" /\ CanPublish(u) /\ RelationCreated(u)
       \/ e = "changed" /\ CanPublish(u) /\ RelationChanged(u)
       \/ e \in {"config", "broken"} /\ CanPublish(u) /\ ConfigChanged(u)
    /\ pending' = [pending EXCEPT ![u] = @ \ {e}]
    /\ UNCHANGED <<worldVars, served, hosts, url, changes>>

Hook(u) ==
    \/ \E e \in pending[u] : ("created" \in pending[u] => e = "created") /\ Handle(u, e)
    \/ pending[u] = {} /\ Handle(u, "config")        \* update-status

-----------------------------------------------------------------------------
(* The provider: HaproxyRouteProvider.get_data, as HAProxy's charm uses it *)

Ours == IF DOMAIN bag = {} \/ ~route THEN {}
        ELSE {[id |-> OurId, valid |-> TRUE, service |-> Load(bag).service, protocol |-> "http",
               grpc |-> 0]}
Others == IF other = None THEN {} ELSE {Over([id |-> OtherId], other)}

\* mutant: an application with data that are refused still takes its name
ParsedAll == Ours \cup Others

\* get_data: what cannot be parsed counts for nothing.
Parsed == {d \in Ours \cup Others : d.valid}

\* check_services_unique, check_external_grpc_port_unique, check_grpc_requires_https;
\* the last one overlooks a relation with the number 0.
Refused(d) ==
    \/ \E x \in Parsed \ {d} : x.service = d.service
    \/ d.grpc # 0 /\ \E x \in Parsed \ {d} : x.grpc = d.grpc
    \/ d.grpc # 0 /\ d.protocol # "https" /\ d.id # 0

Accepted == {d.id : d \in {x \in Parsed : ~Refused(x)}}

\* HAProxy's hooks end in this; those whose data it accepts get a URL.
HAProxyRuns ==
    LET u == IF OurId \notin Accepted THEN url
             ELSE IF Load(bag).hostname = None THEN DefaultName ELSE Load(bag).hostname
    IN  /\ told /\ told' = FALSE
        /\ served' = Accepted
        /\ hosts' = IF OurId \in Accepted THEN Load(bag).hosts ELSE {}
        /\ url' = u
        /\ pending' = [x \in Units |->
               IF u # url /\ x \in members THEN pending[x] \cup {"changed"} ELSE pending[x]]
        /\ UNCHANGED <<worldVars, bag, addressed, cache, written, changes>>

-----------------------------------------------------------------------------
(* The operator *)

Queue(e, ms) == [u \in Units |-> IF u \in ms THEN pending[u] \cup e ELSE pending[u]]
Changes == changes < MaxChanges /\ changes' = changes + 1

\* An option that is refused may be put right beyond the bound.
SetOption ==
    /\ IF OptionsValid /\ options.hostname # BadHostname THEN Changes ELSE UNCHANGED changes
    /\ options' \in Options \ {options}
    /\ changes' # changes \/ (ValidMapping(options'.mapping) /\ options'.hostname # BadHostname)
    /\ pending' = Queue({"config"}, members)
    /\ UNCHANGED <<members, related, oauth, tls, password, route, other, bag, addressed, cache,
                   written, told, served, hosts, url>>

SetPassword ==
    /\ Changes /\ password' \in Passwords \ {password}
    /\ pending' = Queue({"config"}, members)
    /\ UNCHANGED <<options, members, related, oauth, tls, route, other, bag, addressed, cache,
                   written, told, served, hosts, url>>

\* Kafka, Connect, Karapace or the identity provider come or go.
Relate ==
    /\ Changes
    /\ \/ related' \in {related \cup {c} : c \in Clients} \cup {related \ {c} : c \in Clients}
          /\ UNCHANGED oauth
       \/ oauth' = ~oauth /\ UNCHANGED related
    /\ tls' \in {b \in BOOLEAN : b => "kafka" \in related'}
    /\ pending' = Queue({"config"}, members)
    /\ UNCHANGED <<options, members, password, route, other, bag, addressed, cache, written, told,
                   served, hosts, url>>

\* A unit is added or removed.  Others hear nothing of that but update-status.
Scale ==
    /\ Changes
    /\ \/ \E u \in Units \ members :
             /\ members' = members \cup {u}
             /\ pending' = Queue({"config"} \cup (IF route THEN {"created", "changed"} ELSE {}),
                                 {u})
             /\ UNCHANGED <<addressed, told>>
       \/ \E u \in members \ {Leader} :
             /\ members' = members \ {u}
             /\ addressed' = addressed \ {u}
             /\ pending' = [pending EXCEPT ![u] = {}]
             /\ told' = (told \/ route)
    /\ written' = [u \in Units |-> IF u \in members' THEN written[u] ELSE NoFile]
    /\ UNCHANGED <<options, related, oauth, tls, password, route, other, bag, cache, served,
                   hosts, url>>

RouteAdded ==
    /\ Changes /\ ~route /\ route' = TRUE
    /\ pending' = Queue({"created"}, members)
    /\ UNCHANGED <<options, members, related, oauth, tls, password, other, bag, addressed, cache,
                   written, told, served, hosts, url>>

RouteRemoved ==
    /\ Changes /\ route /\ route' = FALSE
    /\ bag' = <<>> /\ addressed' = {} /\ url' = Empty /\ told' = TRUE
    /\ pending' = [u \in Units |-> IF u \in members
                                  THEN (pending[u] \ {"created", "changed"}) \cup {"broken"}
                                  ELSE {}]
    /\ UNCHANGED <<options, members, related, oauth, tls, password, other, cache, written, served,
                   hosts>>

\* The other application comes, goes or asks for something else.
OtherChanges ==
    /\ Changes /\ other' \in (OtherData \cup {None}) \ {other} /\ told' = TRUE
    /\ UNCHANGED <<options, members, related, oauth, tls, password, route, pending, bag,
                   addressed, cache, written, served, hosts, url>>

Init ==
    /\ options \in {o \in Options : o.hostname = None /\ ValidMapping(o.mapping)}
    /\ members = {Leader} /\ related = {} /\ oauth = FALSE /\ tls = FALSE /\ password \in Passwords
    /\ route = FALSE /\ pending = [u \in Units |-> IF u = Leader THEN {"config"} ELSE {}]
    /\ bag = <<>> /\ addressed = {} /\ cache = NoFile
    /\ written = [u \in Units |-> NoFile]
    /\ other = None /\ told = FALSE /\ served = {} /\ hosts = {} /\ url = Empty
    /\ changes = 0

Next ==
    \/ \E u \in Units : Hook(u)
    \/ HAProxyRuns
    \/ SetOption \/ SetPassword \/ Relate \/ Scale \/ RouteAdded \/ RouteRemoved \/ OtherChanges

Spec == Init /\ [][Next]_vars
\* Juju runs queued hooks, and update-status again and again.
FairSpec == Spec /\ (\A u \in Units : WF_vars(Hook(u))) /\ WF_vars(HAProxyRuns)

-----------------------------------------------------------------------------
(* Properties *)

\* Every file that a unit starts from is consistent in itself, whatever came and
\* went before it was written: one way to sign in with what it needs (with
\* oauth_config there is no spring_security_config, and the other way round);
\* no role but admin lets a user change what is internal to Kafka;
\* the certificate that server_config names is one that spring_config defines,
\* and the truststore is there if and only if Kafka is spoken to over TLS.
Internals == Resources \X {"internal"} \X Edits
FileStandsAlone ==
    \A u \in Units : written[u] # NoFile =>
        LET f == File(written[u])
        IN  /\ (f["auth.type"] = "LOGIN_FORM") <=> Has(f, "spring.security.user.name")
            /\ (f["auth.type"] = "LOGIN_FORM") => ~Has(f, "rbac.roles") /\ f["read-only"]
            /\ Has(f, "rbac.roles") =>
                  \A user \in UNION {r.subjects : r \in f["rbac.roles"]} :
                      Rights(f, user) \cap Internals # {} => RolesOf(f, user) = {"admin"}
            /\ Has(f, "server.ssl.bundle") <=> Has(f, "spring.ssl.bundle.jks.server")
            /\ Has(f, "ssl.truststore") <=> f["security.protocol"] = "SASL_SSL"

\* HAProxy sends users to the units that there are, under the name that is
\* configured, and these speak HTTP to it and send users back to that name.
Served ==
    LET name == IF options.hostname = None THEN DefaultName ELSE options.hostname
    IN  /\ OurId \in served /\ hosts = members /\ url = name
        /\ \A u \in members :
              /\ written[u] # NoFile /\ Scheme(File(written[u])) = "http"
              /\ oauth => Has(File(written[u]), "auth.oauth2.redirect-uri")
                       /\ File(written[u])["auth.oauth2.redirect-uri"][1] = name

\* Another application that HAProxy accepts has our name, or would have.
Clash == other # None /\ other.valid /\ other.service = OurName

\* Users reach the application through HAProxy if it is related and nobody else has
\* its name, or else each unit over HTTPS; and the rights of each user who signs in
\* are those of the one role that roles-mapping gives him.  (The cleaning of the file
\* drops users whose name ends in "null".)
AsConfigured ==
    /\ route /\ ~Clash => Served
    /\ \A u \in members :
          /\ written[u] # NoFile
          /\ ~route => Scheme(File(written[u])) = "https"
          /\ oauth /\ DOMAIN options.mapping # {} =>
                \A m \in Mappings \ {None} : \A user \in DOMAIN m \ EndInNull :
                    RolesOf(File(written[u]), user) = {options.mapping[x] :
                                                 x \in {user} \cap DOMAIN options.mapping}

\* Neither our units nor HAProxy have a hook to run but update-status.
AtRest == ~told /\ \A u \in members : pending[u] = {}

\* The hooks that Juju queues are enough: once they have run, all is as configured,
\* without waiting for update-status and whatever came, went or was refused before.
\* Only which units there are is nothing that Juju tells the leader: as long as
\* it has not published that, HAProxy may send users elsewhere.
RestIsAsConfigured ==
    (AtRest /\ (route => Load(bag).hosts = members)) => AsConfigured

\* When changes stop and the options are right, then all comes to be as configured
\* and stays so.
UsersAreServed ==
    <>[](OptionsValid /\ (route => options.hostname # BadHostname) => AsConfigured)
=============================================================================
