---------------------------- MODULE ClientData ----------------------------
(***************************************************************************)
(* One client relation of the Kafka UI application (to Kafka, to Kafka     *)
(* Connect or to Karapace): how its leader asks for credentials, how the   *)
(* provider hands them out in databags and secrets, and how every unit     *)
(* comes to have them in its configuration.  Both ends run the library     *)
(* data_interfaces, whose base class is DataOps.                           *)
(*                                                                         *)
(* A hook sees the databags as they were when it started; a secret's       *)
(* content is the newest at the hook's first read of it and is then kept   *)
(* until the hook ends.  Writes to databags are committed when a hook ends *)
(* well.  The provider's hooks, and those of ours that read nothing which  *)
(* may move meanwhile, are one step: when one of them fails, it did        *)
(* nothing and is run again.                                               *)
(*                                                                         *)
(* External to src/: Juju, and the provider's charm, which makes calls of  *)
(* the library's ProviderData, one or several in a hook, whenever it likes. *)
(***************************************************************************)
EXTENDS Integers, Sequences, FiniteSets, DataOps

CONSTANTS
    Units,       \* the units of the Kafka UI application
    FirstLeaders,  \* those of them that may lead when the relation is made
    Kinds,       \* which of the three relations may be the one looked at
    Enabled, Disabled,   \* values of the field tls
    Absent,      \* the empty string: nothing in the field
    Publications,  \* sets of calls that one hook of the provider may make
    MaxSets,     \* bound: how often the provider publishes
    MaxLeads,    \* bound: how often the leadership moves
    MaxFaults    \* bound: hooks of ours that die

ASSUME UnitsAssumption  == IsFiniteSet(Units) /\ Units # {} /\ Units \cap {"ui", "kafka"} = {}
ASSUME LeadersAssumption == FirstLeaders \subseteq Units
ASSUME KindsAssumption  == Kinds \subseteq {"kafka", "connect", "karapace"} /\ Kinds # {}
ASSUME ValuesAssumption ==
    Enabled # Disabled /\ Absent \notin 1..MaxSets \cup {Enabled, Disabled}
ASSUME PublicationsAssumption ==
    Publications \subseteq SUBSET {"set_credentials", "set_tls", "set_tls_ca", "set_endpoints"}
ASSUME BoundsAssumption == MaxSets \in Nat /\ MaxLeads \in Nat /\ MaxFaults \in Nat

Groups == {"user", "tls"}
Group  == [username |-> "user", password |-> "user", tls |-> "tls", ca |-> "tls"]
Uri    == [user |-> "secret-user", tls |-> "secret-tls"]
SecretFields == DOMAIN Group            \* ca stands for the field tls-ca
\* The field in which the request is made.
Resource == [kafka |-> "topic", connect |-> "plugin-url", karapace |-> "subject"]
Marks  == {"requested-secrets", "provided-secrets"}
UiFields    == Marks \cup {Resource[k] : k \in Kinds} \cup {"extra-user-roles"}
KafkaFields == SecretFields \cup {"endpoints", "secret-user", "secret-tls"}
\* What a unit's configuration says of the relation.  Connect and Karapace
\* are called with a user name made from the relation's number.
ConfFields  == {"endpoints"} \cup SecretFields
Reads == [kafka    |-> <<"tls", "username", "password", "ca">>,
          connect  |-> <<"password", "tls", "ca">>,
          karapace |-> <<"password", "tls", "ca">>]
Nothing == [f \in ConfFields |-> Absent]

VARIABLES
    kind,      \* which relation this is
    related,   \* whether it still exists
    leader,    \* the unit that leads
    bag,       \* databags of the two applications: fields to values
    secret,    \* the provider's secrets: group to fields to values
    since,     \* the revisions each secret has had since the databag last changed
    seen,      \* fields of our databag that the provider's diff has seen
    follows,   \* groups whose secret a unit has read
    pending,   \* events queued for each unit
    told,      \* the provider is to be told that our data changed
    asked,     \* how often the provider's charm was asked for a resource
    hook,      \* the hook each unit runs
    conf,      \* what each unit's configuration file says
    lost,      \* the leadership moved before every unit knew of the relation
    sets, leads, faults

boundVars == <<sets, leads, faults>>
vars == <<kind, related, leader, bag, secret, since, seen, follows, pending, told, asked,
          hook, conf, lost, boundVars>>

Values  == 1..MaxSets \cup {Enabled, Disabled}
Events  == {"created", "changed", "secret", "broken", "status"}

TypeOK ==
    /\ kind \in Kinds /\ related \in BOOLEAN /\ leader \in Units
    /\ DOMAIN bag = {"ui", "kafka"}
    /\ DOMAIN bag["ui"] \subseteq UiFields /\ DOMAIN bag["kafka"] \subseteq KafkaFields
    /\ DOMAIN secret = Groups
    /\ \A g \in Groups : \A f \in DOMAIN secret[g] : Group[f] = g /\ secret[g][f] \in Values
    /\ \A g \in Groups : secret[g] \in since[g]
    /\ seen \subseteq UiFields
    /\ follows \in [Units -> SUBSET Groups]
    /\ pending \in [Units -> SUBSET (Events \ {"status"})]
    /\ told \in BOOLEAN /\ lost \in BOOLEAN /\ asked \in Nat
    /\ \A u \in Units : hook[u].event \in Events /\ DOMAIN hook[u].got \subseteq ConfFields
    /\ conf \in [Units -> [ConfFields -> Values \cup {Absent}]]
    /\ sets \in 0..MaxSets /\ leads \in 0..MaxLeads /\ faults \in 0..MaxFaults

Idle == [pc |-> "idle", event |-> "status", related |-> FALSE, leads |-> FALSE,
         bag |-> [c \in {"ui", "kafka"} |-> <<>>], cache |-> [g \in Groups |-> <<>>],
         todo |-> <<>>, got |-> <<>>]

\* No unit reads.  Hooks of different units, and most other steps, touch different
\* state and may be swapped; what a hook that reads may meet between two reads is
\* a publication.
AllIdle == \A u \in Units : hook[u].pc = "idle"

-----------------------------------------------------------------------------
(* The provider: ProviderData and its handler *)

\* _load_secrets_from_databag: the secret fields are those the requirer names.
Provider ==
    [component |-> "kafka", leader |-> TRUE, group |-> Group, uri |-> Uri,
     local |-> IF "requested-secrets" \in DOMAIN bag["ui"] THEN SecretFields ELSE {}]

\* mutant: no guard
NeverPremature(data) == FALSE

\* Besides endpoints, nothing may be published before the request is there.
Premature(data) ==
    Resource[kind] \notin DOMAIN bag["ui"] /\ ~(DOMAIN data \subseteq {"endpoints"})

\* Every unit is told of a change of the databag, and those that follow a secret
\* of its new revision.
Notify(v) ==
    pending' = [u \in Units |-> pending[u]
        \cup (IF v.bag["kafka"] # bag["kafka"] THEN {"changed"} ELSE {})
        \cup (IF \E g \in follows[u] : v.secret[g] # secret[g] THEN {"secret"} ELSE {})]

\* What the provider's charm said in one of its hooks; only what changes the databag
\* makes the units run relation-changed.
Publish(data) ==
    LET v == Update(Provider, [bag |-> bag, secret |-> secret], data)
    IN  /\ related /\ sets < MaxSets
        /\ ~Premature(data)
        /\ bag' = v.bag /\ secret' = v.secret
        /\ since' = [g \in Groups |-> {v.secret[g]}
               \cup (IF v.bag["kafka"] = bag["kafka"] THEN since[g] ELSE {})]
        /\ Notify(v)
        /\ sets' = sets + 1
        /\ UNCHANGED <<kind, related, leader, seen, follows, told, asked, hook, conf, lost,
                       leads, faults>>

\* The fields that a call of ProviderData sets.
CallFields(call) ==
    CASE call = "set_credentials" -> {"username", "password"}
      [] call = "set_tls"         -> {"tls"}
      [] call = "set_tls_ca"      -> {"ca"}
      [] call = "set_endpoints"   -> {"endpoints"}   \* set_bootstrap_server, set_endpoint

\* Each hook's credentials, CA and endpoints are new.
ProviderPublishes ==
    \E calls \in Publications, t \in {Enabled, Disabled} :
        Publish([f \in UNION {CallFields(c) : c \in calls} |->
                    IF f = "tls" THEN t ELSE sets + 1])

\* mutant: the wrong databag is saved
DiffOfOwnData == [added |-> DOMAIN bag["ui"] \ seen, saved |-> DOMAIN bag["kafka"]]

\* diff, whose memory is in the databag of the provider's application.
Diff == [added |-> DOMAIN bag["ui"] \ seen, saved |-> DOMAIN bag["ui"]]

\* _on_relation_changed_event of the provider: topic_requested and its like.
ProviderChanged ==
    /\ told /\ related /\ AllIdle
    /\ told' = FALSE
    /\ asked' = IF Resource[kind] \in Diff.added THEN asked + 1 ELSE asked
    /\ seen' = Diff.saved
    /\ UNCHANGED <<kind, related, leader, bag, secret, since, follows, pending, hook, conf, lost,
                   boundVars>>

-----------------------------------------------------------------------------
(* Our side: RequirerData, its handlers, and what the charm reads *)

\* Of its own fields only mtls-cert would be a secret, which the charm never sets.
Requirer(leads_) ==
    [component |-> "ui", leader |-> leads_, group |-> Group, uri |-> <<>>, local |-> {}]

\* mutant: the secret fields are named and nothing is asked for
RequestOfMarks == [f \in Marks |-> f]

\* _on_relation_created_event: only the leader makes the request.
Request ==
    [f \in Marks \cup {Resource[kind]}
           \cup (IF kind = "connect" THEN {} ELSE {"extra-user-roles"}) |-> f]

RelationCreated(u) ==
    /\ AllIdle /\ "created" \in pending[u]
    /\ LET made == [bag EXCEPT !["ui"] = IF u = leader THEN Over(Request, @) ELSE @]
       IN  bag' = made /\ told' = (told \/ made # bag)
    /\ pending' = [pending EXCEPT ![u] = @ \ {"created"}]
    /\ UNCHANGED <<kind, related, leader, secret, since, seen, follows, asked, hook, conf, lost,
                   boundVars>>

\* secret-changed: the library's handler does nothing, and the charm's only looks
\* at the option system-users.
SecretChanged(u) ==
    /\ AllIdle /\ "secret" \in pending[u] /\ "created" \notin pending[u]
    /\ pending' = [pending EXCEPT ![u] = @ \ {"secret"}]
    /\ UNCHANGED <<kind, related, leader, bag, secret, since, seen, follows, told, asked, hook, conf,
                   lost, boundVars>>

\* The other hooks end in config-changed: relation-changed, relation-broken
\* and, when nothing is queued, update-status.
Start(u, e) ==
    /\ AllIdle /\ "created" \notin pending[u]
    /\ e \in pending[u] \ {"secret"} \/ (e = "status" /\ pending[u] = {})
    /\ hook' = [hook EXCEPT ![u] =
           [Idle EXCEPT !.pc = "run", !.event = e, !.related = related, !.leads = (u = leader),
                        !.bag = bag, !.todo = Reads[kind],
                        !.got = Only(bag["kafka"], {"endpoints"})]]
    /\ pending' = [pending EXCEPT ![u] = @ \ {e}]
    /\ UNCHANGED <<kind, related, leader, bag, secret, since, seen, follows, told, asked, conf, lost,
                   boundVars>>

\* mutant: every read asks for the newest revision
NotCached(u, g) ==
    IF Uri[g] \in DOMAIN hook[u].bag["kafka"]
    THEN [hook[u].cache EXCEPT ![g] = secret[g]] ELSE hook[u].cache

\* SecretCache and CachedSecret: a secret whose URI the databag has is read once
\* in a hook, at its newest revision.
Cached(u, g) ==
    IF hook[u].cache[g] = <<>> /\ Uri[g] \in DOMAIN hook[u].bag["kafka"]
    THEN [hook[u].cache EXCEPT ![g] = secret[g]] ELSE hook[u].cache

GroupOf(f) == IF f \in SecretFields THEN {Group[f]} ELSE {}

\* mutant: the leader reads its own databag alone
FieldOfOwner(u, cache, f) ==
    LET d   == Requirer(hook[u].leads)
        v   == [bag |-> hook[u].bag, secret |-> cache]
        all == IF d.leader THEN Fetch(d, v, "ui", d.local, {f})
               ELSE Fetch(d, v, "kafka", SecretFields, {f})
    IN  IF f \in DOMAIN all THEN all[f] ELSE Absent

\* DataDict.get: the leader looks into its own databag first.
Field(u, cache, f) ==
    LET d    == Requirer(hook[u].leads)
        v    == [bag |-> hook[u].bag, secret |-> cache]
        mine == IF d.leader THEN Fetch(d, v, "ui", d.local, {f}) ELSE <<>>
        all  == Over(mine, Fetch(d, v, "kafka", SecretFields, {f}))
    IN  IF f \in DOMAIN all THEN all[f] ELSE Absent

\* WithTlsCa.tls_ca asks for a CA only where TLS is on.
Wanted(u, f) == f # "ca" \/ hook[u].got["tls"] = Enabled

Read(u) ==
    /\ hook[u].pc = "run" /\ hook[u].related /\ hook[u].todo # <<>>
    /\ LET f     == Head(hook[u].todo)
           g     == IF Wanted(u, f) THEN GroupOf(f) ELSE {}
           cache == IF g = {} THEN hook[u].cache ELSE Cached(u, Group[f])
           value == IF Wanted(u, f) THEN Field(u, cache, f) ELSE Absent
       IN  /\ hook' = [hook EXCEPT ![u].todo = Tail(@), ![u].cache = cache,
                                   ![u].got = Over([x \in {f} |-> value], @)]
           /\ follows' = [follows EXCEPT
                  ![u] = @ \cup {x \in g : Uri[x] \in DOMAIN hook[u].bag["kafka"]}]
    /\ UNCHANGED <<kind, related, leader, bag, secret, since, seen, pending, told, asked, conf, lost,
                   boundVars>>

\* mutant: without the relation the file stays as it is
WriteIfRelated(u) ==
    /\ hook[u].pc = "run" /\ (hook[u].related => hook[u].todo = <<>>)
    /\ conf' = IF hook[u].related THEN [conf EXCEPT ![u] = Over(hook[u].got, Nothing)] ELSE conf
    /\ hook' = [hook EXCEPT ![u] = Idle]

\* KafkaUiCharm._on_config_changed has read all it needs and writes the file.
Write(u) ==
    /\ hook[u].pc = "run" /\ (hook[u].related => hook[u].todo = <<>>)
    /\ conf' = [conf EXCEPT ![u] = Over(hook[u].got, Nothing)]
    /\ hook' = [hook EXCEPT ![u] = Idle]

\* Then the hook ends well: in relation-changed, the library's handler has saved
\* the databag it saw in the unit's own, and the provider is told of that.  (Of
\* the events that the handler emits after the diff, the charm observes none.)
Finish(u) ==
    /\ Write(u)
    /\ told' = (told \/ (hook[u].event = "changed" /\ related))
    /\ UNCHANGED <<kind, related, leader, bag, secret, since, seen, follows, pending, asked, lost,
                   boundVars>>

\* It dies: its event is handled again, and what it wrote to files stays.  To
\* die after fewer reads makes no difference.
Fail(u) ==
    /\ hook[u].pc = "run" /\ (hook[u].related => hook[u].todo = <<>>)
    /\ faults < MaxFaults
    /\ Write(u) \/ (hook' = [hook EXCEPT ![u] = Idle] /\ UNCHANGED conf)
    /\ pending' = [pending EXCEPT ![u] =
           @ \cup ({hook[u].event} \cap (IF related THEN {"changed"} ELSE {"broken"}))]
    /\ faults' = faults + 1
    /\ UNCHANGED <<kind, related, leader, bag, secret, since, seen, follows, told, asked, lost,
                   sets, leads>>

-----------------------------------------------------------------------------
(* The world *)

LeaderMoves ==
    /\ AllIdle /\ leads < MaxLeads /\ leads' = leads + 1
    /\ leader' \in Units \ {leader}
    /\ lost' = (lost \/ \E u \in Units : "created" \in pending[u])
    /\ UNCHANGED <<kind, related, bag, secret, since, seen, follows, pending, told, asked, hook, conf,
                   sets, faults>>

\* The relation is removed; each unit that knew of it hears of that.
Remove ==
    /\ AllIdle /\ related /\ \A u \in Units : "created" \notin pending[u]
    /\ related' = FALSE
    /\ bag' = [c \in {"ui", "kafka"} |-> <<>>]
    /\ secret' = [g \in Groups |-> <<>>] /\ since' = [g \in Groups |-> {<<>>}]
    /\ seen' = {}
    /\ follows' = [u \in Units |-> {}]
    /\ pending' = [u \in Units |-> {"broken"}]
    /\ told' = FALSE
    /\ UNCHANGED <<kind, leader, asked, hook, conf, lost, boundVars>>

Init ==
    /\ kind \in Kinds /\ related = TRUE /\ leader \in FirstLeaders
    /\ bag = [c \in {"ui", "kafka"} |-> <<>>] /\ secret = [g \in Groups |-> <<>>]
    /\ since = [g \in Groups |-> {<<>>}]
    /\ seen = {}
    /\ follows = [u \in Units |-> {}]
    /\ pending = [u \in Units |-> {"created"}]
    /\ told = FALSE /\ asked = 0 /\ lost = FALSE
    /\ hook = [u \in Units |-> Idle] /\ conf = [u \in Units |-> Nothing]
    /\ sets = 0 /\ leads = 0 /\ faults = 0

HookStep(u) ==
    \/ RelationCreated(u) \/ SecretChanged(u)
    \/ \E e \in Events : Start(u, e)
    \/ Read(u) \/ Finish(u)

Next ==
    \/ \E u \in Units : HookStep(u) \/ Fail(u)
    \/ ProviderPublishes \/ ProviderChanged
    \/ LeaderMoves \/ Remove

Spec == Init /\ [][Next]_vars

\* Juju runs queued hooks, and update-status again and again.  (Strong fairness,
\* because a hook of another unit disables a hook here, see AllIdle.)
FairSpec == Spec /\ (\A u \in Units : SF_vars(HookStep(u))) /\ SF_vars(ProviderChanged)

-----------------------------------------------------------------------------
(* Properties *)

\* User names, passwords and certificates are never in a databag, which every
\* unit and the operator can read, however the provider's calls fall (the guard
\* of ProviderData._update_relation_data).
CredentialsStaySecret == DOMAIN bag["kafka"] \cap SecretFields = {}

\* A unit never signs in with the name of one publication and the password of
\* another, although it reads them one after the other while the provider may
\* replace both (CachedSecret keeps what it read first).
PairsAreWhole ==
    \A u \in Units : kind = "kafka" => conf[u].username = conf[u].password

\* What the charm reads of the databag that is there and of these revisions of the
\* two secrets.
AsRead(user, tls) ==
    LET name == IF kind = "kafka" THEN {} ELSE {"username"}
        cert == IF "tls" \in DOMAIN tls /\ tls["tls"] = Enabled THEN {} ELSE {"ca"}
    IN  Over(Only(bag["kafka"], {"endpoints"}),
             Over(Drop(user, name), Over(Drop(tls, cert), Nothing)))
\* What the provider has published, as the charm would read it now.
Published == AsRead(secret["user"], secret["tls"])

\* A unit has a hook to run, or runs one, that ends in config-changed.
Due(u) == hook[u].pc # "idle" \/ pending[u] \ {"secret"} # {}

\* Between such hooks a unit's configuration is what the databag says, with each of
\* the two secrets wholly in one revision that it has had since the databag last
\* changed, and nothing once the relation is removed, whatever the provider did while
\* hooks read and died.  (It need not be the newest revision: secret-changed is
\* ignored, and ClientsConverge has to wait for update-status.)
RestIsAsPublished ==
    \A u \in Units : ~Due(u) =>
        \E user \in since["user"], tls \in since["tls"] : conf[u] = AsRead(user, tls)

\* The provider's charm is never asked twice for the resource, however often it is
\* told that our data changed: it would replace a user that is in use.  And it was
\* asked, once no unit has relation-created to run and the provider knows our data,
\* if the leader did not change before every unit knew of the relation.
AskedOnce ==
    /\ asked <= 1
    /\ (related /\ ~lost /\ ~told /\ \A u \in Units : "created" \notin pending[u]) => asked = 1

\* If the leader does not change before every unit knows of the relation, then
\* the request reaches the provider, and each unit's configuration comes to say
\* and goes on saying what was published last (relation-changed and, for what
\* changes within secrets, update-status).
ClientsConverge ==
    [](~lost) => <>[](/\ related => asked = 1
                      /\ \A u \in Units : conf[u] = Published)

\* Once every unit has handled relation-created, the request is in the databag
\* ("Sets topic, extra user roles, and "consumer-group-prefix" in the relation").
RequestIsMade ==
    related /\ (\A u \in Units : "created" \notin pending[u])
        => Resource[kind] \in DOMAIN bag["ui"]

\* A unit that was told that its credentials changed has the new ones when it is
\* done ("credential_changed: event emitted when the credentials of Kafka
\* changed").
ChangedCredentialsAreApplied ==
    [][\A u \in Units :
          (SecretChanged(u) /\ related) => conf'[u].password = Published.password]_vars
=============================================================================
