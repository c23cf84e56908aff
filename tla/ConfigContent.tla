--------------------------- MODULE ConfigContent ---------------------------
(***************************************************************************)
(* What ConfigManager writes to application-local.yml, and what the UI     *)
(* makes of it.  The file is a function from the paths of its settings to  *)
(* values; the union of two dictionaries is here Over, with the later one  *)
(* first.                                                                  *)
(*                                                                         *)
(* A context c is what the properties of Context say while a hook runs:    *)
(*   related   the client relations there are    tls    Kafka uses TLS     *)
(*   oauth     the oauth relation is there       route  HAProxy's is there *)
(*   url       ingress_url                       ready  the unit has a     *)
(*   mapping   option roles-mapping                     certificate        *)
(*   password  of the user admin                                           *)
(***************************************************************************)
CONSTANTS
    None,        \* Python's None, which yaml.dump writes as null
    Empty,       \* the empty string
    EndInNull    \* the strings whose last four letters are "null"

\* The file's own words do not end in "null".
Words == {"admin", "LOGIN_FORM", "OAUTH2", "keystore", "server", "truststore", "SASL_SSL",
          "SASL_PLAINTEXT"}
ASSUME NullAssumption == \A x \in EndInNull \cup {None} : x \notin Words /\ x \notin BOOLEAN

\* f, and g where f has nothing (f @@ g of module TLC).
Over(f, g) == [x \in DOMAIN f \cup DOMAIN g |-> IF x \in DOMAIN f THEN f[x] ELSE g[x]]
Setting(path, value) == [p \in {path} |-> value]
Only(f, S) == [x \in DOMAIN f \cap S |-> f[x]]
Has(f, path) == path \in DOMAIN f

-----------------------------------------------------------------------------
(* literals.ROLE_PERMISSIONS: what the UI grants to whom.  A permission    *)
(* names a kind of resource, whether it is a user's or an internal one     *)
(* (told apart by USER_TOPIC_REGEX and USER_CONSUMER_REGEX), and an action.*)

Resources == {"topic", "consumer", "schema", "connect", "acl", "clusterconfig",
              "applicationconfig"}
Edits   == {"create", "edit", "delete", "messages_produce", "messages_delete", "reset_offsets"}
Actions == Edits \cup {"view", "messages_read", "analysis_run", "analysis_view"}
Everything == Resources \X {"user", "internal"} \X Actions

OnAll(r, as)  == {r} \X {"user", "internal"} \X as
OnUser(r, as) == {r} \X {"user"} \X as
ViewAll(rs)   == UNION {OnAll(r, {"view"}) : r \in rs}

Reader == ViewAll({"topic", "consumer", "schema"}) \cup OnUser("topic", {"view", "messages_read"})
RolePermissions ==
    [admin           |-> UNION {OnAll(r, Actions) : r \in {"topic", "consumer", "schema", "connect"}}
                         \cup ViewAll({"applicationconfig", "clusterconfig"})
                         \cup OnAll("acl", {"view", "edit"}),
     charmed_manager |-> Reader \cup OnUser("topic", Actions \ {"reset_offsets"})
                         \cup OnUser("consumer", {"reset_offsets", "delete"}),
     charmed_user    |-> Reader \cup OnUser("topic", {"messages_produce"}),
     charmed_read    |-> Reader,
     charmed_stats   |-> ViewAll({"topic", "consumer", "schema", "connect", "clusterconfig"})]
Roles == DOMAIN RolePermissions

\* CharmConfig.roles_mapping_validator: a JSON object of users to known roles.
ValidMapping(value) == value # None /\ \A u \in DOMAIN value : value[u] \in Roles

-----------------------------------------------------------------------------
(* ConfigManager *)

\* Context.tls_termination
AtIngress(c) == c.route

\* Properties of a client context: the empty string without a relation.
Of(c, client, field) == IF client \in c.related THEN <<client, field>> ELSE Empty

\* mutant: looks only at the certificate
SpringSslByCert(c) ==
    IF ~c.ready THEN <<>> ELSE Setting("spring.ssl.bundle.jks.server", "keystore")

\* spring_ssl_config
SpringSsl(c) ==
    IF AtIngress(c) \/ ~c.ready THEN <<>> ELSE Setting("spring.ssl.bundle.jks.server", "keystore")

\* spring_security_config
SpringSecurity(c) ==
    IF c.oauth THEN <<>>
    ELSE [p \in {"spring.security.user.name", "spring.security.user.password"} |->
             IF p = "spring.security.user.name" THEN "admin" ELSE c.password]

\* auth_config: oauth_config or basic_auth
Auth(c) ==
    IF c.oauth
    THEN [p \in {"auth.type", "auth.oauth2.redirect-uri"} |->
             IF p = "auth.type" THEN "OAUTH2" ELSE <<c.url, "/login/oauth2/code/iam">>]
    ELSE Setting("auth.type", "LOGIN_FORM")

\* mutant: the roles of the mapping get all of its users
RbacOfAll(c) ==
    LET used == {c.mapping[u] : u \in DOMAIN c.mapping}
    IN  IF ~c.oauth \/ used = {} THEN <<>>
        ELSE Setting("rbac.roles", {[permissions |-> r, subjects |-> DOMAIN c.mapping] : r \in used})

\* rbac_config; the permissions go by the name of the role they are listed under.
Rbac(c) ==
    LET subjects(r) == {u \in DOMAIN c.mapping : c.mapping[u] = r}
    IN  IF ~c.oauth \/ DOMAIN c.mapping = {} THEN <<>>
        ELSE Setting("rbac.roles", {[permissions |-> r, subjects |-> subjects(r)] :
                                       r \in {x \in Roles : subjects(x) # {}}})

\* kafka_client_properties_config and cluster_tls_properties
KafkaClient(c) ==
    Over([p \in {"security.protocol", "sasl.jaas.config"} |->
             IF p = "sasl.jaas.config"
             THEN <<Of(c, "kafka", "username"), Of(c, "kafka", "password")>>
             ELSE IF c.tls THEN "SASL_SSL" ELSE "SASL_PLAINTEXT"],
         IF c.tls THEN Setting("ssl.truststore", "truststore") ELSE <<>>)

\* kafka_cluster_config with kafka_connect_config and schema_registry_auth_config.
\* (The text of schemaRegistry is never empty, so that "or None" has no effect.)
KafkaCluster(c) ==
    Over(KafkaClient(c),
         [p \in {"bootstrap-servers", "kafka-connect", "schemaRegistry", "schema-registry-auth",
                 "read-only"} |->
             CASE p = "bootstrap-servers" -> Of(c, "kafka", "endpoints")
               [] p = "kafka-connect" -> IF "connect" \in c.related THEN <<"connect">> ELSE None
               [] p = "schemaRegistry" -> <<"http://", Of(c, "karapace", "endpoints")>>
               [] p = "schema-registry-auth" -> IF "karapace" \in c.related THEN <<"karapace">>
                                                ELSE None
               [] p = "read-only" -> ~c.oauth])

\* server_config: servlet_config and server_tls_config
Server(c) ==
    Over(IF c.route THEN Setting("server.servlet.session.cookie.domain", c.url) ELSE <<>>,
         IF AtIngress(c) \/ ~c.ready THEN <<>> ELSE Setting("server.ssl.bundle", "server"))

\* application_local_config, whose other sections are constant.
ApplicationLocal(c) ==
    Over(SpringSsl(c), Over(SpringSecurity(c), Over(Server(c),
        Over(Rbac(c), Over(Auth(c), KafkaCluster(c))))))

\* clean_yaml_config drops every line that ends in "null"; the roles have a line for
\* each subject.
Clean(f) ==
    LET kept == {p \in DOMAIN f : p = "rbac.roles" \/ (f[p] # None /\ f[p] \notin EndInNull)}
        g    == Only(f, kept)
    IN  IF Has(g, "rbac.roles")
        THEN [g EXCEPT !["rbac.roles"] = {[r EXCEPT !.subjects = @ \ EndInNull] : r \in @}]
        ELSE g

File(c) == Clean(ApplicationLocal(c))

-----------------------------------------------------------------------------
(* What the UI makes of a file.  (External to src/.)                       *)

\* The scheme its web server speaks.
Scheme(f) == IF Has(f, "server.ssl.bundle") THEN "https" ELSE "http"

\* The roles of a user who has signed in; without roles nobody is restricted.
RolesOf(f, user) ==
    IF Has(f, "rbac.roles")
    THEN {r.permissions : r \in {x \in f["rbac.roles"] : user \in x.subjects}}
    ELSE Roles

\* What he may do.
Rights(f, user) ==
    LET granted == IF Has(f, "rbac.roles")
                   THEN UNION {RolePermissions[r] : r \in RolesOf(f, user)}
                   ELSE Everything
    IN  IF f["read-only"] THEN {p \in granted : p[3] \notin Edits} ELSE granted
=============================================================================
