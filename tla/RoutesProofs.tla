---------------------------- MODULE RoutesProofs ----------------------------
(***************************************************************************)
(* Theorems about Routes and the file of ConfigContent, for any units,     *)
(* options, mappings of users to roles and data of other applications: the *)
(* types (no host name that was refused is ever published as ours),        *)
(* FileStandsAlone and RestIsAsConfigured.                                 *)
(***************************************************************************)
EXTENDS Routes, TLAPS

-----------------------------------------------------------------------------
(* ConfigContent: the file of one context                                   *)

\* What a context must be to write a file that stands alone.
IsContext(c) ==
    /\ c.oauth \in BOOLEAN /\ c.tls \in BOOLEAN /\ c.route \in BOOLEAN /\ c.ready \in BOOLEAN
    /\ ValidMapping(c.mapping)

LEMMA OverAt ==
    ASSUME NEW f, NEW g, NEW p
    PROVE  /\ p \in DOMAIN Over(f, g) <=> (p \in DOMAIN f \/ p \in DOMAIN g)
           /\ p \in DOMAIN f => Over(f, g)[p] = f[p]
           /\ p \notin DOMAIN f /\ p \in DOMAIN g => Over(f, g)[p] = g[p]
BY DEF Over

LEMMA SettingAt ==
    ASSUME NEW p, NEW v
    PROVE  DOMAIN Setting(p, v) = {p} /\ Setting(p, v)[p] = v
BY DEF Setting

LEMMA NoSetting == DOMAIN <<>> = {}
OBVIOUS

\* The paths of the settings that the properties are about.
SignIn   == {"spring.security.user.name", "spring.security.user.password"}
AuthPaths == {"auth.type", "auth.oauth2.redirect-uri"}
ClientPaths == {"security.protocol", "sasl.jaas.config", "ssl.truststore", "bootstrap-servers",
                "kafka-connect", "schemaRegistry", "schema-registry-auth", "read-only"}
ServerPaths == {"server.servlet.session.cookie.domain", "server.ssl.bundle"}

RedirectUri(c) == <<c.url, "/login/oauth2/code/iam">>

LEMMA Sections ==
    ASSUME NEW c, IsContext(c)
    PROVE  /\ DOMAIN SpringSsl(c) = IF c.route \/ ~c.ready THEN {} ELSE {"spring.ssl.bundle.jks.server"}
           /\ ~(c.route \/ ~c.ready) => SpringSsl(c)["spring.ssl.bundle.jks.server"] = "keystore"
           /\ DOMAIN SpringSecurity(c) = IF c.oauth THEN {} ELSE SignIn
           /\ ~c.oauth => SpringSecurity(c)["spring.security.user.name"] = "admin"
           /\ DOMAIN Server(c) \subseteq ServerPaths
           /\ "server.ssl.bundle" \in DOMAIN Server(c) <=> ~(c.route \/ ~c.ready)
           /\ ~(c.route \/ ~c.ready) => Server(c)["server.ssl.bundle"] = "server"
           /\ DOMAIN Rbac(c) = IF ~c.oauth \/ DOMAIN c.mapping = {} THEN {} ELSE {"rbac.roles"}
           /\ DOMAIN Auth(c) \subseteq AuthPaths /\ "auth.type" \in DOMAIN Auth(c)
           /\ Auth(c)["auth.type"] = IF c.oauth THEN "OAUTH2" ELSE "LOGIN_FORM"
           /\ c.oauth => /\ "auth.oauth2.redirect-uri" \in DOMAIN Auth(c)
                         /\ Auth(c)["auth.oauth2.redirect-uri"] = RedirectUri(c)
           /\ DOMAIN KafkaCluster(c) \subseteq ClientPaths
           /\ {"security.protocol", "read-only"} \subseteq DOMAIN KafkaCluster(c)
           /\ "ssl.truststore" \in DOMAIN KafkaCluster(c) <=> c.tls
           /\ KafkaCluster(c)["security.protocol"] = IF c.tls THEN "SASL_SSL" ELSE "SASL_PLAINTEXT"
           /\ c.tls => KafkaCluster(c)["ssl.truststore"] = "truststore"
           /\ KafkaCluster(c)["read-only"] = ~c.oauth
<1>1. /\ DOMAIN SpringSsl(c) = IF c.route \/ ~c.ready THEN {} ELSE {"spring.ssl.bundle.jks.server"}
      /\ ~(c.route \/ ~c.ready) => SpringSsl(c)["spring.ssl.bundle.jks.server"] = "keystore"
  BY SettingAt, NoSetting DEF SpringSsl, AtIngress
<1>2. /\ DOMAIN SpringSecurity(c) = IF c.oauth THEN {} ELSE SignIn
      /\ ~c.oauth => SpringSecurity(c)["spring.security.user.name"] = "admin"
  BY NoSetting DEF SpringSecurity, SignIn
<1>3. /\ DOMAIN Server(c) \subseteq ServerPaths
      /\ "server.ssl.bundle" \in DOMAIN Server(c) <=> ~(c.route \/ ~c.ready)
      /\ ~(c.route \/ ~c.ready) => Server(c)["server.ssl.bundle"] = "server"
  <2> DEFINE a == IF c.route THEN Setting("server.servlet.session.cookie.domain", c.url) ELSE <<>>
             b == IF AtIngress(c) \/ ~c.ready THEN <<>> ELSE Setting("server.ssl.bundle", "server")
  <2>1. DOMAIN a \subseteq {"server.servlet.session.cookie.domain"}  BY SettingAt, NoSetting
  <2>2. /\ DOMAIN b = IF c.route \/ ~c.ready THEN {} ELSE {"server.ssl.bundle"}
        /\ ~(c.route \/ ~c.ready) => b["server.ssl.bundle"] = "server"
    BY SettingAt, NoSetting DEF AtIngress
  <2>3. Server(c) = Over(a, b)  BY DEF Server
  <2> HIDE DEF a, b
  <2>4. DOMAIN Server(c) = DOMAIN a \cup DOMAIN b  BY <2>3 DEF Over
  <2>5. "server.ssl.bundle" \notin DOMAIN a  BY <2>1
  <2> QED  BY <2>1, <2>2, <2>3, <2>4, <2>5, OverAt DEF ServerPaths
<1>4. DOMAIN Rbac(c) = IF ~c.oauth \/ DOMAIN c.mapping = {} THEN {} ELSE {"rbac.roles"}
  BY SettingAt, NoSetting DEF Rbac
<1>5. /\ DOMAIN Auth(c) \subseteq AuthPaths /\ "auth.type" \in DOMAIN Auth(c)
      /\ Auth(c)["auth.type"] = (IF c.oauth THEN "OAUTH2" ELSE "LOGIN_FORM")
      /\ c.oauth => /\ "auth.oauth2.redirect-uri" \in DOMAIN Auth(c)
                    /\ Auth(c)["auth.oauth2.redirect-uri"] = RedirectUri(c)
  <2>1. CASE c.oauth
    <3>1. Auth(c) = [p \in AuthPaths |-> IF p = "auth.type" THEN "OAUTH2" ELSE RedirectUri(c)]
      BY <2>1, Zenon DEF Auth, AuthPaths, RedirectUri
    <3>2. "auth.type" \in AuthPaths /\ "auth.oauth2.redirect-uri" \in AuthPaths
      BY DEF AuthPaths
    <3>3. "auth.type" # "auth.oauth2.redirect-uri"  OBVIOUS
    <3> QED  BY <2>1, <3>1, <3>2, <3>3
  <2>2. CASE ~c.oauth
    <3>1. Auth(c) = Setting("auth.type", "LOGIN_FORM")  BY <2>2, Zenon DEF Auth
    <3>2. DOMAIN Auth(c) = {"auth.type"} /\ Auth(c)["auth.type"] = "LOGIN_FORM"
      BY <3>1, SettingAt
    <3>3. {"auth.type"} \subseteq AuthPaths  BY DEF AuthPaths
    <3> QED  BY <2>2, <3>2, <3>3
  <2> QED  BY <2>1, <2>2
<1>6. /\ DOMAIN KafkaCluster(c) \subseteq ClientPaths
      /\ {"security.protocol", "read-only"} \subseteq DOMAIN KafkaCluster(c)
      /\ "ssl.truststore" \in DOMAIN KafkaCluster(c) <=> c.tls
      /\ KafkaCluster(c)["security.protocol"] = IF c.tls THEN "SASL_SSL" ELSE "SASL_PLAINTEXT"
      /\ c.tls => KafkaCluster(c)["ssl.truststore"] = "truststore"
      /\ KafkaCluster(c)["read-only"] = ~c.oauth
  <2> DEFINE paths == {"bootstrap-servers", "kafka-connect", "schemaRegistry",
                       "schema-registry-auth", "read-only"}
  <2>1. PICK a, b : KafkaCluster(c) = Over(a, b) /\ a = KafkaClient(c)
                    /\ DOMAIN b = paths /\ b["read-only"] = ~c.oauth
    <3> DEFINE b == [p \in paths |->
             CASE p = "bootstrap-servers" -> Of(c, "kafka", "endpoints")
               [] p = "kafka-connect" -> IF "connect" \in c.related THEN <<"connect">> ELSE None
               [] p = "schemaRegistry" -> <<"http://", Of(c, "karapace", "endpoints")>>
               [] p = "schema-registry-auth" -> IF "karapace" \in c.related THEN <<"karapace">>
                                                ELSE None
               [] p = "read-only" -> ~c.oauth]
    <3>1. KafkaCluster(c) = Over(KafkaClient(c), b)  BY DEF KafkaCluster
    <3>2. DOMAIN b = paths /\ "read-only" \in paths  OBVIOUS
    <3>3. b["read-only"] = ~c.oauth  BY <3>2
    <3> QED  BY <3>1, <3>2, <3>3
  <2>2. PICK d, e : KafkaClient(c) = Over(d, e)
                    /\ DOMAIN d = {"security.protocol", "sasl.jaas.config"}
                    /\ d["security.protocol"] = (IF c.tls THEN "SASL_SSL" ELSE "SASL_PLAINTEXT")
                    /\ DOMAIN e = (IF c.tls THEN {"ssl.truststore"} ELSE {})
                    /\ (c.tls => e["ssl.truststore"] = "truststore")
    <3> DEFINE d == [p \in {"security.protocol", "sasl.jaas.config"} |->
             IF p = "sasl.jaas.config"
             THEN <<Of(c, "kafka", "username"), Of(c, "kafka", "password")>>
             ELSE IF c.tls THEN "SASL_SSL" ELSE "SASL_PLAINTEXT"]
               e == IF c.tls THEN Setting("ssl.truststore", "truststore") ELSE <<>>
    <3>1. KafkaClient(c) = Over(d, e)  BY DEF KafkaClient
    <3>2. DOMAIN d = {"security.protocol", "sasl.jaas.config"}
          /\ d["security.protocol"] = (IF c.tls THEN "SASL_SSL" ELSE "SASL_PLAINTEXT")
      OBVIOUS
    <3>3. DOMAIN e = (IF c.tls THEN {"ssl.truststore"} ELSE {})
          /\ (c.tls => e["ssl.truststore"] = "truststore")
      BY SettingAt, NoSetting
    <3> QED  BY <3>1, <3>2, <3>3
  <2>3. DOMAIN KafkaCluster(c) = DOMAIN a \cup paths /\ DOMAIN a = DOMAIN d \cup DOMAIN e
    BY <2>1, <2>2 DEF Over
  <2>4. a["security.protocol"] = d["security.protocol"]
        /\ (c.tls => a["ssl.truststore"] = e["ssl.truststore"])
    <3>1. "security.protocol" \in DOMAIN d /\ "ssl.truststore" \notin DOMAIN d  BY <2>2
    <3> QED  BY <3>1, <2>1, <2>2, OverAt
  <2>5. /\ KafkaCluster(c)["security.protocol"] = a["security.protocol"]
        /\ (c.tls => KafkaCluster(c)["ssl.truststore"] = a["ssl.truststore"])
        /\ KafkaCluster(c)["read-only"] = b["read-only"]
    <3>1. "security.protocol" \in DOMAIN a /\ (c.tls => "ssl.truststore" \in DOMAIN a)
          /\ "read-only" \notin DOMAIN a /\ "read-only" \in DOMAIN b
      BY <2>1, <2>2, <2>3
    <3> QED  BY <3>1, <2>1, OverAt
  <2> QED  BY <2>1, <2>2, <2>3, <2>4, <2>5 DEF ClientPaths
<1> QED  BY <1>1, <1>2, <1>3, <1>4, <1>5, <1>6

\* The file before lines are dropped, and what it says at those paths.
LEMMA WholeFile ==
    ASSUME NEW c, IsContext(c), NEW f, f = ApplicationLocal(c)
    PROVE  /\ "spring.security.user.name" \in DOMAIN f <=> ~c.oauth
           /\ ~c.oauth => f["spring.security.user.name"] = "admin"
           /\ "auth.type" \in DOMAIN f
           /\ f["auth.type"] = IF c.oauth THEN "OAUTH2" ELSE "LOGIN_FORM"
           /\ c.oauth => /\ "auth.oauth2.redirect-uri" \in DOMAIN f
                         /\ f["auth.oauth2.redirect-uri"] = RedirectUri(c)
           /\ "rbac.roles" \in DOMAIN f <=> c.oauth /\ DOMAIN c.mapping # {}
           /\ "rbac.roles" \in DOMAIN f => f["rbac.roles"] = Rbac(c)["rbac.roles"]
           /\ "server.ssl.bundle" \in DOMAIN f <=> ~(c.route \/ ~c.ready)
           /\ "server.ssl.bundle" \in DOMAIN f => f["server.ssl.bundle"] = "server"
           /\ "spring.ssl.bundle.jks.server" \in DOMAIN f <=> ~(c.route \/ ~c.ready)
           /\ "spring.ssl.bundle.jks.server" \in DOMAIN f =>
                  f["spring.ssl.bundle.jks.server"] = "keystore"
           /\ "security.protocol" \in DOMAIN f
           /\ f["security.protocol"] = IF c.tls THEN "SASL_SSL" ELSE "SASL_PLAINTEXT"
           /\ "ssl.truststore" \in DOMAIN f <=> c.tls
           /\ c.tls => f["ssl.truststore"] = "truststore"
           /\ "read-only" \in DOMAIN f /\ f["read-only"] = ~c.oauth
<1> DEFINE s1 == SpringSsl(c)
           s2 == SpringSecurity(c)
           s3 == Server(c)
           s4 == Rbac(c)
           s5 == Auth(c)
           s6 == KafkaCluster(c)
           o5 == Over(s5, s6)
           o4 == Over(s4, o5)
           o3 == Over(s3, o4)
           o2 == Over(s2, o3)
<1>1. f = Over(s1, o2)  BY DEF ApplicationLocal
<1>2. ASSUME NEW p
      PROVE  /\ p \in DOMAIN f <=> (\/ p \in DOMAIN s1 \/ p \in DOMAIN s2 \/ p \in DOMAIN s3
                                    \/ p \in DOMAIN s4 \/ p \in DOMAIN s5 \/ p \in DOMAIN s6)
             /\ p \in DOMAIN s1 => f[p] = s1[p]
             /\ p \notin DOMAIN s1 /\ p \in DOMAIN s2 => f[p] = s2[p]
             /\ p \notin DOMAIN s1 \cup DOMAIN s2 /\ p \in DOMAIN s3 => f[p] = s3[p]
             /\ p \notin DOMAIN s1 \cup DOMAIN s2 \cup DOMAIN s3 /\ p \in DOMAIN s4 => f[p] = s4[p]
             /\ p \notin DOMAIN s1 \cup DOMAIN s2 \cup DOMAIN s3 \cup DOMAIN s4 /\ p \in DOMAIN s5
                    => f[p] = s5[p]
             /\ p \notin DOMAIN s1 \cup DOMAIN s2 \cup DOMAIN s3 \cup DOMAIN s4 \cup DOMAIN s5
                /\ p \in DOMAIN s6 => f[p] = s6[p]
  <2> HIDE DEF s1, s2, s3, s4, s5, s6
  <2>5. /\ p \in DOMAIN o5 <=> (p \in DOMAIN s5 \/ p \in DOMAIN s6)
        /\ p \in DOMAIN s5 => o5[p] = s5[p]
        /\ p \notin DOMAIN s5 /\ p \in DOMAIN s6 => o5[p] = s6[p]
    BY OverAt
  <2> HIDE DEF o5
  <2>4. /\ p \in DOMAIN o4 <=> (p \in DOMAIN s4 \/ p \in DOMAIN o5)
        /\ p \in DOMAIN s4 => o4[p] = s4[p]
        /\ p \notin DOMAIN s4 /\ p \in DOMAIN o5 => o4[p] = o5[p]
    BY OverAt
  <2> HIDE DEF o4
  <2>3. /\ p \in DOMAIN o3 <=> (p \in DOMAIN s3 \/ p \in DOMAIN o4)
        /\ p \in DOMAIN s3 => o3[p] = s3[p]
        /\ p \notin DOMAIN s3 /\ p \in DOMAIN o4 => o3[p] = o4[p]
    BY OverAt
  <2> HIDE DEF o3
  <2>2. /\ p \in DOMAIN o2 <=> (p \in DOMAIN s2 \/ p \in DOMAIN o3)
        /\ p \in DOMAIN s2 => o2[p] = s2[p]
        /\ p \notin DOMAIN s2 /\ p \in DOMAIN o3 => o2[p] = o3[p]
    BY OverAt
  <2> HIDE DEF o2
  <2>1. /\ p \in DOMAIN f <=> (p \in DOMAIN s1 \/ p \in DOMAIN o2)
        /\ p \in DOMAIN s1 => f[p] = s1[p]
        /\ p \notin DOMAIN s1 /\ p \in DOMAIN o2 => f[p] = o2[p]
    BY <1>1, OverAt
  <2> QED  BY <2>1, <2>2, <2>3, <2>4, <2>5
<1>3. /\ DOMAIN s1 = IF c.route \/ ~c.ready THEN {} ELSE {"spring.ssl.bundle.jks.server"}
      /\ DOMAIN s2 = IF c.oauth THEN {} ELSE SignIn
      /\ DOMAIN s3 \subseteq ServerPaths
      /\ DOMAIN s4 = IF ~c.oauth \/ DOMAIN c.mapping = {} THEN {} ELSE {"rbac.roles"}
      /\ DOMAIN s5 \subseteq AuthPaths
      /\ DOMAIN s6 \subseteq ClientPaths
  BY Sections
<1> HIDE DEF s1, s2, s3, s4, s5, s6, o2, o3, o4, o5
<1>4. /\ "spring.security.user.name" \in DOMAIN f <=> ~c.oauth
      /\ ~c.oauth => f["spring.security.user.name"] = "admin"
  <2>1. "spring.security.user.name" \notin DOMAIN s1 \cup DOMAIN s3 \cup DOMAIN s4 \cup DOMAIN s5
                                           \cup DOMAIN s6
    BY <1>3 DEF ServerPaths, AuthPaths, ClientPaths
  <2>2. "spring.security.user.name" \in DOMAIN s2 <=> ~c.oauth  BY <1>3 DEF SignIn
  <2> QED  BY <2>1, <2>2, <1>2, Sections DEF s2
<1>12. c.oauth => /\ "auth.oauth2.redirect-uri" \in DOMAIN f
                  /\ f["auth.oauth2.redirect-uri"] = RedirectUri(c)
  <2>1. "auth.oauth2.redirect-uri" \notin DOMAIN s1 \cup DOMAIN s2 \cup DOMAIN s3 \cup DOMAIN s4
    BY <1>3 DEF ServerPaths, SignIn
  <2>2. c.oauth => /\ "auth.oauth2.redirect-uri" \in DOMAIN s5
                   /\ s5["auth.oauth2.redirect-uri"] = RedirectUri(c)
    BY Sections DEF s5
  <2> QED  BY <2>1, <2>2, <1>2
<1>5. "auth.type" \in DOMAIN f /\ f["auth.type"] = IF c.oauth THEN "OAUTH2" ELSE "LOGIN_FORM"
  <2>1. "auth.type" \notin DOMAIN s1 \cup DOMAIN s2 \cup DOMAIN s3 \cup DOMAIN s4
    BY <1>3 DEF ServerPaths, SignIn
  <2>2. "auth.type" \in DOMAIN s5 /\ s5["auth.type"] = IF c.oauth THEN "OAUTH2" ELSE "LOGIN_FORM"
    BY Sections DEF s5
  <2>3. f["auth.type"] = s5["auth.type"] /\ "auth.type" \in DOMAIN f  BY <2>1, <2>2, <1>2
  <2> QED  BY <2>2, <2>3, Zenon
<1>6. /\ "rbac.roles" \in DOMAIN f <=> c.oauth /\ DOMAIN c.mapping # {}
      /\ "rbac.roles" \in DOMAIN f => f["rbac.roles"] = s4["rbac.roles"]
  <2>1. "rbac.roles" \notin DOMAIN s1 \cup DOMAIN s2 \cup DOMAIN s3 \cup DOMAIN s5 \cup DOMAIN s6
    BY <1>3 DEF ServerPaths, SignIn, AuthPaths, ClientPaths
  <2>2. "rbac.roles" \in DOMAIN s4 <=> c.oauth /\ DOMAIN c.mapping # {}  BY <1>3
  <2> QED  BY <2>1, <2>2, <1>2
<1>7. /\ "server.ssl.bundle" \in DOMAIN f <=> ~(c.route \/ ~c.ready)
      /\ "server.ssl.bundle" \in DOMAIN f => f["server.ssl.bundle"] = "server"
  <2>1. "server.ssl.bundle" \notin DOMAIN s1 \cup DOMAIN s2 \cup DOMAIN s4 \cup DOMAIN s5 \cup DOMAIN s6
    BY <1>3 DEF SignIn, AuthPaths, ClientPaths
  <2>2. /\ "server.ssl.bundle" \in DOMAIN s3 <=> ~(c.route \/ ~c.ready)
        /\ ~(c.route \/ ~c.ready) => s3["server.ssl.bundle"] = "server"
    BY Sections DEF s3
  <2> QED  BY <2>1, <2>2, <1>2
<1>8. /\ "spring.ssl.bundle.jks.server" \in DOMAIN f <=> ~(c.route \/ ~c.ready)
      /\ "spring.ssl.bundle.jks.server" \in DOMAIN f =>
             f["spring.ssl.bundle.jks.server"] = "keystore"
  <2>1. "spring.ssl.bundle.jks.server"
            \notin DOMAIN s2 \cup DOMAIN s3 \cup DOMAIN s4 \cup DOMAIN s5 \cup DOMAIN s6
    BY <1>3 DEF SignIn, ServerPaths, AuthPaths, ClientPaths
  <2>2. /\ "spring.ssl.bundle.jks.server" \in DOMAIN s1 <=> ~(c.route \/ ~c.ready)
        /\ ~(c.route \/ ~c.ready) => s1["spring.ssl.bundle.jks.server"] = "keystore"
    BY Sections DEF s1
  <2> QED  BY <2>1, <2>2, <1>2
<1>9. ASSUME NEW p \in ClientPaths, p \in DOMAIN s6  PROVE  p \in DOMAIN f /\ f[p] = s6[p]
  <2>1. p \notin DOMAIN s1 \cup DOMAIN s2 \cup DOMAIN s3 \cup DOMAIN s4 \cup DOMAIN s5
    BY <1>3 DEF SignIn, ServerPaths, AuthPaths, ClientPaths
  <2> QED  BY <2>1, <1>2, <1>9
<1>10. /\ "security.protocol" \in DOMAIN f /\ "read-only" \in DOMAIN f
       /\ f["security.protocol"] = (IF c.tls THEN "SASL_SSL" ELSE "SASL_PLAINTEXT")
       /\ f["read-only"] = ~c.oauth
       /\ c.tls => "ssl.truststore" \in DOMAIN f /\ f["ssl.truststore"] = "truststore"
  <2>1. /\ {"security.protocol", "read-only"} \subseteq DOMAIN s6
        /\ s6["security.protocol"] = (IF c.tls THEN "SASL_SSL" ELSE "SASL_PLAINTEXT")
        /\ s6["read-only"] = ~c.oauth
        /\ c.tls => "ssl.truststore" \in DOMAIN s6 /\ s6["ssl.truststore"] = "truststore"
    BY Sections DEF s6
  <2>2. {"security.protocol", "read-only", "ssl.truststore"} \subseteq ClientPaths
    BY DEF ClientPaths
  <2>3. f["security.protocol"] = s6["security.protocol"] /\ f["read-only"] = s6["read-only"]
        /\ "security.protocol" \in DOMAIN f /\ "read-only" \in DOMAIN f
    BY <2>1, <2>2, <1>9
  <2>4. c.tls => "ssl.truststore" \in DOMAIN f /\ f["ssl.truststore"] = s6["ssl.truststore"]
    BY <2>1, <2>2, <1>9
  <2> QED  BY <2>1, <2>3, <2>4, Zenon
<1>11. "ssl.truststore" \in DOMAIN f => c.tls
  <2>1. "ssl.truststore" \notin DOMAIN s1 \cup DOMAIN s2 \cup DOMAIN s3 \cup DOMAIN s4 \cup DOMAIN s5
    BY <1>3 DEF SignIn, ServerPaths, AuthPaths
  <2>2. "ssl.truststore" \in DOMAIN s6 <=> c.tls  BY Sections DEF s6
  <2> QED  BY <2>1, <2>2, <1>2
<1> QED  BY <1>4, <1>5, <1>6, <1>7, <1>8, <1>10, <1>11, <1>12 DEF s4

\* Words and truth values stay when lines are dropped, and the roles keep those
\* subjects whose lines do.
LEMMA CleanedFile ==
    ASSUME NEW f, NEW g, g = Clean(f)
    PROVE  /\ \A p \in DOMAIN g : p \in DOMAIN f
           /\ \A p \in DOMAIN f : p # "rbac.roles" /\ (f[p] \in Words \/ f[p] \in BOOLEAN) =>
                  p \in DOMAIN g /\ g[p] = f[p]
           /\ \A p \in DOMAIN f : p # "rbac.roles" /\ f[p] # None /\ f[p] \notin EndInNull =>
                  p \in DOMAIN g /\ g[p] = f[p]
           /\ "rbac.roles" \in DOMAIN f => "rbac.roles" \in DOMAIN g
           /\ "rbac.roles" \in DOMAIN g =>
                  g["rbac.roles"] = {[r EXCEPT !.subjects = @ \ EndInNull] : r \in f["rbac.roles"]}
<1> DEFINE kept == {p \in DOMAIN f : p = "rbac.roles" \/ (f[p] # None /\ f[p] \notin EndInNull)}
           h == Only(f, kept)
<1>1. DOMAIN h = kept /\ \A p \in kept : h[p] = f[p]  BY DEF Only
<1>2. g = IF Has(h, "rbac.roles")
          THEN [h EXCEPT !["rbac.roles"] = {[r EXCEPT !.subjects = @ \ EndInNull] : r \in @}]
          ELSE h
  BY DEF Clean
<1>3. \A p \in DOMAIN f : f[p] \in Words \/ f[p] \in BOOLEAN => p \in kept  BY NullAssumption
<1>7. /\ \A p \in DOMAIN f : f[p] # None /\ f[p] \notin EndInNull => p \in kept
      /\ "rbac.roles" \in DOMAIN f => "rbac.roles" \in kept
  OBVIOUS
<1>4. kept \subseteq DOMAIN f  OBVIOUS
<1> HIDE DEF h, kept
<1>5. DOMAIN g = kept /\ \A p \in kept \ {"rbac.roles"} : g[p] = h[p]
  BY <1>1, <1>2
<1>6. "rbac.roles" \in kept =>
          g["rbac.roles"] = {[r EXCEPT !.subjects = @ \ EndInNull] : r \in f["rbac.roles"]}
  BY <1>1, <1>2 DEF Has
<1> QED  BY <1>1, <1>3, <1>4, <1>5, <1>6, <1>7

\* No role but admin lets a user change what is internal.
LEMMA InternalsAreAdmins ==
    ASSUME NEW r \in Roles, NEW p \in RolePermissions[r], p \in Internals
    PROVE  r = "admin"
<1>1. r \in {"admin", "charmed_manager", "charmed_user", "charmed_read", "charmed_stats"}
  BY DEF Roles, RolePermissions
<1>2. PICK a, b : p = <<a, "internal", b>> /\ b \in Edits  BY DEF Internals
<1>3. ASSUME NEW rs, p \in ViewAll(rs) PROVE FALSE
  BY <1>2, <1>3 DEF ViewAll, OnAll, Edits
<1>4. ASSUME NEW x, NEW as, p \in OnUser(x, as) PROVE FALSE
  BY <1>2, <1>4 DEF OnUser
<1>5. p \notin Reader  BY <1>3, <1>4 DEF Reader
<1>6. r # "charmed_manager"  BY <1>4, <1>5 DEF RolePermissions
<1>7. r # "charmed_user"  BY <1>4, <1>5 DEF RolePermissions
<1>8. r # "charmed_read"  BY <1>5 DEF RolePermissions
<1>9. r # "charmed_stats"  BY <1>3 DEF RolePermissions
<1> QED  BY <1>1, <1>6, <1>7, <1>8, <1>9

\* What FileStandsAlone says of one file.
StandsAlone(f) ==
    /\ (f["auth.type"] = "LOGIN_FORM") <=> Has(f, "spring.security.user.name")
    /\ (f["auth.type"] = "LOGIN_FORM") => ~Has(f, "rbac.roles") /\ f["read-only"]
    /\ Has(f, "rbac.roles") =>
          \A user \in UNION {r.subjects : r \in f["rbac.roles"]} :
              Rights(f, user) \cap Internals # {} => RolesOf(f, user) = {"admin"}
    /\ Has(f, "server.ssl.bundle") <=> Has(f, "spring.ssl.bundle.jks.server")
    /\ Has(f, "ssl.truststore") <=> f["security.protocol"] = "SASL_SSL"

LEMMA FileStands ==
    ASSUME NEW c, IsContext(c)
    PROVE  StandsAlone(File(c))
<1> DEFINE whole == ApplicationLocal(c)
           f == File(c)
<1>1. f = Clean(whole)  BY DEF File
<1> HIDE DEF whole, f
<1>2. /\ \A p \in DOMAIN f : p \in DOMAIN whole
      /\ \A p \in DOMAIN whole : p # "rbac.roles" /\ (whole[p] \in Words \/ whole[p] \in BOOLEAN) =>
             p \in DOMAIN f /\ f[p] = whole[p]
      /\ "rbac.roles" \in DOMAIN f =>
             f["rbac.roles"] = {[r EXCEPT !.subjects = @ \ EndInNull] : r \in whole["rbac.roles"]}
  BY <1>1, CleanedFile
<1>3. ASSUME NEW p \in DOMAIN whole, p # "rbac.roles", whole[p] \in Words
      PROVE  p \in DOMAIN f /\ f[p] = whole[p]
  BY <1>2, <1>3
<1>4. /\ "admin" \in Words /\ "LOGIN_FORM" \in Words /\ "OAUTH2" \in Words /\ "keystore" \in Words
      /\ "server" \in Words /\ "truststore" \in Words /\ "SASL_SSL" \in Words
      /\ "SASL_PLAINTEXT" \in Words
  BY DEF Words
<1>5. /\ Has(f, "spring.security.user.name") <=> ~c.oauth
      /\ Has(f, "rbac.roles") => c.oauth
      /\ f["auth.type"] = "LOGIN_FORM" <=> ~c.oauth
  <2>1. Has(f, "spring.security.user.name") <=> ~c.oauth
    BY <1>2, <1>3, <1>4, WholeFile DEF whole, Has
  <2>2. Has(f, "rbac.roles") => c.oauth  BY <1>2, WholeFile DEF whole, Has
  <2>3. "auth.type" \in DOMAIN whole
        /\ whole["auth.type"] = (IF c.oauth THEN "OAUTH2" ELSE "LOGIN_FORM")
    BY WholeFile DEF whole
  <2>4. f["auth.type"] = whole["auth.type"]  BY <2>3, <1>3, <1>4
  <2> QED  BY <2>1, <2>2, <2>3, <2>4
<1>6. f["read-only"] = ~c.oauth
  <2>1. "read-only" \in DOMAIN whole /\ whole["read-only"] = ~c.oauth  BY WholeFile DEF whole
  <2>2. whole["read-only"] \in BOOLEAN  BY <2>1, Zenon
  <2>3. f["read-only"] = whole["read-only"]  BY <2>1, <2>2, <1>2
  <2> QED  BY <2>1, <2>3, Zenon
<1>7. Has(f, "server.ssl.bundle") <=> Has(f, "spring.ssl.bundle.jks.server")
  BY <1>2, <1>3, <1>4, WholeFile DEF whole, Has
<1>8. Has(f, "ssl.truststore") <=> f["security.protocol"] = "SASL_SSL"
  <2>1. Has(f, "ssl.truststore") <=> c.tls  BY <1>2, <1>3, <1>4, WholeFile DEF whole, Has
  <2>2. "security.protocol" \in DOMAIN whole
        /\ whole["security.protocol"] = (IF c.tls THEN "SASL_SSL" ELSE "SASL_PLAINTEXT")
    BY WholeFile DEF whole
  <2>3. f["security.protocol"] = whole["security.protocol"]  BY <2>2, <1>3, <1>4
  <2> QED  BY <2>1, <2>2, <2>3
<1>9. ASSUME Has(f, "rbac.roles"),
             NEW user \in UNION {r.subjects : r \in f["rbac.roles"]},
             Rights(f, user) \cap Internals # {}
      PROVE  RolesOf(f, user) = {"admin"}
  <2> DEFINE subjects(r) == {u \in DOMAIN c.mapping : c.mapping[u] = r}
             named == {x \in Roles : subjects(x) # {}}
             role(r) == [permissions |-> r, subjects |-> subjects(r)]
             left(x) == [x EXCEPT !.subjects = @ \ EndInNull]
  <2>1. whole["rbac.roles"] = {role(r) : r \in named}
    <3>1. "rbac.roles" \in DOMAIN whole /\ whole["rbac.roles"] = Rbac(c)["rbac.roles"]
          /\ c.oauth /\ DOMAIN c.mapping # {}
      BY <1>2, <1>9, WholeFile DEF whole, Has
    <3>2. Rbac(c) = Setting("rbac.roles", {role(r) : r \in named})  BY <3>1 DEF Rbac
    <3> QED  BY <3>1, <3>2, SettingAt
  <2>2. f["rbac.roles"] = {left(x) : x \in whole["rbac.roles"]}  BY <1>2, <1>9 DEF Has
  <2>3. ASSUME NEW x \in f["rbac.roles"]
        PROVE  x.permissions \in Roles
               /\ \A u \in x.subjects : u \in DOMAIN c.mapping /\ c.mapping[u] = x.permissions
    <3>1. PICK r \in named : x = left(role(r))  BY <2>1, <2>2
    <3>2. x.permissions = r /\ x.subjects = subjects(r) \ EndInNull  BY <3>1
    <3> QED  BY <3>2
  <2>4. PICK x \in f["rbac.roles"] : user \in x.subjects  BY <1>9
  <2>5. RolesOf(f, user) = {y.permissions : y \in {z \in f["rbac.roles"] : user \in z.subjects}}
    BY <1>9 DEF RolesOf
  <2>6. RolesOf(f, user) = {x.permissions}  BY <2>3, <2>4, <2>5
  <2>7. Rights(f, user) \subseteq UNION {RolePermissions[r] : r \in RolesOf(f, user)}
    BY <1>9 DEF Rights
  <2>8. PICK p \in Internals : p \in RolePermissions[x.permissions]  BY <1>9, <2>6, <2>7
  <2>9. x.permissions = "admin"  BY <2>3, <2>4, <2>8, InternalsAreAdmins
  <2> QED  BY <2>6, <2>9
<1> QED  BY <1>5, <1>6, <1>7, <1>8, <1>9, Zenon DEF StandsAlone, f

-----------------------------------------------------------------------------
(* The inductive invariant: what our databag may hold, and what files were  *)
(* written from.  (No hook runs with a mapping that is refused, and none    *)
(* publishes a host name that is.)                                          *)

BagInv ==
    /\ "hostname" \in DOMAIN bag => bag["hostname"] \in Hostnames
    /\ "hosts" \in DOMAIN bag => bag["hosts"] \subseteq Units
FileInv ==
    /\ written = [u \in Units |-> written[u]]
    /\ \A u \in Units : written[u] # NoFile => IsContext(written[u])
RouteInv == TypeOK /\ BagInv /\ FileInv

\* Each hook writes its file from what Context may say.
LEMMA WritesContext ==
    ASSUME NEW u, TypeOK, OptionsValid
    PROVE  IsContext(ContextOf(u))
<1>1. PICK y : y = ContextOf(u)  OBVIOUS
<1>2. y.oauth = oauth /\ y.tls = tls /\ y.route = route /\ y.ready = TRUE
      /\ y.mapping = options.mapping
  BY <1>1, Zenon DEF ContextOf
<1>3. oauth \in BOOLEAN /\ tls \in BOOLEAN /\ route \in BOOLEAN  BY DEF TypeOK
<1>4. y.oauth \in BOOLEAN /\ y.tls \in BOOLEAN /\ y.route \in BOOLEAN  BY <1>2, <1>3, Zenon
<1>5. y.ready \in BOOLEAN  BY <1>2, Zenon
<1>6. ValidMapping(y.mapping)  BY <1>2 DEF OptionsValid
<1> QED  BY <1>1, <1>4, <1>5, <1>6, Zenon DEF IsContext

\* What is published is a host name that was not refused, and the units there are.
LEMMA Publication ==
    ASSUME TypeOK, Acceptable(ApplicationData(RouteConfig)),
           NEW b, b = Dump(bag, ApplicationData(RouteConfig))
    PROVE  /\ DOMAIN b \subseteq {"service", "hosts", "hostname", "paths"}
           /\ "hostname" \in DOMAIN b => b["hostname"] \in Hostnames
           /\ "hosts" \in DOMAIN b => b["hosts"] \subseteq Units
<1> DEFINE data == ApplicationData(RouteConfig)
           paths == [paths |-> {}]
<1>1. /\ DOMAIN RouteConfig = {"service", "hosts", "hostname"}
      /\ RouteConfig["hosts"] = members /\ RouteConfig["hostname"] = options.hostname
  BY DEF RouteConfig
<1>2. DOMAIN paths = {"paths"}  OBVIOUS
<1>3. data = Over(RouteConfig, paths)  BY DEF ApplicationData
<1> HIDE DEF paths, data
<1>4. /\ DOMAIN data = {"service", "hosts", "hostname", "paths"}
      /\ data["hosts"] = members /\ data["hostname"] = options.hostname
  BY <1>1, <1>2, <1>3 DEF Over
<1>5. options.hostname \in Hostnames \cup {None}
  BY <1>4 DEF Acceptable, TypeOK, Options, data
<1>6. PICK S : b = Only(data, S) /\ ("hostname" \in S => data["hostname"] # None)
  <2> DEFINE S == {k \in DOMAIN data : k \in DOMAIN Defaults => data[k] # Defaults[k]}
  <2>1. b = Only(data, S)  BY DEF Dump, Dumped, data
  <2>2. "hostname" \in DOMAIN Defaults /\ Defaults["hostname"] = None  BY DEF Defaults
  <2>3. "hostname" \in S => data["hostname"] # None  BY <2>2
  <2> QED  BY <2>1, <2>3
<1>7. /\ DOMAIN b = DOMAIN data \cap S /\ \A k \in DOMAIN b : b[k] = data[k]
  BY <1>6 DEF Only
<1> QED  BY <1>4, <1>5, <1>6, <1>7 DEF TypeOK

\* update_relation_data keeps what the databag may hold.
LEMMA Updates ==
    ASSUME RouteInv, NEW u \in members, CanPublish(u), UpdateRelationData(u)
    PROVE  /\ DOMAIN bag' \subseteq {"service", "hosts", "hostname", "paths"}
           /\ BagInv' /\ addressed' \subseteq Units /\ told' \in BOOLEAN
<1>1. members \subseteq Units /\ addressed \subseteq Units /\ route \in BOOLEAN
      /\ DOMAIN bag \subseteq {"service", "hosts", "hostname", "paths"}
  BY DEF RouteInv, TypeOK
<1>2. addressed' \subseteq Units  BY <1>1 DEF UpdateRelationData
<1>3. told' \in BOOLEAN
  <2>1. told' = (told \/ bag' # bag \/ addressed' # addressed)  BY Zenon DEF UpdateRelationData
  <2> QED  BY <2>1, Zenon
<1>4. CASE u = Leader /\ route
  <2>1. bag' = Dump(bag, ApplicationData(RouteConfig))  BY <1>4 DEF UpdateRelationData
  <2>2. Acceptable(ApplicationData(RouteConfig))  BY <1>4 DEF CanPublish
  <2> HIDE DEF UpdateRelationData
  <2> QED  BY <2>1, <2>2, <1>2, <1>3, Publication DEF BagInv, RouteInv
<1>5. CASE ~(u = Leader /\ route)
  <2>1. bag' = bag  BY <1>5 DEF UpdateRelationData
  <2> QED  BY <2>1, <1>1, <1>2, <1>3 DEF BagInv, RouteInv
<1> QED  BY <1>4, <1>5

LEMMA Init_RouteInv == Init => RouteInv
<1> SUFFICES ASSUME Init PROVE RouteInv  OBVIOUS
<1>1. DOMAIN bag = {}  BY DEF Init
<1>2. pending \in [Units -> SUBSET Events]  BY DEF Init, Events
<1>3. {oauth, tls, route, told} \subseteq BOOLEAN  BY DEF Init
<1>4. options \in Options /\ members \subseteq Units /\ Leader \in members
  BY UnitsAssumption DEF Init
<1>5. changes \in 0..MaxChanges  BY BoundsAssumption DEF Init
<1>6. TypeOK  BY <1>1, <1>2, <1>3, <1>4, <1>5 DEF Init, TypeOK
<1>7. BagInv  BY <1>1 DEF BagInv
<1>8. FileInv  BY DEF Init, FileInv
<1> QED  BY <1>6, <1>7, <1>8 DEF RouteInv

\* No hook of ours lets the files or the databag go wrong.
LEMMA Step_Hook ==
    ASSUME RouteInv, NEW u \in Units, NEW e \in Events, Handle(u, e)
    PROVE  RouteInv'
<1>1. u \in members /\ OptionsValid /\ CanPublish(u)  BY DEF Handle
<1>2. /\ UNCHANGED <<worldVars, served, hosts, url, changes>>
      /\ pending' = [pending EXCEPT ![u] = @ \ {e}]
      /\ RelationCreated(u) \/ RelationChanged(u) \/ ConfigChanged(u)
  BY DEF Handle
<1>3. /\ written' = written \/ written' = [written EXCEPT ![u] = ContextOf(u)]
      /\ UpdateRelationData(u) \/ UNCHANGED <<bag, addressed, told>>
  BY <1>2, Zenon DEF RelationCreated, RelationChanged, ConfigChanged, ReconcileRoutes
<1>4. /\ DOMAIN bag' \subseteq {"service", "hosts", "hostname", "paths"}
      /\ BagInv' /\ addressed' \subseteq Units /\ told' \in BOOLEAN
  <2>1. CASE UpdateRelationData(u)  BY <2>1, <1>1, Updates
  <2>2. CASE UNCHANGED <<bag, addressed, told>>
    BY <2>2 DEF RouteInv, TypeOK, BagInv
  <2> QED  BY <1>3, <2>1, <2>2
<1>5. FileInv'
  <2>1. CASE written' = written  BY <2>1 DEF RouteInv, FileInv
  <2>2. CASE written' = [written EXCEPT ![u] = ContextOf(u)]
    <3>1. IsContext(ContextOf(u))  BY <1>1, WritesContext DEF RouteInv
    <3> QED  BY <2>2, <3>1 DEF RouteInv, FileInv
  <2> QED  BY <1>3, <2>1, <2>2
<1>6. pending' \in [Units -> SUBSET Events]  BY <1>2 DEF RouteInv, TypeOK
<1>7. TypeOK'
  BY <1>2, <1>4, <1>6 DEF RouteInv, TypeOK, worldVars
<1> QED  BY <1>4, <1>5, <1>7 DEF RouteInv

LEMMA Step_HAProxyRuns ==
    ASSUME RouteInv, HAProxyRuns
    PROVE  RouteInv'
<1>1. UNCHANGED <<worldVars, bag, addressed, cache, written, changes>> /\ told' = FALSE
  BY DEF HAProxyRuns
<1>2. BagInv' /\ FileInv'  BY <1>1 DEF RouteInv, BagInv, FileInv
<1>3. Accepted \subseteq {OurId, OtherId}
  <2>1. \A d \in Ours : d.id = OurId  BY DEF Ours
  <2>2. \A d \in Others : d.id = OtherId
    <3>1. PICK r : r = [id |-> OtherId]  OBVIOUS
    <3>2. "id" \in DOMAIN r /\ r["id"] = OtherId  BY <3>1
    <3>3. Over(r, other)["id"] = OtherId  BY <3>2, OverAt
    <3>4. Others \subseteq {Over(r, other)}  BY <3>1 DEF Others
    <3> QED  BY <3>3, <3>4
  <2>3. Parsed \subseteq Ours \cup Others  BY DEF Parsed
  <2>4. \A i \in Accepted : \E d \in Parsed : i = d.id  BY DEF Accepted
  <2> QED  BY <2>1, <2>2, <2>3, <2>4
<1>4. /\ Load(bag).hosts \subseteq Units
      /\ Load(bag).hostname = None \/ Load(bag).hostname \in Hostnames
  <2>1. /\ "hosts" \in DOMAIN Defaults /\ Defaults["hosts"] = {}
        /\ "hostname" \in DOMAIN Defaults /\ Defaults["hostname"] = None
    BY DEF Defaults
  <2>2. Load(bag)["hosts"] = (IF "hosts" \in DOMAIN bag THEN bag["hosts"] ELSE {})
    BY <2>1, OverAt DEF Load
  <2>3. Load(bag)["hostname"] = (IF "hostname" \in DOMAIN bag THEN bag["hostname"] ELSE None)
    BY <2>1, OverAt DEF Load
  <2> QED  BY <2>2, <2>3 DEF RouteInv, BagInv
<1>5. url' \in Hostnames \cup {Empty, DefaultName}
  BY <1>4 DEF HAProxyRuns, RouteInv, TypeOK
<1>6. served' \subseteq {OurId, OtherId} /\ hosts' \subseteq Units
  BY <1>3, <1>4 DEF HAProxyRuns
<1>7. pending' \in [Units -> SUBSET Events]
  BY DEF HAProxyRuns, RouteInv, TypeOK, Events
<1>8. TypeOK'  BY <1>1, <1>5, <1>6, <1>7 DEF RouteInv, TypeOK, worldVars
<1> QED  BY <1>2, <1>8 DEF RouteInv

\* What the operator changes.
LEMMA Queued ==
    ASSUME TypeOK, NEW e \in SUBSET Events, NEW ms
    PROVE  Queue(e, ms) \in [Units -> SUBSET Events]
BY DEF Queue, TypeOK

LEMMA Counted ==
    ASSUME TypeOK, Changes
    PROVE  changes' \in 0..MaxChanges
BY BoundsAssumption DEF TypeOK, Changes

LEMMA Step_SetOption ==
    ASSUME RouteInv, SetOption
    PROVE  RouteInv'
<1>1. changes' \in 0..MaxChanges
  BY Counted DEF SetOption, RouteInv, TypeOK
<1>2. pending' \in [Units -> SUBSET Events]
  <2>1. {"config"} \in SUBSET Events  BY DEF Events
  <2> QED  BY <2>1, Queued DEF SetOption, RouteInv
<1>3. TypeOK'  BY <1>1, <1>2 DEF SetOption, RouteInv, TypeOK
<1> QED  BY <1>3 DEF SetOption, RouteInv, BagInv, FileInv

LEMMA Step_SetPassword ==
    ASSUME RouteInv, SetPassword
    PROVE  RouteInv'
<1>1. changes' \in 0..MaxChanges  BY Counted DEF SetPassword, RouteInv
<1>2. pending' \in [Units -> SUBSET Events]
  <2>1. {"config"} \in SUBSET Events  BY DEF Events
  <2> QED  BY <2>1, Queued DEF SetPassword, RouteInv
<1>3. TypeOK'  BY <1>1, <1>2 DEF SetPassword, RouteInv, TypeOK
<1> QED  BY <1>3 DEF SetPassword, RouteInv, BagInv, FileInv

LEMMA Step_Relate ==
    ASSUME RouteInv, Relate
    PROVE  RouteInv'
<1>1. changes' \in 0..MaxChanges  BY Counted DEF Relate, RouteInv
<1>2. pending' \in [Units -> SUBSET Events]
  <2>1. {"config"} \in SUBSET Events  BY DEF Events
  <2> QED  BY <2>1, Queued DEF Relate, RouteInv
<1>3. related' \subseteq Clients  BY DEF Relate, RouteInv, TypeOK
<1>4. oauth' \in BOOLEAN
  <2>1. oauth' = ~oauth \/ oauth' = oauth  BY Zenon DEF Relate
  <2>2. oauth \in BOOLEAN  BY DEF RouteInv, TypeOK
  <2> QED  BY <2>1, <2>2, Zenon
<1>5. tls' \in BOOLEAN  BY DEF Relate
<1>6. UNCHANGED <<options, members, password, route, other, bag, addressed, cache, written, told,
                  served, hosts, url>>
  BY DEF Relate
<1>7. TypeOK'  BY <1>1, <1>2, <1>3, <1>4, <1>5, <1>6 DEF RouteInv, TypeOK
<1> QED  BY <1>6, <1>7 DEF RouteInv, BagInv, FileInv

LEMMA Step_Scale ==
    ASSUME RouteInv, Scale
    PROVE  RouteInv'
<1>1. changes' \in 0..MaxChanges  BY Counted DEF Scale, RouteInv
<1>2. UNCHANGED <<options, related, oauth, tls, password, route, other, bag, cache, served,
                  hosts, url>>
  BY DEF Scale
<1>3. told \in BOOLEAN /\ route \in BOOLEAN  BY DEF RouteInv, TypeOK
<1>4. /\ members' \subseteq Units /\ Leader \in members' /\ addressed' \subseteq Units
      /\ told' \in BOOLEAN /\ pending' \in [Units -> SUBSET Events]
  <2>1. CASE \E u \in Units \ members :
                /\ members' = members \cup {u}
                /\ pending' = Queue({"config"} \cup (IF route THEN {"created", "changed"} ELSE {}),
                                    {u})
                /\ UNCHANGED <<addressed, told>>
    <3>1. {"config"} \cup (IF route THEN {"created", "changed"} ELSE {}) \in SUBSET Events
      BY DEF Events
    <3> QED  BY <2>1, <3>1, Queued DEF RouteInv, TypeOK
  <2>2. CASE \E u \in members \ {Leader} :
                /\ members' = members \ {u}
                /\ addressed' = addressed \ {u}
                /\ pending' = [pending EXCEPT ![u] = {}]
                /\ told' = (told \/ route)
    <3>1. told' \in BOOLEAN  BY <2>2, <1>3, Zenon
    <3> QED  BY <2>2, <3>1 DEF RouteInv, TypeOK
  <2> QED  BY <2>1, <2>2 DEF Scale
<1>5. TypeOK'  BY <1>1, <1>2, <1>4 DEF RouteInv, TypeOK
<1>6. FileInv'  BY DEF Scale, RouteInv, FileInv
<1> QED  BY <1>2, <1>5, <1>6 DEF RouteInv, BagInv

LEMMA Step_RouteAdded ==
    ASSUME RouteInv, RouteAdded
    PROVE  RouteInv'
<1>1. changes' \in 0..MaxChanges  BY Counted DEF RouteAdded, RouteInv
<1>2. pending' \in [Units -> SUBSET Events]
  <2>1. {"created"} \in SUBSET Events  BY DEF Events
  <2> QED  BY <2>1, Queued DEF RouteAdded, RouteInv
<1>3. TypeOK'  BY <1>1, <1>2 DEF RouteAdded, RouteInv, TypeOK
<1> QED  BY <1>3 DEF RouteAdded, RouteInv, BagInv, FileInv

LEMMA Step_RouteRemoved ==
    ASSUME RouteInv, RouteRemoved
    PROVE  RouteInv'
<1>1. changes' \in 0..MaxChanges  BY Counted DEF RouteRemoved, RouteInv
<1>2. pending' \in [Units -> SUBSET Events]
  BY DEF RouteRemoved, RouteInv, TypeOK, Events
<1>3. DOMAIN bag' = {}  BY DEF RouteRemoved
<1>4. TypeOK'  BY <1>1, <1>2, <1>3 DEF RouteRemoved, RouteInv, TypeOK
<1> QED  BY <1>3, <1>4 DEF RouteRemoved, RouteInv, BagInv, FileInv

LEMMA Step_OtherChanges ==
    ASSUME RouteInv, OtherChanges
    PROVE  RouteInv'
<1>1. changes' \in 0..MaxChanges  BY Counted DEF OtherChanges, RouteInv
<1>2. TypeOK'  BY <1>1 DEF OtherChanges, RouteInv, TypeOK
<1> QED  BY <1>2 DEF OtherChanges, RouteInv, BagInv, FileInv

LEMMA Step_RouteInv == RouteInv /\ [Next]_vars => RouteInv'
<1> SUFFICES ASSUME RouteInv, [Next]_vars PROVE RouteInv'  OBVIOUS
<1>1. ASSUME NEW u \in Units, Hook(u) PROVE RouteInv'
  <2>1. PICK e : Handle(u, e) /\ (e \in pending[u] \/ e = "config")  BY <1>1 DEF Hook
  <2>2. e \in Events  BY <2>1 DEF RouteInv, TypeOK, Events
  <2> QED  BY <2>1, <2>2, Step_Hook
<1>2. CASE UNCHANGED vars
  BY <1>2 DEF vars, worldVars, RouteInv, TypeOK, BagInv, FileInv
<1> QED  BY <1>1, <1>2, Step_HAProxyRuns, Step_SetOption, Step_SetPassword, Step_Relate,
            Step_Scale, Step_RouteAdded, Step_RouteRemoved, Step_OtherChanges DEF Next

LEMMA Inductive == Spec => []RouteInv
BY Init_RouteInv, Step_RouteInv, PTL DEF Spec

\* What HAProxy publishes to us is our host name, never one that was refused, or
\* its default; it sends users to our units only.
THEOREM TypeCorrect == Spec => []TypeOK
<1>1. RouteInv => TypeOK  BY DEF RouteInv
<1> QED  BY <1>1, Inductive, PTL

\* Every file that a unit starts from is consistent in itself, whatever mapping
\* of users to roles, relations and options it was written from: one way to sign
\* in with what it needs, no role but admin that changes what is internal to
\* Kafka, and the certificate and the truststore that it names.
THEOREM FilesStandAlone == Spec => []FileStandsAlone
<1>1. ASSUME RouteInv PROVE FileStandsAlone
  <2>1. ASSUME NEW u \in Units, written[u] # NoFile PROVE StandsAlone(File(written[u]))
    BY <1>1, <2>1, FileStands DEF RouteInv, FileInv
  <2> QED  BY <2>1, Zenon DEF FileStandsAlone, StandsAlone
<1> QED  BY <1>1, Inductive, PTL

-----------------------------------------------------------------------------
(* What is so when nothing is under way: which event is still queued for    *)
(* everything that a unit has not taken into account.                       *)

\* Hooks that end in config-changed.
ToConfig == {"config", "changed", "broken"}
SameBut(c, d) ==
    /\ c.related = d.related /\ c.tls = d.tls /\ c.oauth = d.oauth /\ c.ready = d.ready
    /\ c.mapping = d.mapping /\ c.password = d.password

\* A file that no hook is queued for says what is so, but for the route as long as
\* HAProxy has not answered.
FilesTold ==
    \A u \in members : pending[u] \cap ToConfig = {} =>
        /\ written[u] # NoFile /\ SameBut(written[u], ContextOf(u))
        /\ (route /\ url = Empty) \/ written[u] = ContextOf(u)

\* An option that is refused keeps hooks from ending.
RefusedWaits ==
    /\ ~OptionsValid => \A u \in members : "config" \in pending[u]
    /\ route /\ options.hostname = BadHostname => pending[Leader] # {}

\* The databag of the relation to HAProxy, against routes.json and the option.
RelationFresh ==
    /\ ~route => DOMAIN bag = {} /\ url = Empty
    /\ "created" \in pending[Leader] => DOMAIN bag = {} /\ url = Empty
BagTold ==
    route /\ "created" \notin pending[Leader] =>
        /\ "service" \in DOMAIN bag /\ bag["service"] = OurName
        /\ url # Empty /\ "changed" \notin pending[Leader] =>
              /\ Dump(bag, ApplicationData(cache)) = bag
              /\ "config" \notin pending[Leader] => Load(bag).hostname = options.hostname

\* HAProxy has seen what it was not told to look at.
HAProxyTold ==
    ~told =>
        /\ served = Accepted
        /\ OurId \in Accepted =>
              /\ hosts = Load(bag).hosts
              /\ url = IF Load(bag).hostname = None THEN DefaultName ELSE Load(bag).hostname

RestInv == FilesTold /\ RefusedWaits /\ RelationFresh /\ BagTold /\ HAProxyTold

-----------------------------------------------------------------------------
(* What the file of a context gives to users                                *)

LEMMA SchemeOf ==
    ASSUME NEW c, IsContext(c), c.ready
    PROVE  Scheme(File(c)) = IF c.route THEN "http" ELSE "https"
<1> DEFINE whole == ApplicationLocal(c)
           f == File(c)
<1>1. f = Clean(whole)  BY DEF File
<1>2. /\ "server.ssl.bundle" \in DOMAIN whole <=> ~(c.route \/ ~c.ready)
      /\ "server.ssl.bundle" \in DOMAIN whole => whole["server.ssl.bundle"] = "server"
  BY WholeFile
<1> HIDE DEF whole, f
<1>3. "server" \in Words  BY DEF Words
<1>4. "server.ssl.bundle" \in DOMAIN f <=> "server.ssl.bundle" \in DOMAIN whole
  BY <1>1, <1>2, <1>3, CleanedFile
<1> QED  BY <1>2, <1>4 DEF Scheme, Has, f

LEMMA RedirectKept ==
    ASSUME NEW c, IsContext(c), c.oauth, RedirectUri(c) \notin EndInNull \cup {None}
    PROVE  /\ Has(File(c), "auth.oauth2.redirect-uri")
           /\ File(c)["auth.oauth2.redirect-uri"][1] = c.url
<1> DEFINE whole == ApplicationLocal(c)
           f == File(c)
<1>1. f = Clean(whole)  BY DEF File
<1>2. /\ "auth.oauth2.redirect-uri" \in DOMAIN whole
      /\ whole["auth.oauth2.redirect-uri"] = RedirectUri(c)
  BY WholeFile
<1> HIDE DEF whole, f
<1>3. /\ "auth.oauth2.redirect-uri" \in DOMAIN f
      /\ f["auth.oauth2.redirect-uri"] = RedirectUri(c)
  BY <1>1, <1>2, CleanedFile
<1>4. RedirectUri(c)[1] = c.url  BY DEF RedirectUri
<1> QED  BY <1>3, <1>4 DEF Has, f

\* A user whose name is not dropped has the one role that the mapping gives him.
LEMMA RolesGiven ==
    ASSUME NEW c, IsContext(c), c.oauth, DOMAIN c.mapping # {}, NEW user, user \notin EndInNull
    PROVE  RolesOf(File(c), user) = {c.mapping[x] : x \in {user} \cap DOMAIN c.mapping}
<1> DEFINE subjects(r) == {u \in DOMAIN c.mapping : c.mapping[u] = r}
           named == {x \in Roles : subjects(x) # {}}
           role(r) == [permissions |-> r, subjects |-> subjects(r)]
           left(x) == [x EXCEPT !.subjects = @ \ EndInNull]
           whole == ApplicationLocal(c)
           f == File(c)
<1>1. "rbac.roles" \in DOMAIN whole /\ whole["rbac.roles"] = {role(r) : r \in named}
  <2>1. "rbac.roles" \in DOMAIN whole /\ whole["rbac.roles"] = Rbac(c)["rbac.roles"]
    BY WholeFile
  <2>2. Rbac(c) = Setting("rbac.roles", {role(r) : r \in named})  BY DEF Rbac
  <2> QED  BY <2>1, <2>2, SettingAt
<1>2. "rbac.roles" \in DOMAIN f /\ f["rbac.roles"] = {left(x) : x \in whole["rbac.roles"]}
  <2>1. f = Clean(whole)  BY DEF File
  <2> HIDE DEF whole, f
  <2> QED  BY <1>1, <2>1, CleanedFile
<1>3. RolesOf(f, user) = {x.permissions : x \in {y \in f["rbac.roles"] : user \in y.subjects}}
  BY <1>2 DEF RolesOf, Has
<1>4. \A r \in named : left(role(r)).permissions = r
                       /\ left(role(r)).subjects = subjects(r) \ EndInNull
  OBVIOUS
<1>5. f["rbac.roles"] = {left(role(r)) : r \in named}
  <2> HIDE DEF f, whole, left, role, named
  <2> QED  BY <1>1, <1>2
<1>6. RolesOf(f, user) = {r \in named : user \in subjects(r) \ EndInNull}
  <2> HIDE DEF f, whole, left, role, named, subjects
  <2>1. ASSUME NEW r \in RolesOf(f, user) PROVE r \in named /\ user \in subjects(r) \ EndInNull
    <3>1. PICK x \in f["rbac.roles"] : user \in x.subjects /\ x.permissions = r  BY <1>3
    <3>2. PICK q \in named : x = left(role(q))  BY <1>5
    <3> QED  BY <3>1, <3>2, <1>4
  <2>2. ASSUME NEW r \in named, user \in subjects(r) \ EndInNull PROVE r \in RolesOf(f, user)
    <3>1. left(role(r)) \in f["rbac.roles"] /\ user \in left(role(r)).subjects
      BY <1>4, <1>5, <2>2
    <3> QED  BY <1>3, <1>4, <3>1
  <2> QED  BY <2>1, <2>2
<1>7. \A u \in DOMAIN c.mapping : c.mapping[u] \in Roles  BY DEF IsContext, ValidMapping
<1> HIDE DEF f, whole
<1>8. {r \in named : user \in subjects(r) \ EndInNull}
          = {c.mapping[x] : x \in {user} \cap DOMAIN c.mapping}
  BY <1>7
<1> QED  BY <1>6, <1>8 DEF f

-----------------------------------------------------------------------------
(* What is published, and what HAProxy makes of it                          *)

LEMMA LoadAt ==
    ASSUME NEW b
    PROVE  /\ Load(b).hostname = IF "hostname" \in DOMAIN b THEN b["hostname"] ELSE None
           /\ Load(b).hosts = IF "hosts" \in DOMAIN b THEN b["hosts"] ELSE {}
           /\ "service" \in DOMAIN b => Load(b).service = b["service"]
<1>1. /\ "hosts" \in DOMAIN Defaults /\ Defaults["hosts"] = {}
      /\ "hostname" \in DOMAIN Defaults /\ Defaults["hostname"] = None
  BY DEF Defaults
<1> QED  BY <1>1, OverAt DEF Load

\* What is read back of a publication is what route_config said.
LEMMA ReadBack ==
    ASSUME NEW b, b = Dump(bag, ApplicationData(RouteConfig))
    PROVE  /\ "service" \in DOMAIN b /\ b["service"] = OurName
           /\ Load(b).hostname = options.hostname
<1> DEFINE paths == [paths |-> {}]
           data == ApplicationData(RouteConfig)
           S == {k \in DOMAIN data : k \in DOMAIN Defaults => data[k] # Defaults[k]}
<1>1. /\ DOMAIN RouteConfig = {"service", "hosts", "hostname"}
      /\ RouteConfig["service"] = OurName /\ RouteConfig["hostname"] = options.hostname
  BY DEF RouteConfig
<1>2. DOMAIN paths = {"paths"}  OBVIOUS
<1>3. data = Over(RouteConfig, paths)  BY DEF ApplicationData
<1>4. b = Only(data, S)  BY DEF Dump, Dumped
<1>5. /\ DOMAIN Defaults = {"hosts", "paths", "hostname"} /\ Defaults["hostname"] = None
  BY DEF Defaults
<1> HIDE DEF paths, data
<1>6. /\ DOMAIN data = {"service", "hosts", "hostname", "paths"}
      /\ data["service"] = OurName /\ data["hostname"] = options.hostname
  BY <1>1, <1>2, <1>3 DEF Over
<1>7. "service" \in S /\ ("hostname" \in S <=> options.hostname # None)  BY <1>5, <1>6
<1> HIDE DEF S
<1>8. DOMAIN b = DOMAIN data \cap S /\ \A k \in DOMAIN b : b[k] = data[k]
  BY <1>4 DEF Only
<1>9. Load(b).hostname = IF "hostname" \in DOMAIN b THEN b["hostname"] ELSE None  BY LoadAt
<1> QED  BY <1>6, <1>7, <1>8, <1>9

\* HAProxy serves nobody who has published nothing.
LEMMA NotAccepted ==
    ASSUME DOMAIN bag = {} \/ ~route
    PROVE  OurId \notin Accepted
<1>1. Ours = {}  BY DEF Ours
<1>2. \A d \in Others : d.id = OtherId
  <2>1. PICK r : r = [id |-> OtherId]  OBVIOUS
  <2>2. "id" \in DOMAIN r /\ r["id"] = OtherId  BY <2>1
  <2>3. Over(r, other)["id"] = OtherId  BY <2>2, OverAt
  <2>4. Others \subseteq {Over(r, other)}  BY <2>1 DEF Others
  <2> QED  BY <2>3, <2>4
<1>3. Parsed \subseteq Others  BY <1>1 DEF Parsed
<1>4. \A i \in Accepted : \E d \in Parsed : i = d.id  BY DEF Accepted
<1> QED  BY <1>2, <1>3, <1>4, IdsAssumption

\* It serves us unless another application has our name.
LEMMA AcceptedUnlessClash ==
    ASSUME TypeOK, route, "service" \in DOMAIN bag, bag["service"] = OurName, ~Clash
    PROVE  OurId \in Accepted
<1> DEFINE d == [id |-> OurId, valid |-> TRUE, service |-> Load(bag).service, protocol |-> "http",
                 grpc |-> 0]
<1>1. Ours = {d}  BY DEF Ours
<1>2. d.service = OurName /\ d.valid /\ d.id = OurId /\ d.grpc = 0
  <2>1. Load(bag).service = OurName  BY LoadAt
  <2> QED  BY <2>1
<1> HIDE DEF d
<1>3. d \in Parsed  BY <1>1, <1>2 DEF Parsed
<1>4. ASSUME NEW x \in Parsed \ {d} PROVE x.service # d.service
  <2>1. x \in Others /\ x.valid  BY <1>1, <1>4 DEF Parsed
  <2>2. PICK r : r = [id |-> OtherId]  OBVIOUS
  <2>3. other # None /\ x = Over(r, other)  BY <2>1, <2>2 DEF Others
  <2>4. other \in Services  BY <2>3, OtherAssumption DEF TypeOK
  <2>5. {"valid", "service"} \subseteq DOMAIN other  BY <2>4 DEF Services
  <2>6. DOMAIN r = {"id"}  BY <2>2
  <2>7. x["valid"] = other["valid"] /\ x["service"] = other["service"]
    BY <2>3, <2>5, <2>6, OverAt
  <2>8. other.service # OurName  BY <2>1, <2>3, <2>7 DEF Clash
  <2> QED  BY <2>7, <2>8, <1>2
<1>5. ~Refused(d)  BY <1>2, <1>4 DEF Refused
<1>6. d.id \in Accepted  BY <1>3, <1>5 DEF Accepted
<1> QED  BY <1>2, <1>6

LEMMA AcceptedSame ==
    ASSUME UNCHANGED <<bag, route, other>>
    PROVE  Accepted' = Accepted
<1>1. Ours' = Ours /\ Others' = Others  BY DEF Ours, Others, Load
<1>2. Parsed' = Parsed  BY <1>1 DEF Parsed
<1> QED  BY <1>2 DEF Accepted, Refused

-----------------------------------------------------------------------------
(* Each step keeps RestInv                                                  *)

LEMMA QueuedAll ==
    ASSUME RouteInv, UNCHANGED members, pending' = Queue({"config"}, members)
    PROVE  \A u \in members' : "config" \in pending'[u]
BY DEF Queue, RouteInv, TypeOK

\* Nothing becomes stale by itself.
LEMMA FilesStay ==
    ASSUME FilesTold, UNCHANGED <<options, related, oauth, tls, password, route, url, written>>,
           \A u \in members' : u \in members /\ (pending'[u] \cap ToConfig = {} =>
                                                 pending[u] \cap ToConfig = {})
    PROVE  FilesTold'
<1>1. \A u : ContextOf(u)' = ContextOf(u)  BY DEF ContextOf
<1> QED  BY <1>1 DEF FilesTold, SameBut

LEMMA BagStays ==
    ASSUME BagTold, UNCHANGED <<options, route, url, bag, cache>>, pending'[Leader] = pending[Leader]
    PROVE  BagTold'
BY DEF BagTold, Dump, Dumped, ApplicationData, Load

LEMMA HAProxyStays ==
    ASSUME HAProxyTold, UNCHANGED <<bag, route, other, served, hosts, url>>, ~told' => ~told
    PROVE  HAProxyTold'
<1>1. Accepted' = Accepted  BY AcceptedSame
<1>2. Load(bag)' = Load(bag)  BY DEF Load
<1> QED  BY <1>1, <1>2 DEF HAProxyTold

\* What the operator changes waits for a hook of every unit.
LEMMA OptionsRest ==
    ASSUME RouteInv, RestInv, SetOption \/ SetPassword \/ Relate
    PROVE  RestInv'
<1>1. /\ UNCHANGED <<members, route, other, bag, addressed, cache, written, told, served, hosts, url>>
      /\ pending' = Queue({"config"}, members)
  BY DEF SetOption, SetPassword, Relate
<1>2. \A u \in members' : "config" \in pending'[u]  BY <1>1, QueuedAll
<1>3. Leader \in members' /\ Leader \in Units  BY <1>1, UnitsAssumption DEF RouteInv, TypeOK
<1>4. FilesTold'  BY <1>2 DEF FilesTold, ToConfig
<1>5. RefusedWaits'  BY <1>2, <1>3 DEF RefusedWaits
<1>6. pending'[Leader] = pending[Leader] \cup {"config"}
  BY <1>1, <1>3 DEF Queue
<1>7. RelationFresh'  BY <1>1, <1>6 DEF RelationFresh, RestInv
<1>8. BagTold'
  BY <1>1, <1>6 DEF BagTold, RestInv, Dump, Dumped, ApplicationData
<1>9. HAProxyTold'  BY <1>1, HAProxyStays DEF RestInv
<1> QED  BY <1>4, <1>5, <1>7, <1>8, <1>9 DEF RestInv

LEMMA ScaleRest ==
    ASSUME RouteInv, RestInv, Scale
    PROVE  RestInv'
<1>1. /\ UNCHANGED <<options, related, oauth, tls, password, route, other, bag, cache, served,
                     hosts, url>>
      /\ written' = [u \in Units |-> IF u \in members' THEN written[u] ELSE NoFile]
  BY DEF Scale
<1>2. /\ Leader \in members /\ members \subseteq Units /\ pending \in [Units -> SUBSET Events]
      /\ told \in BOOLEAN /\ route \in BOOLEAN
  BY DEF RouteInv, TypeOK
<1>3. /\ \A u \in members' : \/ u \in members /\ pending'[u] = pending[u]
                             \/ u \in Units /\ "config" \in pending'[u]
      /\ pending'[Leader] = pending[Leader]
      /\ ~told' => ~told
  <2>1. CASE \E u \in Units \ members :
                /\ members' = members \cup {u}
                /\ pending' = Queue({"config"} \cup (IF route THEN {"created", "changed"} ELSE {}),
                                    {u})
                /\ UNCHANGED <<addressed, told>>
    BY <2>1, <1>2 DEF Queue
  <2>2. CASE \E u \in members \ {Leader} :
                /\ members' = members \ {u}
                /\ addressed' = addressed \ {u}
                /\ pending' = [pending EXCEPT ![u] = {}]
                /\ told' = (told \/ route)
    BY <2>2, <1>2
  <2> QED  BY <2>1, <2>2 DEF Scale
<1>4. \A u : ContextOf(u)' = ContextOf(u)  BY <1>1 DEF ContextOf
<1>5. FilesTold'
  <2> SUFFICES ASSUME NEW u \in members', pending'[u] \cap ToConfig = {}
               PROVE  /\ written'[u] # NoFile /\ SameBut(written[u]', ContextOf(u)')
                      /\ (route' /\ url' = Empty) \/ written'[u] = ContextOf(u)'
    BY DEF FilesTold, SameBut
  <2>1. u \in members /\ pending'[u] = pending[u]  BY <1>3 DEF ToConfig
  <2>2. written'[u] = written[u]  BY <2>1, <1>1, <1>2
  <2> QED  BY <2>1, <2>2, <1>1, <1>4 DEF FilesTold, RestInv, SameBut
<1>6. RefusedWaits'
  BY <1>1, <1>3 DEF RefusedWaits, RestInv, OptionsValid
<1>7. RelationFresh'  BY <1>1, <1>3 DEF RelationFresh, RestInv
<1>8. BagTold'  BY <1>1, <1>3, BagStays DEF RestInv
<1>9. HAProxyTold'  BY <1>1, <1>3, HAProxyStays DEF RestInv
<1> QED  BY <1>5, <1>6, <1>7, <1>8, <1>9 DEF RestInv

LEMMA RouteAddedRests ==
    ASSUME RouteInv, RestInv, RouteAdded
    PROVE  RestInv'
<1>1. /\ ~route /\ route' = TRUE /\ pending' = Queue({"created"}, members)
      /\ UNCHANGED <<options, members, related, oauth, tls, password, other, bag, addressed, cache,
                     written, told, served, hosts, url>>
  BY DEF RouteAdded
<1>2. Leader \in members /\ members \subseteq Units  BY DEF RouteInv, TypeOK
<1>3. \A u \in members : pending'[u] = pending[u] \cup {"created"}
  BY <1>1, <1>2 DEF Queue
<1>4. DOMAIN bag = {} /\ url = Empty  BY <1>1 DEF RestInv, RelationFresh
<1>5. FilesTold'
  <2> SUFFICES ASSUME NEW u \in members, pending'[u] \cap ToConfig = {}
               PROVE  written[u] # NoFile /\ SameBut(written[u], ContextOf(u)')
    BY <1>1, <1>4 DEF FilesTold, SameBut
  <2>1. pending[u] \cap ToConfig = {}  BY <1>3
  <2>2. written[u] # NoFile /\ SameBut(written[u], ContextOf(u))
    BY <2>1 DEF RestInv, FilesTold
  <2> QED  BY <2>2, <1>1 DEF SameBut, ContextOf
<1>6. RefusedWaits'  BY <1>1, <1>2, <1>3 DEF RefusedWaits, RestInv, OptionsValid
<1>7. RelationFresh'  BY <1>1, <1>4 DEF RelationFresh
<1>8. BagTold'  BY <1>2, <1>3 DEF BagTold
<1>9. HAProxyTold'
  <2>1. Ours = {} /\ Ours' = {}  BY <1>1, <1>4 DEF Ours
  <2>2. Others' = Others  BY <1>1 DEF Others
  <2>3. Parsed' = Parsed  BY <2>1, <2>2 DEF Parsed
  <2>4. Accepted' = Accepted  BY <2>3 DEF Accepted, Refused
  <2>5. OurId \notin Accepted  BY <1>4, NotAccepted
  <2> QED  BY <1>1, <2>4, <2>5 DEF HAProxyTold, RestInv
<1> QED  BY <1>5, <1>6, <1>7, <1>8, <1>9 DEF RestInv

LEMMA RouteRemovedRests ==
    ASSUME RouteInv, RestInv, RouteRemoved
    PROVE  RestInv'
<1>1. /\ route' = FALSE /\ bag' = <<>> /\ url' = Empty /\ told' = TRUE /\ UNCHANGED <<options, members>>
      /\ pending' = [u \in Units |-> IF u \in members
                                    THEN (pending[u] \ {"created", "changed"}) \cup {"broken"}
                                    ELSE {}]
  BY DEF RouteRemoved
<1>2. members \subseteq Units  BY DEF RouteInv, TypeOK
<1>3. FilesTold'  BY <1>1, <1>2 DEF FilesTold, ToConfig
<1>4. RefusedWaits'  BY <1>1, <1>2 DEF RefusedWaits, RestInv, OptionsValid
<1>5. DOMAIN bag' = {}  BY <1>1
<1>6. RelationFresh'  BY <1>1, <1>5 DEF RelationFresh
<1>7. BagTold'  BY <1>1 DEF BagTold
<1>8. HAProxyTold'  BY <1>1 DEF HAProxyTold
<1> QED  BY <1>3, <1>4, <1>6, <1>7, <1>8 DEF RestInv

LEMMA OtherRests ==
    ASSUME RouteInv, RestInv, OtherChanges
    PROVE  RestInv'
<1>1. /\ told' = TRUE
      /\ UNCHANGED <<options, members, related, oauth, tls, password, route, pending, bag,
                     addressed, cache, written, served, hosts, url>>
  BY DEF OtherChanges
<1>2. FilesTold'  BY <1>1, FilesStay DEF RestInv
<1>3. RefusedWaits' /\ RelationFresh'
  BY <1>1 DEF RestInv, RefusedWaits, RelationFresh, OptionsValid
<1>4. BagTold'  BY <1>1, BagStays DEF RestInv
<1>5. HAProxyTold'  BY <1>1 DEF HAProxyTold
<1> QED  BY <1>2, <1>3, <1>4, <1>5 DEF RestInv

\* A URL that HAProxy changes is an event for every unit.
LEMMA HAProxyRests ==
    ASSUME RouteInv, RestInv, HAProxyRuns
    PROVE  RestInv'
<1>1. /\ UNCHANGED <<worldVars, bag, addressed, cache, written, changes>>
      /\ served' = Accepted
      /\ hosts' = IF OurId \in Accepted THEN Load(bag).hosts ELSE {}
      /\ url' = IF OurId \notin Accepted THEN url
                ELSE IF Load(bag).hostname = None THEN DefaultName ELSE Load(bag).hostname
      /\ pending' = [x \in Units |->
             IF url' # url /\ x \in members THEN pending[x] \cup {"changed"} ELSE pending[x]]
  BY DEF HAProxyRuns
<1>2. UNCHANGED <<options, members, related, oauth, tls, password, route, other>>
  BY <1>1 DEF worldVars
<1>3. /\ members \subseteq Units /\ Leader \in members /\ pending \in [Units -> SUBSET Events]
  BY DEF RouteInv, TypeOK
<1>4. \A u \in members : pending'[u] = IF url' # url THEN pending[u] \cup {"changed"} ELSE pending[u]
  BY <1>1, <1>3
<1>5. FilesTold'
  <2>1. CASE url' # url  BY <2>1, <1>2, <1>4 DEF FilesTold, ToConfig
  <2>2. CASE url' = url  BY <2>2, <1>1, <1>2, <1>4, FilesStay DEF RestInv
  <2> QED  BY <2>1, <2>2
<1>6. RefusedWaits'
  <2>1. \A u \in members : pending[u] \subseteq pending'[u]  BY <1>4
  <2> QED  BY <1>2, <1>3, <2>1 DEF RefusedWaits, RestInv, OptionsValid
<1>7. RelationFresh'
  <2>1. DOMAIN bag = {} \/ ~route => url' = url  BY <1>1, NotAccepted
  <2>3. pending'[Leader] = pending[Leader] \cup {"changed"} \/ pending'[Leader] = pending[Leader]
    BY <1>3, <1>4
  <2>2. "created" \in pending'[Leader] => "created" \in pending[Leader]  BY <2>3
  <2> QED  BY <1>1, <1>2, <2>1, <2>2 DEF RelationFresh, RestInv
<1>8. BagTold'
  <2>1. CASE url' # url
    <3>1. "changed" \in pending'[Leader]
          /\ ("created" \notin pending'[Leader] => "created" \notin pending[Leader])
      BY <2>1, <1>3, <1>4
    <3> QED  BY <3>1, <1>1, <1>2 DEF BagTold, RestInv
  <2>2. CASE url' = url  BY <2>2, <1>1, <1>2, <1>3, <1>4, BagStays DEF RestInv
  <2> QED  BY <2>1, <2>2
<1>9. HAProxyTold'
  <2>1. Accepted' = Accepted /\ Load(bag)' = Load(bag)  BY <1>1, <1>2, AcceptedSame DEF Load
  <2> QED  BY <1>1, <2>1 DEF HAProxyTold
<1> QED  BY <1>5, <1>6, <1>7, <1>8, <1>9 DEF RestInv

\* A hook of ours; relation-created comes before the others.
LEMMA HookRests ==
    ASSUME RouteInv, RestInv, NEW u \in Units, NEW e \in Events, Handle(u, e),
           e \in pending[u] \/ e = "config", "created" \in pending[u] => e = "created"
    PROVE  RestInv'
<1>1. /\ u \in members /\ OptionsValid /\ CanPublish(u)
      /\ UNCHANGED <<options, members, related, oauth, tls, password, route, other>>
      /\ UNCHANGED <<served, hosts, url>>
      /\ pending' = [pending EXCEPT ![u] = @ \ {e}]
  BY DEF Handle, worldVars
<1>2. /\ e = "created" => RelationCreated(u)
      /\ e = "changed" => RelationChanged(u)
      /\ e \in {"config", "broken"} => ConfigChanged(u)
  BY DEF Handle
<1>3. /\ members \subseteq Units /\ Leader \in members /\ pending \in [Units -> SUBSET Events]
      /\ route \in BOOLEAN
  BY DEF RouteInv, TypeOK
<1>4. /\ \A x \in Units : x # u => pending'[x] = pending[x]
      /\ pending'[u] = pending[u] \ {e}
      /\ Leader \in Units
  BY <1>1, <1>3
<1>5. \A x : ContextOf(x)' = ContextOf(x)  BY <1>1 DEF ContextOf
<1>6. written' = IF e = "created" THEN written ELSE [written EXCEPT ![u] = ContextOf(u)]
  BY <1>2 DEF RelationCreated, RelationChanged, ConfigChanged, Events
<1>7. RouteConfig' = RouteConfig  BY <1>1 DEF RouteConfig
<1>8. FilesTold'
  <2> SUFFICES ASSUME NEW x \in members, pending'[x] \cap ToConfig = {}
               PROVE  /\ written'[x] # NoFile /\ SameBut(written'[x], ContextOf(x))
                      /\ (route /\ url = Empty) \/ written'[x] = ContextOf(x)
    BY <1>1, <1>5 DEF FilesTold, SameBut
  <2>1. CASE x # u \/ e = "created"
    <3>1. written'[x] = written[x]  BY <2>1, <1>6
    <3>2. pending[x] \cap ToConfig = {}  BY <2>1, <1>3, <1>4 DEF ToConfig
    <3> QED  BY <3>1, <3>2 DEF FilesTold, RestInv
  <2>2. CASE x = u /\ e # "created"
    <3>1. u \in DOMAIN written  BY DEF RouteInv, FileInv
    <3>2. written'[x] = ContextOf(u)  BY <2>2, <3>1, <1>6
    <3>3. "related" \in DOMAIN ContextOf(u)  BY DEF ContextOf
    <3>4. ContextOf(u) # NoFile  BY <3>3 DEF NoFile
    <3> QED  BY <2>2, <3>2, <3>4 DEF SameBut
  <2> QED  BY <2>1, <2>2
<1>9. RefusedWaits'
  <2>1. OptionsValid'  BY <1>1 DEF OptionsValid
  <2>2. ASSUME route, options.hostname = BadHostname PROVE pending'[Leader] # {}
    <3>1. ApplicationData(RouteConfig).hostname = options.hostname
      <4>1. "hostname" \in DOMAIN RouteConfig /\ RouteConfig["hostname"] = options.hostname
        BY DEF RouteConfig
      <4> QED  BY <4>1, OverAt DEF ApplicationData
    <3>2. u # Leader  BY <3>1, <2>2, <1>1 DEF CanPublish, Acceptable
    <3> QED  BY <3>2, <2>2, <1>4 DEF RefusedWaits, RestInv
  <2> QED  BY <2>1, <2>2, <1>1 DEF RefusedWaits
<1>10. u # Leader \/ ~route => bag' = bag
  BY <1>2 DEF RelationCreated, RelationChanged, ConfigChanged, ReconcileRoutes, UpdateRelationData,
              Events
<1>11. RelationFresh'
  <2>1. ASSUME "created" \in pending'[Leader] PROVE bag' = bag /\ "created" \in pending[Leader]
    BY <2>1, <1>4, <1>10
  <2> QED  BY <2>1, <1>1, <1>10 DEF RelationFresh, RestInv
<1>12. BagTold'
  <2> SUFFICES ASSUME route, "created" \notin pending'[Leader]
               PROVE  BagTold'
    BY <1>1 DEF BagTold
  <2>1. CASE u # Leader
    <3>1. cache' = cache
      BY <2>1, <1>2 DEF RelationCreated, RelationChanged, ConfigChanged, ReconcileRoutes, Events
    <3> QED  BY <2>1, <3>1, <1>1, <1>4, <1>10, BagStays DEF RestInv
  <2>2. CASE u = Leader /\ e = "created"
    <3>1. bag' = Dump(bag, ApplicationData(RouteConfig))
      BY <2>2, <1>2 DEF RelationCreated, UpdateRelationData
    <3>2. url' = Empty  BY <2>2, <1>1 DEF RelationFresh, RestInv
    <3>3. "service" \in DOMAIN bag' /\ bag'["service"] = OurName  BY <3>1, ReadBack
    <3> QED  BY <3>2, <3>3 DEF BagTold
  <2>3. CASE u = Leader /\ e # "created"
    <3>1. "created" \notin pending[Leader]  BY <2>3
    <3>2. CASE \/ e = "changed"
               \/ e # "changed" /\ cache # RouteConfig
      <4>1. bag' = Dump(bag, ApplicationData(RouteConfig)) /\ cache' = RouteConfig
        BY <2>3, <3>2, <1>2
           DEF RelationChanged, ConfigChanged, ReconcileRoutes, UpdateRelationData, Events
      <4>2. /\ "service" \in DOMAIN bag' /\ bag'["service"] = OurName
            /\ Load(bag').hostname = options.hostname
        BY <4>1, ReadBack
      <4>3. Load(bag)' = Load(bag') /\ options' = options  BY <1>1 DEF Load
      <4>4. Dump(bag, ApplicationData(cache))' = bag'
        BY <4>1, <1>7 DEF Dump, Dumped, ApplicationData
      <4> QED  BY <4>2, <4>3, <4>4 DEF BagTold
    <3>3. CASE e # "changed" /\ cache = RouteConfig
      <4>1. bag' = bag /\ cache' = cache
        BY <2>3, <3>3, <1>2 DEF ConfigChanged, ReconcileRoutes, Events
      <4>2. "service" \in DOMAIN bag /\ bag["service"] = OurName
        BY <3>1 DEF BagTold, RestInv
      <4>3. ASSUME url # Empty, "changed" \notin pending'[Leader]
            PROVE  /\ Dump(bag, ApplicationData(cache)) = bag
                   /\ Load(bag).hostname = options.hostname
        <5>1. "changed" \notin pending[Leader]  BY <4>3, <2>3, <3>3, <1>4
        <5>2. Dump(bag, ApplicationData(cache)) = bag
          BY <5>1, <4>3, <3>1 DEF BagTold, RestInv
        <5> QED  BY <5>2, <3>3, ReadBack
      <4>4. Load(bag)' = Load(bag) /\ Dump(bag, ApplicationData(cache))' = Dump(bag, ApplicationData(cache))
        BY <4>1 DEF Load, Dump, Dumped, ApplicationData
      <4> QED  BY <1>1, <4>1, <4>2, <4>3, <4>4 DEF BagTold
    <3> QED  BY <3>2, <3>3
  <2> QED  BY <2>1, <2>2, <2>3
<1>13. HAProxyTold'
  <2>1. ~told' => ~told /\ bag' = bag
    <3>1. CASE UpdateRelationData(u)
      <4>1. told' = (told \/ bag' # bag \/ addressed' # addressed)
        BY <3>1, Zenon DEF UpdateRelationData
      <4> QED  BY <4>1, Zenon
    <3>2. CASE UNCHANGED <<bag, addressed, told>>  BY <3>2
    <3> QED
      BY <3>1, <3>2, <1>2, Zenon
         DEF RelationCreated, RelationChanged, ConfigChanged, ReconcileRoutes, Events
  <2>2. CASE told'  BY <2>2 DEF HAProxyTold
  <2>3. CASE ~told'  BY <2>1, <2>3, <1>1, HAProxyStays DEF RestInv
  <2> QED  BY <2>2, <2>3
<1> QED  BY <1>8, <1>9, <1>11, <1>12, <1>13 DEF RestInv

LEMMA InitRests ==
    ASSUME Init
    PROVE  RestInv
<1>1. /\ options \in Options /\ ValidMapping(options.mapping) /\ options.hostname = None
      /\ members = {Leader} /\ route = FALSE /\ url = Empty /\ bag = <<>> /\ told = FALSE
      /\ pending = [u \in Units |-> IF u = Leader THEN {"config"} ELSE {}]
      /\ other = None /\ served = {}
  BY DEF Init
<1>2. FilesTold  BY <1>1, UnitsAssumption DEF FilesTold, ToConfig
<1>3. RefusedWaits  BY <1>1 DEF RefusedWaits, OptionsValid
<1>4. DOMAIN bag = {}  BY <1>1
<1>5. RelationFresh  BY <1>1, <1>4, UnitsAssumption DEF RelationFresh
<1>6. BagTold  BY <1>1 DEF BagTold
<1>7. HAProxyTold
  <2>1. Ours = {} /\ Others = {}  BY <1>1, <1>4 DEF Ours, Others
  <2>2. Parsed = {}  BY <2>1 DEF Parsed
  <2>3. Accepted = {}  BY <2>2 DEF Accepted
  <2> QED  BY <1>1, <2>3 DEF HAProxyTold
<1> QED  BY <1>2, <1>3, <1>5, <1>6, <1>7 DEF RestInv

LEMMA StepRests == RouteInv /\ RestInv /\ [Next]_vars => RestInv'
<1> SUFFICES ASSUME RouteInv, RestInv, [Next]_vars PROVE RestInv'  OBVIOUS
<1>1. ASSUME NEW u \in Units, Hook(u) PROVE RestInv'
  <2>1. PICK e : /\ Handle(u, e) /\ (e \in pending[u] \/ e = "config")
                 /\ "created" \in pending[u] => e = "created"
    BY <1>1 DEF Hook
  <2>2. e \in Events  BY <2>1 DEF RouteInv, TypeOK, Events
  <2> QED  BY <2>1, <2>2, HookRests
<1>2. CASE UNCHANGED vars
  <2>1. UNCHANGED <<options, members, related, oauth, tls, password, route, other, pending, bag,
                    cache, written, told, served, hosts, url>>
    BY <1>2 DEF vars, worldVars
  <2>2. FilesTold'  BY <2>1, FilesStay DEF RestInv
  <2>3. RefusedWaits' /\ RelationFresh'
    BY <2>1 DEF RestInv, RefusedWaits, RelationFresh, OptionsValid
  <2>4. BagTold'  BY <2>1, BagStays DEF RestInv
  <2>5. HAProxyTold'  BY <2>1, HAProxyStays DEF RestInv
  <2> QED  BY <2>2, <2>3, <2>4, <2>5 DEF RestInv
<1> QED  BY <1>1, <1>2, HAProxyRests, OptionsRest, ScaleRest, RouteAddedRests, RouteRemovedRests,
            OtherRests DEF Next

\* Once the hooks that are due have run, users are served as configured.
LEMMA RestServes ==
    ASSUME RouteInv, RestInv
    PROVE  RestIsAsConfigured
<1> SUFFICES ASSUME AtRest, route => Load(bag).hosts = members
             PROVE  AsConfigured
  BY DEF RestIsAsConfigured
<1>1. /\ ~told /\ \A u \in members : pending[u] = {} /\ pending[u] \cap ToConfig = {}
      /\ Leader \in members /\ members \subseteq Units
  BY DEF AtRest, RouteInv, TypeOK
<1>2. ASSUME NEW u \in members
      PROVE  /\ written[u] # NoFile /\ IsContext(written[u]) /\ SameBut(written[u], ContextOf(u))
             /\ (route /\ url = Empty) \/ written[u] = ContextOf(u)
  BY <1>1 DEF RestInv, FilesTold, RouteInv, FileInv
<1>3. ASSUME NEW u \in members
      PROVE  /\ written[u].oauth = oauth /\ written[u].mapping = options.mapping
             /\ written[u].ready
             /\ written[u] = ContextOf(u) => written[u].route = route
                                            /\ (route => written[u].url = url)
  <2>1. /\ ContextOf(u).oauth = oauth /\ ContextOf(u).mapping = options.mapping
        /\ ContextOf(u).ready = TRUE /\ ContextOf(u).route = route
        /\ route => ContextOf(u).url = url
    BY DEF ContextOf
  <2>2. /\ written[u].oauth = ContextOf(u).oauth /\ written[u].mapping = ContextOf(u).mapping
        /\ written[u].ready = ContextOf(u).ready
    BY <1>2 DEF SameBut
  <2>3. written[u].ready  BY <2>1, <2>2, Zenon
  <2>4. written[u].oauth = oauth /\ written[u].mapping = options.mapping
    BY <2>1, <2>2, Zenon
  <2> QED  BY <2>1, <2>3, <2>4, Zenon
<1>4. ASSUME route, ~Clash PROVE Served
  <2>1. /\ "service" \in DOMAIN bag /\ bag["service"] = OurName
        /\ url # Empty => Load(bag).hostname = options.hostname
    BY <1>1, <1>4 DEF RestInv, BagTold
  <2>2. OurId \in Accepted  BY <1>4, <2>1, AcceptedUnlessClash DEF RouteInv
  <2> DEFINE name == IF options.hostname = None THEN DefaultName ELSE options.hostname
  <2>3. /\ served = Accepted /\ hosts = members
        /\ url = IF Load(bag).hostname = None THEN DefaultName ELSE Load(bag).hostname
    BY <1>1, <1>4, <2>2 DEF RestInv, HAProxyTold
  <2>4. Load(bag).hostname = None \/ Load(bag).hostname \in Hostnames
    BY LoadAt DEF RouteInv, BagInv
  <2>5. url \in Hostnames \cup {DefaultName} /\ url # Empty  BY <2>3, <2>4, NamesAssumption
  <2>6. url = name  BY <2>1, <2>3, <2>5
  <2>7. ASSUME NEW u \in members
        PROVE  /\ Scheme(File(written[u])) = "http"
               /\ oauth => Has(File(written[u]), "auth.oauth2.redirect-uri")
                        /\ File(written[u])["auth.oauth2.redirect-uri"][1] = name
    <3>1. written[u] = ContextOf(u)  BY <1>2, <2>5
    <3>2. written[u].route /\ written[u].url = url  BY <3>1, <1>3, <1>4
    <3>3. RedirectUri(written[u]) \notin EndInNull \cup {None}
      BY <3>2, <2>5, NamesAssumption DEF RedirectUri
    <3> QED  BY <1>2, <1>3, <3>2, <3>3, <2>6, SchemeOf, RedirectKept
  <2> QED  BY <1>2, <2>2, <2>3, <2>6, <2>7 DEF Served
<1>5. ASSUME NEW u \in members, ~route PROVE Scheme(File(written[u])) = "https"
  <2>1. written[u] = ContextOf(u)  BY <1>2, <1>5
  <2>2. ~written[u].route  BY <1>3, <1>5, <2>1
  <2> QED  BY <1>2, <1>3, <2>2, SchemeOf
<1>6. ASSUME NEW u \in members, oauth, DOMAIN options.mapping # {},
             NEW m \in Mappings \ {None}, NEW user \in DOMAIN m \ EndInNull
      PROVE  RolesOf(File(written[u]), user) = {options.mapping[x] :
                                                 x \in {user} \cap DOMAIN options.mapping}
  <2> DEFINE c == written[u]
  <2>1. IsContext(c)  BY <1>2
  <2>2. c.oauth = oauth /\ c.mapping = options.mapping  BY <1>3
  <2> HIDE DEF c
  <2>3. c.oauth /\ DOMAIN c.mapping # {}  BY <2>2, <1>6, Zenon
  <2>4. RolesOf(File(c), user) = {c.mapping[x] : x \in {user} \cap DOMAIN c.mapping}
    BY <2>1, <2>3, RolesGiven
  <2> QED  BY <2>2, <2>4, Zenon DEF c
<1> QED  BY <1>2, <1>4, <1>5, <1>6 DEF AsConfigured

\* Once the hooks that are due have run, users reach the application as the options
\* and relations say, whatever was refused, came and went before.
THEOREM RestServed == Spec => []RestIsAsConfigured
<1>1. RouteInv /\ RestInv => RestIsAsConfigured  BY RestServes
<1>2. Init => RestInv  BY InitRests
<1> QED  BY <1>1, <1>2, StepRests, Inductive, PTL DEF Spec

=============================================================================
