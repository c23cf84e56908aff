------------------------- MODULE ClientDataProofs -------------------------
(***************************************************************************)
(* Credentials of a client relation (ClientData): they are in no databag,  *)
(* they are asked for once, a unit never mixes those of two publications,  *)
(* and between hooks it says what is published, for any number of units,   *)
(* publications, moves of the lead and hooks that die.                     *)
(***************************************************************************)
EXTENDS ClientData, TLAPS

HookFields == {"pc", "event", "related", "leads", "bag", "cache", "todo", "got"}

\* The shapes that EXCEPT needs.
Shape ==
    /\ DOMAIN bag = {"ui", "kafka"} /\ DOMAIN secret = Groups
    /\ kind \in Kinds /\ related \in BOOLEAN /\ DOMAIN hook = Units /\ DOMAIN conf = Units
    /\ \A u \in Units : /\ DOMAIN hook[u] = HookFields
                        /\ DOMAIN hook[u].cache = Groups

\* The request and the list of secret fields are made together.
RequestInv ==
    /\ DOMAIN bag["ui"] \subseteq UiFields
    /\ Resource[kind] \in DOMAIN bag["ui"] => "requested-secrets" \in DOMAIN bag["ui"]

\* Nothing before the request, one request to the provider's charm after it.
AskedInv ==
    /\ asked \in {0, 1} /\ seen \subseteq DOMAIN bag["ui"]
    /\ related /\ asked = 1 => Resource[kind] \in seen

\* A user's secret is empty or has both fields of one publication.
Pair(s) == s = <<>> \/ ({"username", "password"} \subseteq DOMAIN s /\ s["username"] = s["password"])
SecretInv ==
    /\ Pair(secret["user"])
    /\ "secret-user" \in DOMAIN bag["kafka"] => secret["user"] # <<>>

\* What a hook reads of the user's secret.
ReadOf(h, f) == IF h.cache["user"] = <<>> THEN Absent ELSE h.cache["user"][f]
\* How far a hook of a unit has come, and what it has got.
ReadsInv(h) ==
    /\ h.todo \in {<<"tls", "username", "password", "ca">>, <<"username", "password", "ca">>,
                   <<"password", "ca">>, <<"ca">>, <<>>}
    /\ Len(h.todo) = 2 =>
          /\ "username" \in DOMAIN h.got /\ h.got["username"] = ReadOf(h, "username")
          /\ h.cache["user"] = <<>> => "secret-user" \notin DOMAIN h.bag["kafka"]
    /\ Len(h.todo) < 2 => /\ {"username", "password"} \subseteq DOMAIN h.got
                          /\ h.got["username"] = h.got["password"]
HookInv(h) ==
    /\ h.related => /\ DOMAIN h.bag["kafka"] \cap SecretFields = {}
                    /\ DOMAIN h.bag["ui"] \subseteq UiFields
                    /\ Pair(h.cache["user"])
                    /\ "secret-user" \in DOMAIN h.bag["kafka"] => secret["user"] # <<>>
                    /\ kind = "kafka" => ReadsInv(h)
    /\ ~h.related => DOMAIN h.got \cap SecretFields = {}

ClientInv ==
    /\ Shape /\ RequestInv /\ AskedInv /\ SecretInv /\ CredentialsStaySecret /\ PairsAreWhole
    /\ ~related => DOMAIN bag["kafka"] = {}
    /\ \A u \in Units : hook[u].pc = "run" => HookInv(hook[u])

-----------------------------------------------------------------------------
(* Functions without fields, and the fields of a few records *)

LEMMA NoFields == ASSUME NEW f, f = [x \in DOMAIN f |-> f[x]], DOMAIN f = {} PROVE f = <<>>
  <1>1. <<>> = [x \in {} |-> f[x]]
    OBVIOUS
  <1> QED  BY <1>1

LEMMA Constants ==
    /\ Groups = {"user", "tls"} /\ SecretFields = {"username", "password", "tls", "ca"}
    /\ Group["username"] = "user" /\ Group["password"] = "user"
    /\ Group["tls"] = "tls" /\ Group["ca"] = "tls"
    /\ Uri["user"] = "secret-user" /\ Uri["tls"] = "secret-tls" /\ DOMAIN Uri = Groups
  BY DEF Groups, SecretFields, Group, Uri

LEMMA RequestFields ==
  ASSUME kind \in Kinds
  PROVE  /\ Resource[kind] \in UiFields /\ Resource[kind] \in {"topic", "plugin-url", "subject"}
         /\ UiFields \cap (SecretFields \cup {"endpoints"}) = {}
  BY KindsAssumption DEF UiFields, Marks, Resource, SecretFields, Group

-----------------------------------------------------------------------------
(* The provider publishes *)

LEMMA PublishedFields ==
  ASSUME Shape, RequestInv, CredentialsStaySecret,
         NEW data, DOMAIN data \subseteq SecretFields \cup {"endpoints"}, ~Premature(data),
         NEW v, v = [bag |-> bag, secret |-> secret]
  PROVE  AsSecrets(Provider, v, Provider.local, DOMAIN data) = DOMAIN data \cap SecretFields
  <1>1. Provider.leader /\ v.bag[Provider.component] = bag["kafka"]
    BY DEF Provider
  <1>2. Provider.local \in {{}, SecretFields}
    BY DEF Provider
  <1>3. ~FallsBack(Provider, v, Provider.local)
    BY <1>1, <1>2 DEF FallsBack, CredentialsStaySecret
  <1>4. CASE DOMAIN data \subseteq {"endpoints"}
    <2>1. DOMAIN data \cap SecretFields = {}
      BY <1>4, Constants
    <2> QED  BY <1>2, <1>3, <2>1 DEF AsSecrets
  <1>5. CASE ~(DOMAIN data \subseteq {"endpoints"})
    <2>1. Provider.local = SecretFields
      BY <1>5 DEF Premature, RequestInv, Provider
    <2> QED  BY <2>1, <1>3 DEF AsSecrets
  <1> QED  BY <1>4, <1>5

LEMMA Publication ==
  ASSUME Shape, RequestInv, CredentialsStaySecret, SecretInv,
         NEW data, DOMAIN data \subseteq SecretFields \cup {"endpoints"}, ~Premature(data),
         Pair(Only(data, {"username", "password"})),
         NEW v, v = Update(Provider, [bag |-> bag, secret |-> secret], data)
  PROVE  /\ DOMAIN v.bag = DOMAIN bag /\ v.bag["ui"] = bag["ui"]
         /\ DOMAIN v.bag["kafka"] \cap SecretFields = {}
         /\ DOMAIN v.secret = Groups /\ Pair(v.secret["user"])
         /\ secret["user"] # <<>> => v.secret["user"] # <<>>
         /\ "secret-user" \in DOMAIN v.bag["kafka"] => v.secret["user"] # <<>>
  <1> DEFINE w      == [bag |-> bag, secret |-> secret]
             sought == AsSecrets(Provider, w, Provider.local, DOMAIN data)
             given  == {f \in sought : Group[f] = "user"}
             named  == GroupsOf(Provider, sought) \cap DOMAIN Uri
  <1>1. sought = DOMAIN data \cap SecretFields
    BY PublishedFields
  <1>2. /\ Provider.component = "kafka" /\ Provider.group = Group /\ Provider.uri = Uri
    BY DEF Provider
  <1>3. /\ DOMAIN v.bag = DOMAIN bag /\ v.bag["ui"] = bag["ui"]
        /\ v.bag["kafka"] = Over(Drop(data, sought),
                                 Over([f \in {Uri[g] : g \in named} |-> f], bag["kafka"]))
        /\ DOMAIN v.secret = Groups
        /\ v.secret["user"] = Over(Only(data, given), secret["user"])
    BY <1>2, Constants DEF Update, Shape
  <1> HIDE DEF sought, w
  <1>4. DOMAIN v.bag["kafka"]
           = (DOMAIN data \ SecretFields) \cup {Uri[g] : g \in named} \cup DOMAIN bag["kafka"]
    BY <1>1, <1>3 DEF Drop, Over
  <1>5. given = DOMAIN data \cap {"username", "password"}
    BY <1>1, Constants
  <1>6. Only(data, given) = Only(data, {"username", "password"})
    BY <1>5 DEF Only
  <1>7. DOMAIN v.bag["kafka"] \cap SecretFields = {}
    BY <1>4, Constants DEF CredentialsStaySecret
  <1>8. CASE given = {}
    <2>1. v.secret["user"] = [x \in DOMAIN secret["user"] |-> secret["user"][x]]
      BY <1>3, <1>8 DEF Only, Over
    <2>2. "user" \notin named
      BY <1>8, <1>2 DEF GroupsOf
    <2>3. "secret-user" \in DOMAIN v.bag["kafka"] => "secret-user" \in DOMAIN bag["kafka"]
      BY <2>2, <1>4, Constants
    <2>4. CASE secret["user"] = <<>>
      <3>1. v.secret["user"] = <<>>
        BY <2>1, <2>4, NoFields
      <3> QED  BY <3>1, <1>3, <1>7, <2>3, <2>4 DEF SecretInv, Pair
    <2>5. CASE secret["user"] # <<>>
      <3>1. Pair(v.secret["user"]) /\ v.secret["user"] # <<>>
        BY <2>1, <2>5 DEF SecretInv, Pair
      <3> QED  BY <3>1, <1>3, <1>7
    <2> QED  BY <2>4, <2>5
  <1>9. CASE given # {}
    <2>1. /\ {"username", "password"} \subseteq DOMAIN data
          /\ data["username"] = data["password"]
      <3>1. Only(data, {"username", "password"}) # <<>>
        BY <1>9, <1>5 DEF Only
      <3> QED  BY <3>1 DEF Pair, Only
    <2>2. /\ {"username", "password"} \subseteq DOMAIN v.secret["user"]
          /\ v.secret["user"]["username"] = v.secret["user"]["password"]
      BY SMTT(30), <2>1, <1>3, <1>6 DEF Only, Over
    <2>3. v.secret["user"] # <<>> /\ Pair(v.secret["user"])
      BY <2>2 DEF Pair
    <2> QED  BY <2>3, <1>3, <1>7
  <1> QED  BY <1>8, <1>9

\* What the calls of one hook publish.
LEMMA PublicationData ==
  ASSUME NEW calls \in Publications, NEW t \in {Enabled, Disabled},
         NEW data, data = [f \in UNION {CallFields(c) : c \in calls} |->
                              IF f = "tls" THEN t ELSE sets + 1]
  PROVE  /\ DOMAIN data \subseteq SecretFields \cup {"endpoints"}
         /\ \A f \in DOMAIN data : data[f] \in {t, sets + 1}
         /\ Pair(Only(data, {"username", "password"}))
  <1>1. calls \subseteq {"set_credentials", "set_tls", "set_tls_ca", "set_endpoints"}
    BY PublicationsAssumption
  <1>2. /\ CallFields("set_credentials") = {"username", "password"}
        /\ CallFields("set_tls") = {"tls"} /\ CallFields("set_tls_ca") = {"ca"}
        /\ CallFields("set_endpoints") = {"endpoints"}
    BY DEF CallFields
  <1>3. DOMAIN data = UNION {CallFields(c) : c \in calls}
        /\ \A f \in DOMAIN data : data[f] = IF f = "tls" THEN t ELSE sets + 1
    OBVIOUS
  <1>4. \A f \in DOMAIN data : \E c \in calls : f \in CallFields(c)
    BY <1>3
  <1>5. DOMAIN data \subseteq {"username", "password", "tls", "ca", "endpoints"}
    BY <1>1, <1>2, <1>4
  <1>6. CASE "set_credentials" \in calls
    <2>1. {"username", "password"} \subseteq DOMAIN data
      BY <1>2, <1>3, <1>6
    <2>2. Pair(Only(data, {"username", "password"}))
      BY <1>3, <2>1 DEF Pair, Only
    <2> QED  BY <1>3, <1>5, <2>2, Constants
  <1>7. CASE "set_credentials" \notin calls
    <2>1. DOMAIN data \cap {"username", "password"} = {}
      BY <1>1, <1>2, <1>4, <1>7
    <2>2. Only(data, {"username", "password"}) = <<>>
      BY <2>1, NoFields DEF Only
    <2> QED  BY <1>3, <1>5, <2>2, Constants DEF Pair
  <1> QED  BY <1>6, <1>7

LEMMA PublishedData ==
  ASSUME ProviderPublishes
  PROVE  \E data : /\ Publish(data) /\ DOMAIN data \subseteq SecretFields \cup {"endpoints"}
                   /\ \A f \in DOMAIN data : data[f] \in {Enabled, Disabled, sets + 1}
                   /\ Pair(Only(data, {"username", "password"}))
  <1>1. PICK calls \in Publications, t \in {Enabled, Disabled} :
           Publish([f \in UNION {CallFields(c) : c \in calls} |->
                       IF f = "tls" THEN t ELSE sets + 1])
    BY DEF ProviderPublishes
  <1> DEFINE data == [f \in UNION {CallFields(c) : c \in calls} |->
                         IF f = "tls" THEN t ELSE sets + 1]
  <1>2. Publish(data)
    BY <1>1
  <1>3. /\ DOMAIN data \subseteq SecretFields \cup {"endpoints"}
        /\ \A f \in DOMAIN data : data[f] \in {t, sets + 1}
        /\ Pair(Only(data, {"username", "password"}))
    BY PublicationData
  <1> HIDE DEF data
  <1> QED  BY <1>2, <1>3

-----------------------------------------------------------------------------
(* A hook reads *)

\* What a hook reads of a secret field: what it has cached of its secret.
LEMMA FieldOf ==
  ASSUME NEW u, hook[u].related, HookInv(hook[u]), kind \in Kinds,
         NEW cache, NEW f \in SecretFields
  PROVE  Field(u, cache, f) =
            IF f \in DOMAIN cache[Group[f]] THEN cache[Group[f]][f] ELSE Absent
  <1> DEFINE d == Requirer(hook[u].leads)
             v == [bag |-> hook[u].bag, secret |-> cache]
             mine == IF d.leader THEN Fetch(d, v, "ui", d.local, {f}) ELSE <<>>
             theirs == Fetch(d, v, "kafka", SecretFields, {f})
  <1>1. f \notin DOMAIN v.bag["ui"] /\ f \notin DOMAIN v.bag["kafka"]
    BY RequestFields, Constants DEF HookInv
  <1>2. d.component = "ui" /\ d.local = {} /\ d.group = Group
    BY DEF Requirer
  <1>3. DOMAIN mine = {}
    <2>1. AsSecrets(d, v, d.local, {f}) = {}
      BY <1>2 DEF AsSecrets, FallsBack
    <2>2. DOMAIN Fetch(d, v, "ui", d.local, {f}) = {}
      BY <2>1, <1>1 DEF Fetch, Over, Only
    <2>3. DOMAIN <<>> = {}
      OBVIOUS
    <2> QED  BY <2>2, <2>3
  <1>4. AsSecrets(d, v, SecretFields, {f}) = {f}
    <2>1. SecretFields \cap DOMAIN v.bag["ui"] = {}
      BY RequestFields DEF HookInv
    <2> QED  BY <2>1, <1>2, Constants DEF AsSecrets, FallsBack
  <1>5. v.secret = cache
    OBVIOUS
  <1> HIDE DEF d, v
  <1>6. DOMAIN theirs = {x \in {f} : f \in DOMAIN cache[Group[f]]}
        /\ \A x \in DOMAIN theirs : theirs[x] = cache[Group[f]][f]
    <2>1. CASE f \in DOMAIN cache[Group[f]]
      BY <2>1, <1>1, <1>2, <1>4, <1>5 DEF Fetch, Over, Only
    <2>2. CASE f \notin DOMAIN cache[Group[f]]
      BY <2>2, <1>1, <1>2, <1>4, <1>5 DEF Fetch, Over, Only
    <2> QED  BY <2>1, <2>2
  <1> HIDE DEF mine, theirs
  <1>7. DOMAIN Over(mine, theirs) = DOMAIN theirs
        /\ \A x \in DOMAIN theirs : Over(mine, theirs)[x] = theirs[x]
    BY <1>3 DEF Over
  <1>8. Field(u, cache, f) =
           IF f \in DOMAIN Over(mine, theirs) THEN Over(mine, theirs)[f] ELSE Absent
    BY DEF Field, d, v, mine, theirs
  <1> QED  BY <1>6, <1>7, <1>8

LEMMA FieldOfUser ==
  ASSUME NEW u, hook[u].related, HookInv(hook[u]), kind \in Kinds,
         NEW cache, Pair(cache["user"]), NEW f \in {"username", "password"}
  PROVE  Field(u, cache, f) = IF cache["user"] = <<>> THEN Absent ELSE cache["user"][f]
  <1>1. DOMAIN <<>> = {}
    OBVIOUS
  <1>2. f \in SecretFields /\ Group[f] = "user"
    BY Constants
  <1>3. cache["user"] # <<>> => f \in DOMAIN cache["user"]
    BY DEF Pair
  <1> QED  BY <1>1, <1>2, <1>3, FieldOf

\* What the hook u is after the read of one field.
LEMMA ReadHook ==
  ASSUME NEW u \in Units, Shape, Read(u)
  PROVE  \E f, cache :
            /\ f = Head(hook[u].todo)
            /\ cache \in {hook[u].cache} \cup {Cached(u, g) : g \in GroupOf(f)}
            /\ f \in {"username", "password"} =>
                  cache = Cached(u, "user") /\ hook'[u].got[f] = Field(u, cache, f)
            /\ DOMAIN hook' = Units /\ \A x \in Units \ {u} : hook'[x] = hook[x]
            /\ DOMAIN hook'[u] = HookFields
            /\ hook'[u].cache = cache /\ hook'[u].todo = Tail(hook[u].todo)
            /\ hook'[u].bag = hook[u].bag /\ hook'[u].related = hook[u].related
            /\ hook'[u].pc = hook[u].pc
            /\ DOMAIN hook'[u].got = {f} \cup DOMAIN hook[u].got
            /\ \A x \in DOMAIN hook[u].got \ {f} : hook'[u].got[x] = hook[u].got[x]
  <1> DEFINE f == Head(hook[u].todo)
             g == IF Wanted(u, f) THEN GroupOf(f) ELSE {}
             cache == IF g = {} THEN hook[u].cache ELSE Cached(u, Group[f])
             value == IF Wanted(u, f) THEN Field(u, cache, f) ELSE Absent
  <1>1. hook' = [hook EXCEPT ![u].todo = Tail(@), ![u].cache = cache,
                             ![u].got = Over([x \in {f} |-> value], @)]
    BY DEF Read
  <1>2. g \in {{}, {Group[f]}} /\ g \subseteq GroupOf(f)
    BY DEF GroupOf
  <1>3. f \in {"username", "password"} => g = {"user"} /\ Group[f] = "user" /\ Wanted(u, f)
    BY Constants DEF GroupOf, Wanted
  <1>4. cache \in {hook[u].cache} \cup {Cached(u, x) : x \in GroupOf(f)}
    BY <1>2
  <1> HIDE DEF f, cache, g, value
  <1>5. /\ DOMAIN hook' = Units /\ \A x \in Units \ {u} : hook'[x] = hook[x]
        /\ DOMAIN hook'[u] = HookFields
        /\ hook'[u].cache = cache /\ hook'[u].todo = Tail(hook[u].todo)
        /\ hook'[u].bag = hook[u].bag /\ hook'[u].related = hook[u].related
        /\ hook'[u].pc = hook[u].pc
        /\ hook'[u].got = Over([x \in {f} |-> value], hook[u].got)
    BY <1>1 DEF Shape, HookFields
  <1>6. /\ DOMAIN hook'[u].got = {f} \cup DOMAIN hook[u].got
        /\ hook'[u].got[f] = value
        /\ \A x \in DOMAIN hook[u].got \ {f} : hook'[u].got[x] = hook[u].got[x]
    BY <1>5 DEF Over
  <1>7. f \in {"username", "password"} =>
           cache = Cached(u, "user") /\ hook'[u].got[f] = Field(u, cache, f)
    BY <1>3, <1>6 DEF cache, value
  <1> QED  BY <1>4, <1>5, <1>6, <1>7 DEF f

LEMMA CachedUser ==
  ASSUME NEW u, Shape, hook[u].related, HookInv(hook[u]), SecretInv, u \in Units
  PROVE  /\ \A g \in Groups : DOMAIN Cached(u, g) = Groups
         /\ Pair(Cached(u, "user")["user"])
         /\ Cached(u, "tls")["user"] = hook[u].cache["user"]
         /\ hook[u].cache["user"] # <<>> => Cached(u, "user")["user"] = hook[u].cache["user"]
         /\ "secret-user" \notin DOMAIN hook[u].bag["kafka"] =>
                Cached(u, "user")["user"] = hook[u].cache["user"]
         /\ Cached(u, "user")["user"] = <<>> =>
                "secret-user" \notin DOMAIN hook[u].bag["kafka"]
  <1>1. DOMAIN hook[u].cache = {"user", "tls"}
    BY Constants DEF Shape
  <1>2. \A g \in Groups : DOMAIN Cached(u, g) = Groups
    BY <1>1, Constants DEF Cached
  <1>3. Cached(u, "tls")["user"] = hook[u].cache["user"]
    BY <1>1 DEF Cached
  <1>4. CASE hook[u].cache["user"] = <<>> /\ "secret-user" \in DOMAIN hook[u].bag["kafka"]
    <2>1. Cached(u, "user")["user"] = secret["user"]
      BY <1>1, <1>4, Constants DEF Cached
    <2> QED  BY <2>1, <1>2, <1>3, <1>4 DEF HookInv, SecretInv
  <1>5. CASE ~(hook[u].cache["user"] = <<>> /\ "secret-user" \in DOMAIN hook[u].bag["kafka"])
    <2>1. Cached(u, "user") = hook[u].cache
      BY <1>5, Constants DEF Cached
    <2> QED  BY <2>1, <1>2, <1>3, <1>5 DEF HookInv
  <1> QED  BY <1>4, <1>5

LEMMA ReadKeepsHook ==
  ASSUME NEW u \in Units, ClientInv, Read(u), hook[u].pc = "run"
  PROVE  /\ DOMAIN hook' = Units /\ \A x \in Units \ {u} : hook'[x] = hook[x]
         /\ DOMAIN hook'[u] = HookFields /\ DOMAIN hook'[u].cache = Groups
         /\ HookInv(hook[u])'
  <1> DEFINE h == hook[u]
             k == hook'[u]
  <1>1. Shape /\ SecretInv /\ HookInv(h) /\ h.related /\ h.todo # <<>>
    BY DEF ClientInv, Read
  <1>2. PICK f, cache :
            /\ f = Head(h.todo)
            /\ cache \in {h.cache} \cup {Cached(u, g) : g \in GroupOf(f)}
            /\ f \in {"username", "password"} =>
                  cache = Cached(u, "user") /\ k.got[f] = Field(u, cache, f)
            /\ DOMAIN hook' = Units /\ \A x \in Units \ {u} : hook'[x] = hook[x]
            /\ DOMAIN k = HookFields
            /\ k.cache = cache /\ k.todo = Tail(h.todo)
            /\ k.bag = h.bag /\ k.related = h.related
            /\ k.pc = h.pc
            /\ DOMAIN k.got = {f} \cup DOMAIN h.got
            /\ \A x \in DOMAIN h.got \ {f} : k.got[x] = h.got[x]
    BY <1>1, ReadHook
  <1>3. kind' = kind /\ secret' = secret /\ bag' = bag /\ related' = related
    BY DEF Read
  <1>4. GroupOf(f) \subseteq Groups
    BY Constants DEF GroupOf
  <1>5. /\ \A g \in Groups : DOMAIN Cached(u, g) = Groups
        /\ Pair(Cached(u, "user")["user"])
        /\ Cached(u, "tls")["user"] = h.cache["user"]
        /\ h.cache["user"] # <<>> => Cached(u, "user")["user"] = h.cache["user"]
        /\ "secret-user" \notin DOMAIN h.bag["kafka"] =>
               Cached(u, "user")["user"] = h.cache["user"]
        /\ Cached(u, "user")["user"] = <<>> => "secret-user" \notin DOMAIN h.bag["kafka"]
    BY <1>1, CachedUser
  <1>6. DOMAIN cache = Groups
    BY <1>2, <1>4, <1>5 DEF ClientInv, Shape
  <1>7. Pair(cache["user"])
    BY <1>1, <1>2, <1>4, <1>5, Constants DEF HookInv
  <1>8. kind = "kafka" => ReadsInv(k)
    <2> SUFFICES ASSUME kind = "kafka" PROVE ReadsInv(k)
      OBVIOUS
    <2>0. ReadsInv(h) /\ kind \in Kinds
      BY <1>1 DEF HookInv, Shape
    <2> HIDE DEF h, k
    <2>1. CASE h.todo = <<"tls", "username", "password", "ca">>
      <3>1. k.todo = <<"username", "password", "ca">>
        BY <1>2, <2>1
      <3> QED  BY <3>1 DEF ReadsInv
    <2>2. CASE h.todo = <<"username", "password", "ca">>
      <3>1. f = "username" /\ k.todo = <<"password", "ca">>
        BY <1>2, <2>2
      <3>2. k.got["username"] = IF cache["user"] = <<>> THEN Absent ELSE cache["user"]["username"]
        BY <1>1, <1>2, <1>7, <2>0, <3>1, FieldOfUser DEF h
      <3>3. "username" \in DOMAIN k.got /\ k.got["username"] = ReadOf(k, "username")
        BY <1>2, <3>1, <3>2 DEF ReadOf
      <3>4. k.cache["user"] = <<>> => "secret-user" \notin DOMAIN k.bag["kafka"]
        BY <1>2, <1>5, <3>1
      <3> QED  BY <3>1, <3>3, <3>4 DEF ReadsInv
    <2>3. CASE h.todo = <<"password", "ca">>
      <3>1. f = "password" /\ k.todo = <<"ca">>
        BY <1>2, <2>3
      <3>2. k.got["password"] = IF cache["user"] = <<>> THEN Absent ELSE cache["user"]["password"]
        BY <1>1, <1>2, <1>7, <2>0, <3>1, FieldOfUser DEF h
      <3>3. /\ "username" \in DOMAIN h.got /\ h.got["username"] = ReadOf(h, "username")
            /\ h.cache["user"] = <<>> => "secret-user" \notin DOMAIN h.bag["kafka"]
        BY <2>0, <2>3 DEF ReadsInv
      <3>4. cache["user"] = h.cache["user"]
        BY <1>2, <1>5, <3>1, <3>3
      <3>5. /\ {"username", "password"} \subseteq DOMAIN k.got
            /\ k.got["username"] = h.got["username"]
        BY <1>2, <3>1, <3>3
      <3>6. k.got["username"] = k.got["password"]
        BY <1>7, <3>2, <3>3, <3>4, <3>5 DEF ReadOf, Pair
      <3> QED  BY <3>1, <3>5, <3>6 DEF ReadsInv
    <2>4. CASE h.todo = <<"ca">>
      <3>1. f = "ca" /\ k.todo = <<>>
        BY <1>2, <2>4
      <3>2. /\ {"username", "password"} \subseteq DOMAIN h.got
            /\ h.got["username"] = h.got["password"]
        BY <2>0, <2>4 DEF ReadsInv
      <3>3. /\ {"username", "password"} \subseteq DOMAIN k.got
            /\ k.got["username"] = k.got["password"]
        BY <1>2, <3>1, <3>2
      <3> QED  BY <3>1, <3>3 DEF ReadsInv
    <2>5. h.todo # <<>>
      BY <1>1
    <2> QED  BY <2>0, <2>1, <2>2, <2>3, <2>4, <2>5 DEF ReadsInv
  <1>9. HookInv(hook[u])'
    BY <1>1, <1>2, <1>3, <1>7, <1>8 DEF HookInv, ReadsInv, ReadOf
  <1> QED  BY <1>2, <1>6, <1>9

-----------------------------------------------------------------------------
(* Each action keeps the invariant *)

LEMMA InitClient == Init => ClientInv
  <1> SUFFICES ASSUME Init PROVE ClientInv
    OBVIOUS
  <1>1. DOMAIN <<>> = {}
    OBVIOUS
  <1>2. Shape
    BY DEF Init, Shape, Idle, HookFields, Nothing
  <1>3. RequestInv /\ AskedInv /\ SecretInv /\ CredentialsStaySecret
    BY <1>1, RequestFields DEF Init, RequestInv, AskedInv, SecretInv, CredentialsStaySecret,
                              Pair, Groups
  <1>4. PairsAreWhole
    BY DEF Init, PairsAreWhole, Nothing, ConfFields, SecretFields, Group
  <1>5. \A u \in Units : hook[u].pc # "run"
    BY DEF Init, Idle
  <1> QED  BY <1>2, <1>3, <1>4, <1>5 DEF ClientInv, Init

\* Steps that leave hooks and secrets alone.
LEMMA SameHooks ==
  ASSUME ClientInv, UNCHANGED <<kind, secret, hook, conf>>,
         Shape', RequestInv', AskedInv', bag'["kafka"] = bag["kafka"], related' = related
  PROVE  ClientInv'
  <1>1. SecretInv' /\ CredentialsStaySecret' /\ PairsAreWhole'
    BY DEF ClientInv, SecretInv, CredentialsStaySecret, PairsAreWhole
  <1>2. \A u \in Units : (hook[u].pc = "run" => HookInv(hook[u]))'
    BY DEF ClientInv, HookInv, ReadsInv, ReadOf
  <1> QED  BY <1>1, <1>2 DEF ClientInv

LEMMA CreatedStep == ASSUME ClientInv, NEW u \in Units, RelationCreated(u) PROVE ClientInv'
  <1> DEFINE made == [bag EXCEPT !["ui"] = IF u = leader THEN Over(Request, @) ELSE @]
  <1>1. bag' = made /\ UNCHANGED <<kind, related, secret, seen, hook, conf, asked>>
    BY DEF RelationCreated
  <1>2. DOMAIN Request \subseteq UiFields /\ "requested-secrets" \in DOMAIN Request
    BY DEF Request, UiFields, Marks, ClientInv, Shape
  <1>3. /\ DOMAIN made = {"ui", "kafka"} /\ made["kafka"] = bag["kafka"]
        /\ DOMAIN made["ui"] \in {DOMAIN bag["ui"], DOMAIN Request \cup DOMAIN bag["ui"]}
    BY DEF Over, ClientInv, Shape
  <1>4. Shape'
    BY <1>1, <1>3 DEF ClientInv, Shape
  <1>5. RequestInv'
    BY <1>1, <1>2, <1>3 DEF ClientInv, RequestInv
  <1>6. AskedInv'
    BY <1>1, <1>3 DEF ClientInv, AskedInv
  <1> QED  BY <1>1, <1>3, <1>4, <1>5, <1>6, SameHooks

LEMMA StartStep ==
  ASSUME ClientInv, NEW u \in Units, NEW e, Start(u, e) PROVE ClientInv'
  <1> DEFINE h == [Idle EXCEPT !.pc = "run", !.event = e, !.related = related,
                               !.leads = (u = leader), !.bag = bag, !.todo = Reads[kind],
                               !.got = Only(bag["kafka"], {"endpoints"})]
  <1>1. hook' = [hook EXCEPT ![u] = h] /\ AllIdle
        /\ UNCHANGED <<kind, related, bag, secret, seen, asked, conf>>
    BY DEF Start
  <1>2. /\ DOMAIN h = HookFields /\ h.cache = [g \in Groups |-> <<>>]
        /\ h.related = related /\ h.bag = bag /\ h.todo = Reads[kind]
        /\ DOMAIN h.got = DOMAIN bag["kafka"] \cap {"endpoints"}
    BY DEF Idle, HookFields, Only
  <1> HIDE DEF h
  <1>3. hook'[u] = h /\ DOMAIN hook' = Units /\ \A x \in Units \ {u} : hook'[x] = hook[x]
    BY <1>1 DEF ClientInv, Shape
  <1>4. HookInv(h)
    <2>1. kind = "kafka" => ReadsInv(h)
      BY <1>2 DEF Reads, ReadsInv
    <2>2. DOMAIN h.got \cap SecretFields = {}
      BY <1>2, Constants
    <2>3. h.related => /\ DOMAIN h.bag["kafka"] \cap SecretFields = {}
                       /\ DOMAIN h.bag["ui"] \subseteq UiFields
                       /\ Pair(h.cache["user"])
                       /\ "secret-user" \in DOMAIN h.bag["kafka"] => secret["user"] # <<>>
      BY <1>2, Constants DEF ClientInv, CredentialsStaySecret, RequestInv, SecretInv, Pair
    <2> QED  BY <2>1, <2>2, <2>3 DEF HookInv
  <1>5. \A x \in Units : (hook[x].pc = "run" => HookInv(hook[x]))'
    <2>1. HookInv(hook[u])'
      BY <1>1, <1>3, <1>4 DEF HookInv, ReadsInv, ReadOf
    <2>2. \A x \in Units \ {u} : hook'[x].pc # "run"
      BY <1>1, <1>3 DEF AllIdle
    <2> QED  BY <2>1, <2>2
  <1>6. Shape'
    BY <1>1, <1>2, <1>3 DEF ClientInv, Shape
  <1>7. (RequestInv /\ AskedInv /\ SecretInv /\ CredentialsStaySecret /\ PairsAreWhole)'
    BY <1>1 DEF ClientInv, RequestInv, AskedInv, SecretInv, CredentialsStaySecret, PairsAreWhole
  <1> QED  BY <1>1, <1>5, <1>6, <1>7 DEF ClientInv

LEMMA ReadStep == ASSUME ClientInv, NEW u \in Units, Read(u) PROVE ClientInv'
  <1>1. /\ hook[u].pc = "run"
        /\ UNCHANGED <<kind, related, bag, secret, seen, asked, conf>>
    BY DEF Read
  <1>2. /\ DOMAIN hook' = Units /\ \A x \in Units \ {u} : hook'[x] = hook[x]
        /\ DOMAIN hook'[u] = HookFields /\ DOMAIN hook'[u].cache = Groups
        /\ HookInv(hook[u])'
    BY <1>1, ReadKeepsHook
  <1>3. \A x \in Units : (hook[x].pc = "run" => HookInv(hook[x]))'
    <2>1. \A x \in Units \ {u} : (hook[x].pc = "run" => HookInv(hook[x]))'
      BY <1>1, <1>2 DEF ClientInv, HookInv, ReadsInv, ReadOf
    <2> QED  BY <1>2, <2>1
  <1>4. Shape'
    BY <1>1, <1>2 DEF ClientInv, Shape
  <1>5. (RequestInv /\ AskedInv /\ SecretInv /\ CredentialsStaySecret /\ PairsAreWhole)'
    BY <1>1 DEF ClientInv, RequestInv, AskedInv, SecretInv, CredentialsStaySecret, PairsAreWhole
  <1> QED  BY <1>1, <1>3, <1>4, <1>5 DEF ClientInv

\* A hook that ends, with its file written or not.
LEMMA EndStep ==
  ASSUME ClientInv, NEW u \in Units, Finish(u) \/ Fail(u) PROVE ClientInv'
  <1>1. /\ hook[u].pc = "run" /\ (hook[u].related => hook[u].todo = <<>>)
        /\ hook' = [hook EXCEPT ![u] = Idle]
        /\ conf' = conf \/ conf' = [conf EXCEPT ![u] = Over(hook[u].got, Nothing)]
        /\ UNCHANGED <<kind, related, bag, secret, seen, asked>>
    BY DEF Finish, Fail, Write
  <1>2. HookInv(hook[u]) /\ Shape
    BY <1>1 DEF ClientInv
  <1>3. /\ hook'[u].pc = "idle" /\ DOMAIN hook' = Units /\ DOMAIN hook'[u] = HookFields
        /\ DOMAIN hook'[u].cache = Groups /\ \A x \in Units \ {u} : hook'[x] = hook[x]
    BY <1>1, <1>2 DEF Shape, Idle, HookFields
  <1>4. \A x \in Units : (hook[x].pc = "run" => HookInv(hook[x]))'
    <2>1. \A x \in Units \ {u} : (hook[x].pc = "run" => HookInv(hook[x]))'
      BY <1>1, <1>3 DEF ClientInv, HookInv, ReadsInv, ReadOf
    <2> QED  BY <1>3, <2>1
  <1>5. (RequestInv /\ AskedInv /\ SecretInv /\ CredentialsStaySecret)'
    BY <1>1 DEF ClientInv, RequestInv, AskedInv, SecretInv, CredentialsStaySecret
  <1>6. CASE conf' = conf
    <2>1. Shape' /\ PairsAreWhole'
      BY <1>1, <1>2, <1>3, <1>6 DEF Shape, PairsAreWhole, ClientInv
    <2> QED  BY <1>1, <1>4, <1>5, <2>1 DEF ClientInv
  <1>7. CASE conf' = [conf EXCEPT ![u] = Over(hook[u].got, Nothing)]
    <2> DEFINE got == hook[u].got
               new == Over(got, Nothing)
    <2>1. /\ DOMAIN Nothing = ConfFields /\ Nothing["username"] = Nothing["password"]
          /\ {"username", "password"} \subseteq ConfFields
      BY Constants DEF Nothing, ConfFields
    <2>3. kind = "kafka" => new.username = new.password
      <3> SUFFICES ASSUME kind = "kafka" PROVE new.username = new.password
        OBVIOUS
      <3>1. CASE hook[u].related
        <4>1. Len(hook[u].todo) < 2
          BY <1>1, <3>1
        <4>2. /\ {"username", "password"} \subseteq DOMAIN got
              /\ got["username"] = got["password"]
          BY <1>2, <3>1, <4>1 DEF HookInv, ReadsInv
        <4> QED  BY <4>2 DEF Over
      <3>2. CASE ~hook[u].related
        <4>1. {"username", "password"} \cap DOMAIN got = {}
          BY <1>2, <3>2, Constants DEF HookInv
        <4> QED  BY <4>1, <2>1 DEF Over
      <3> QED  BY <1>2, <3>1, <3>2 DEF Shape
    <2> HIDE DEF new, got
    <2>4. conf'[u] = new /\ DOMAIN conf' = Units /\ \A x \in Units \ {u} : conf'[x] = conf[x]
      BY <1>2, <1>7 DEF Shape, new, got
    <2>5. PairsAreWhole'
      BY <1>1, <2>3, <2>4 DEF PairsAreWhole, ClientInv
    <2>6. Shape'
      BY <1>1, <1>2, <1>3, <2>4 DEF Shape
    <2> QED  BY <1>1, <1>4, <1>5, <2>5, <2>6 DEF ClientInv
  <1> QED  BY <1>1, <1>6, <1>7

LEMMA PublishStep == ASSUME ClientInv, ProviderPublishes PROVE ClientInv'
  <1>1. PICK data : Publish(data) /\ DOMAIN data \subseteq SecretFields \cup {"endpoints"}
                    /\ Pair(Only(data, {"username", "password"}))
    BY PublishedData
  <1> DEFINE v == Update(Provider, [bag |-> bag, secret |-> secret], data)
  <1>3. /\ related /\ ~Premature(data) /\ bag' = v.bag /\ secret' = v.secret
        /\ UNCHANGED <<kind, related, seen, asked, hook, conf>>
    BY <1>1 DEF Publish
  <1> HIDE DEF v
  <1>4. /\ DOMAIN v.bag = DOMAIN bag /\ v.bag["ui"] = bag["ui"]
        /\ DOMAIN v.bag["kafka"] \cap SecretFields = {}
        /\ DOMAIN v.secret = Groups /\ Pair(v.secret["user"])
        /\ secret["user"] # <<>> => v.secret["user"] # <<>>
        /\ "secret-user" \in DOMAIN v.bag["kafka"] => v.secret["user"] # <<>>
    BY <1>1, <1>3, Publication DEF ClientInv, v
  <1>5. Shape' /\ RequestInv' /\ AskedInv' /\ SecretInv' /\ CredentialsStaySecret' /\ PairsAreWhole'
    BY <1>3, <1>4 DEF ClientInv, Shape, RequestInv, AskedInv, SecretInv, CredentialsStaySecret,
                      PairsAreWhole
  <1>6. \A u \in Units : (hook[u].pc = "run" => HookInv(hook[u]))'
    BY <1>3, <1>4 DEF ClientInv, HookInv, ReadsInv, ReadOf
  <1> QED  BY <1>3, <1>5, <1>6 DEF ClientInv

LEMMA AskedStep == ASSUME ClientInv, ProviderChanged PROVE ClientInv'
  <1>1. /\ related /\ UNCHANGED <<kind, related, bag, secret, hook, conf>>
        /\ asked' = IF Resource[kind] \in DOMAIN bag["ui"] \ seen THEN asked + 1 ELSE asked
        /\ seen' = DOMAIN bag["ui"]
    BY DEF ProviderChanged, Diff
  <1>2. AskedInv'
    BY <1>1 DEF ClientInv, AskedInv
  <1>3. Shape' /\ RequestInv'
    BY <1>1 DEF ClientInv, Shape, RequestInv
  <1> QED  BY <1>1, <1>2, <1>3, SameHooks

LEMMA RemoveStep == ASSUME ClientInv, Remove PROVE ClientInv'
  <1>1. /\ AllIdle /\ related' = FALSE /\ UNCHANGED <<kind, asked, hook, conf>>
        /\ bag' = [c \in {"ui", "kafka"} |-> <<>>] /\ secret' = [g \in Groups |-> <<>>]
        /\ seen' = {}
    BY DEF Remove
  <1>2. DOMAIN <<>> = {}
    OBVIOUS
  <1>3. Shape'
    BY <1>1 DEF ClientInv, Shape
  <1>4. (RequestInv /\ AskedInv /\ SecretInv /\ CredentialsStaySecret)'
    BY <1>1, <1>2, RequestFields, Constants
       DEF ClientInv, Shape, RequestInv, AskedInv, SecretInv, CredentialsStaySecret, Pair
  <1>5. PairsAreWhole' /\ DOMAIN bag'["kafka"] = {}
    BY <1>1, <1>2 DEF ClientInv, PairsAreWhole
  <1>6. \A u \in Units : hook'[u].pc # "run"
    BY <1>1 DEF AllIdle
  <1> QED  BY <1>3, <1>4, <1>5, <1>6 DEF ClientInv

LEMMA ClientStep == ClientInv /\ [Next]_vars => ClientInv'
  <1> SUFFICES ASSUME ClientInv, [Next]_vars PROVE ClientInv'
    OBVIOUS
  <1> DEFINE Same == UNCHANGED <<kind, related, bag, secret, seen, asked, hook, conf>>
  <1>1. ASSUME Same PROVE ClientInv'
    <2>1. Shape' /\ RequestInv' /\ AskedInv'
      BY <1>1 DEF ClientInv, Shape, RequestInv, AskedInv
    <2> QED  BY <1>1, <2>1, SameHooks
  <1>2. ASSUME NEW u \in Units, HookStep(u) \/ Fail(u) PROVE ClientInv'
    <2>1. CASE RelationCreated(u)
      BY <2>1, CreatedStep
    <2>2. CASE SecretChanged(u)
      BY <2>2, <1>1 DEF SecretChanged
    <2>3. CASE \E e \in Events : Start(u, e)
      BY <2>3, StartStep
    <2>4. CASE Read(u)
      BY <2>4, ReadStep
    <2>5. CASE Finish(u) \/ Fail(u)
      BY <2>5, EndStep
    <2> QED  BY <1>2, <2>1, <2>2, <2>3, <2>4, <2>5 DEF HookStep
  <1>3. CASE ProviderPublishes
    BY <1>3, PublishStep
  <1>4. CASE ProviderChanged
    BY <1>4, AskedStep
  <1>5. CASE LeaderMoves
    BY <1>5, <1>1 DEF LeaderMoves
  <1>6. CASE Remove
    BY <1>6, RemoveStep
  <1>7. CASE UNCHANGED vars
    BY <1>7, <1>1 DEF vars
  <1> QED  BY <1>2, <1>3, <1>4, <1>5, <1>6, <1>7 DEF Next

\* In every state a client relation is in step with what the charm knows of it.
LEMMA ClientInvariant == Spec => []ClientInv
  BY InitClient, ClientStep, PTL DEF Spec

\* The provider never puts a user name, a password or a certificate into a databag:
\* the library refuses whatever comes before the request, and with the request
\* comes the list of secret fields (_on_relation_created_event of the requirer and
\* _update_relation_data of the provider).
THEOREM CredentialsSecret == Spec => []CredentialsStaySecret
  <1>1. ClientInv => CredentialsStaySecret
    BY DEF ClientInv
  <1> QED  BY <1>1, ClientInvariant, PTL

\* No unit's configuration has the user name of one publication and the password of
\* another: a hook reads both from the one revision it has cached.
THEOREM PairsWhole == Spec => []PairsAreWhole
  <1>1. ClientInv => PairsAreWhole
    BY DEF ClientInv
  <1> QED  BY <1>1, ClientInvariant, PTL

-----------------------------------------------------------------------------
(* Types                                                                    *)

OrAbsent == Values \cup {Absent}
SecretTypes(s) == \A g \in Groups : \A f \in DOMAIN s[g] : Group[f] = g /\ s[g][f] \in Values
HookTypes(h) ==
    /\ h.event \in Events /\ h.todo \in Seq(SecretFields) /\ SecretTypes(h.cache)
    /\ DOMAIN h.got \subseteq ConfFields /\ \A f \in DOMAIN h.got : h.got[f] \in OrAbsent

\* Besides the types of TypeOK: what is published openly, and what hooks hold.
TypeInv ==
    /\ TypeOK
    /\ "endpoints" \in DOMAIN bag["kafka"] => bag["kafka"]["endpoints"] \in Values
    /\ \A u \in Units : HookTypes(hook[u])

LEMMA FieldSets ==
    /\ ConfFields = SecretFields \cup {"endpoints"}
    /\ KafkaFields = ConfFields \cup {"secret-user", "secret-tls"}
    /\ SecretFields \cap {"endpoints", "secret-user", "secret-tls"} = {}
  BY Constants DEF ConfFields, KafkaFields

\* What is read of a field is a value of its secret, or nothing.
LEMMA FieldTypes ==
  ASSUME NEW u, hook[u].related, HookInv(hook[u]), kind \in Kinds,
         NEW cache, SecretTypes(cache), NEW f \in SecretFields
  PROVE  Field(u, cache, f) \in OrAbsent
  <1>1. Group[f] \in Groups
    BY Constants
  <1> QED  BY <1>1, FieldOf DEF SecretTypes, OrAbsent

LEMMA CachedTypes ==
  ASSUME NEW u \in Units, Shape, SecretTypes(hook[u].cache), SecretTypes(secret), NEW g \in Groups
  PROVE  SecretTypes(Cached(u, g))
  BY DEF Cached, SecretTypes, Shape

LEMMA ReadTypes ==
  ASSUME NEW u \in Units, ClientInv, TypeInv, Read(u)
  PROVE  HookTypes(hook'[u]) /\ (\A x \in Units \ {u} : hook'[x] = hook[x])
         /\ follows' \in [Units -> SUBSET Groups]
  <1> DEFINE f == Head(hook[u].todo)
             g == IF Wanted(u, f) THEN GroupOf(f) ELSE {}
             cache == IF g = {} THEN hook[u].cache ELSE Cached(u, Group[f])
             value == IF Wanted(u, f) THEN Field(u, cache, f) ELSE Absent
  <1>1. /\ hook' = [hook EXCEPT ![u].todo = Tail(@), ![u].cache = cache,
                                ![u].got = Over([x \in {f} |-> value], @)]
        /\ follows' = [follows EXCEPT
                  ![u] = @ \cup {x \in g : Uri[x] \in DOMAIN hook[u].bag["kafka"]}]
        /\ hook[u].pc = "run" /\ hook[u].related /\ hook[u].todo # <<>>
    BY DEF Read
  <1>2. Shape /\ HookInv(hook[u]) /\ HookTypes(hook[u]) /\ SecretTypes(secret) /\ kind \in Kinds
    BY <1>1 DEF ClientInv, TypeInv, TypeOK, SecretTypes, Shape
  <1>3. f \in SecretFields /\ Tail(hook[u].todo) \in Seq(SecretFields)
    <2>1. hook[u].todo \in Seq(SecretFields) /\ hook[u].todo # <<>>
      BY <1>1, <1>2 DEF HookTypes
    <2>2. \A S : \A q \in Seq(S) : q # <<>> => Head(q) \in S /\ Tail(q) \in Seq(S)
      OBVIOUS
    <2> QED  BY <2>1, <2>2
  <1>4. Group[f] \in Groups /\ g \in {{}, {Group[f]}}
    BY <1>3, Constants DEF GroupOf
  <1>5. SecretTypes(cache)
    BY <1>2, <1>4, CachedTypes DEF HookTypes
  <1>6. value \in OrAbsent
    <2> HIDE DEF cache, f
    <2>1. Field(u, cache, f) \in OrAbsent
      BY <1>1, <1>2, <1>3, <1>5, FieldTypes
    <2> QED  BY <2>1 DEF OrAbsent
  <1> HIDE DEF f, cache, value, g
  <1>7. /\ \A x \in Units \ {u} : hook'[x] = hook[x]
        /\ hook'[u].cache = cache /\ hook'[u].todo = Tail(hook[u].todo)
        /\ hook'[u].event = hook[u].event
        /\ hook'[u].got = Over([x \in {f} |-> value], hook[u].got)
    BY <1>1, <1>2 DEF Shape, HookFields
  <1>8. /\ DOMAIN hook'[u].got = {f} \cup DOMAIN hook[u].got
        /\ \A x \in DOMAIN hook'[u].got : hook'[u].got[x] \in {value, hook[u].got[x]}
        /\ \A x \in DOMAIN hook'[u].got : x = f \/ hook'[u].got[x] = hook[u].got[x]
        /\ hook'[u].got[f] = value
    BY <1>7 DEF Over
  <1>9. HookTypes(hook'[u])
    BY <1>2, <1>3, <1>5, <1>6, <1>7, <1>8, FieldSets DEF HookTypes
  <1>10. follows' \in [Units -> SUBSET Groups]
    BY <1>1, <1>4 DEF TypeInv, TypeOK
  <1> QED  BY <1>7, <1>9, <1>10

LEMMA PublishTypes ==
  ASSUME ClientInv, TypeInv, NEW data, Publish(data),
         DOMAIN data \subseteq SecretFields \cup {"endpoints"},
         \A f \in DOMAIN data : data[f] \in Values
  PROVE  TypeInv'
  <1> DEFINE w      == [bag |-> bag, secret |-> secret]
             v      == Update(Provider, w, data)
             sought == AsSecrets(Provider, w, Provider.local, DOMAIN data)
             named  == GroupsOf(Provider, sought) \cap DOMAIN Uri
  <1>1. /\ ~Premature(data) /\ bag' = v.bag /\ secret' = v.secret /\ Notify(v)
        /\ sets < MaxSets /\ sets' = sets + 1
        /\ since' = [g \in Groups |-> {v.secret[g]}
               \cup (IF v.bag["kafka"] = bag["kafka"] THEN since[g] ELSE {})]
        /\ UNCHANGED <<kind, related, leader, seen, follows, told, asked, hook, conf, lost,
                       leads, faults>>
    BY DEF Publish
  <1>2. sought = DOMAIN data \cap SecretFields
    BY <1>1, PublishedFields DEF ClientInv
  <1>3. Provider.component = "kafka" /\ Provider.group = Group /\ Provider.uri = Uri
    BY DEF Provider
  <1>4. /\ DOMAIN v.bag = {"ui", "kafka"} /\ v.bag["ui"] = bag["ui"]
        /\ v.bag["kafka"] = Over(Drop(data, sought),
                                 Over([f \in {Uri[g] : g \in named} |-> f], bag["kafka"]))
        /\ DOMAIN v.secret = Groups
        /\ \A g \in Groups : v.secret[g] = Over(Only(data, {f \in sought : Group[f] = g}), secret[g])
    BY <1>3 DEF Update, ClientInv, Shape
  <1> HIDE DEF sought, v
  <1>5. DOMAIN v.bag["kafka"] \subseteq KafkaFields
    <2>1. DOMAIN v.bag["kafka"]
             = (DOMAIN data \ SecretFields) \cup {Uri[g] : g \in named} \cup DOMAIN bag["kafka"]
      BY <1>2, <1>4 DEF Drop, Over
    <2>2. {Uri[g] : g \in named} \subseteq {"secret-user", "secret-tls"}
      BY Constants
    <2> QED  BY <2>1, <2>2, FieldSets DEF TypeInv, TypeOK
  <1>6. "endpoints" \in DOMAIN v.bag["kafka"] => v.bag["kafka"]["endpoints"] \in Values
    <2>1. \A g \in Groups : Uri[g] # "endpoints"
      BY Constants
    <2>2. \A x \in DOMAIN v.bag["kafka"] :
             \/ x \in DOMAIN data /\ v.bag["kafka"][x] = data[x]
             \/ x \in {Uri[g] : g \in named}
             \/ x \in DOMAIN bag["kafka"] /\ v.bag["kafka"][x] = bag["kafka"][x]
      BY <1>4 DEF Drop, Over
    <2> QED  BY <2>1, <2>2, Constants DEF TypeInv
  <1>7. SecretTypes(v.secret)
    <2> SUFFICES ASSUME NEW g \in Groups, NEW f \in DOMAIN v.secret[g]
                 PROVE  Group[f] = g /\ v.secret[g][f] \in Values
      BY DEF SecretTypes
    <2> DEFINE new == Only(data, {x \in sought : Group[x] = g})
    <2>0. v.secret[g] = Over(new, secret[g])
      BY <1>4
    <2>2. \A x \in DOMAIN new : x \in DOMAIN data /\ Group[x] = g /\ new[x] = data[x]
      BY DEF Only
    <2> HIDE DEF new
    <2>3. \/ f \in DOMAIN new /\ v.secret[g][f] = new[f]
          \/ f \in DOMAIN secret[g] /\ v.secret[g][f] = secret[g][f]
      BY <2>0 DEF Over
    <2>1. \/ f \in DOMAIN data /\ Group[f] = g /\ v.secret[g][f] = data[f]
          \/ f \in DOMAIN secret[g] /\ v.secret[g][f] = secret[g][f]
      BY <2>2, <2>3
    <2> QED  BY <2>1 DEF TypeInv, TypeOK
  <1>8. pending' \in [Units -> SUBSET (Events \ {"status"})]
    <2>1. {"changed", "secret"} \subseteq Events \ {"status"}
      BY DEF Events
    <2> QED  BY <1>1, <2>1 DEF Notify, TypeInv, TypeOK
  <1>9. sets' \in 0..MaxSets
    BY <1>1, BoundsAssumption DEF TypeInv, TypeOK
  <1>10. \A g \in Groups : secret'[g] \in since'[g]
    BY <1>1
  <1>11. TypeOK'
    BY <1>1, <1>4, <1>5, <1>7, <1>8, <1>9, <1>10 DEF TypeInv, TypeOK, SecretTypes
  <1> QED  BY <1>1, <1>6, <1>11 DEF TypeInv

LEMMA StartTypes ==
  ASSUME ClientInv, TypeInv, NEW u \in Units, NEW e \in Events, Start(u, e)
  PROVE  TypeInv'
  <1> DEFINE h == [Idle EXCEPT !.pc = "run", !.event = e, !.related = related,
                               !.leads = (u = leader), !.bag = bag, !.todo = Reads[kind],
                               !.got = Only(bag["kafka"], {"endpoints"})]
  <1>1. hook' = [hook EXCEPT ![u] = h] /\ pending' = [pending EXCEPT ![u] = @ \ {e}]
        /\ UNCHANGED <<kind, related, leader, bag, secret, since, seen, follows, told, asked, conf, lost,
                       sets, leads, faults>>
    BY DEF Start, boundVars
  <1>2. /\ h.event = e /\ h.cache = [g \in Groups |-> <<>>] /\ h.todo = Reads[kind]
        /\ h.got = Only(bag["kafka"], {"endpoints"})
    BY DEF Idle
  <1> HIDE DEF h
  <1>3. h.todo \in Seq(SecretFields)
    <2>1. kind \in {"kafka", "connect", "karapace"}
      BY KindsAssumption DEF TypeInv, TypeOK
    <2>3. {"tls", "username", "password", "ca"} \subseteq SecretFields
      BY Constants
    <2>4. \A a, b, c, d \in SecretFields :
             <<a, b, c, d>> \in Seq(SecretFields) /\ <<a, b, c>> \in Seq(SecretFields)
      OBVIOUS
    <2>2. <<"tls", "username", "password", "ca">> \in Seq(SecretFields)
          /\ <<"password", "tls", "ca">> \in Seq(SecretFields)
      BY <2>3, <2>4
    <2>5. /\ Reads["kafka"] = <<"tls", "username", "password", "ca">>
          /\ Reads["connect"] = <<"password", "tls", "ca">>
          /\ Reads["karapace"] = <<"password", "tls", "ca">>
      BY DEF Reads
    <2>6. \A k \in {"kafka", "connect", "karapace"} : Reads[k] \in Seq(SecretFields)
      BY <2>2, <2>5, Zenon
    <2> QED  BY <1>2, <2>1, <2>6
  <1>4. SecretTypes(h.cache)
    <2>1. DOMAIN <<>> = {}
      OBVIOUS
    <2> QED  BY <1>2, <2>1 DEF SecretTypes
  <1>5. DOMAIN h.got \subseteq ConfFields /\ \A f \in DOMAIN h.got : h.got[f] \in OrAbsent
    BY <1>2, FieldSets DEF Only, OrAbsent, TypeInv
  <1>6. HookTypes(h)
    BY <1>2, <1>3, <1>4, <1>5 DEF HookTypes
  <1>7. \A x \in Units : hook'[x] = IF x = u THEN h ELSE hook[x]
    BY <1>1 DEF ClientInv, Shape
  <1>8. \A x \in Units : HookTypes(hook'[x])
    BY <1>6, <1>7 DEF TypeInv
  <1>9. pending' \in [Units -> SUBSET (Events \ {"status"})]
    BY <1>1 DEF TypeInv, TypeOK
  <1>10. TypeOK'
    BY <1>1, <1>8, <1>9 DEF TypeInv, TypeOK, HookTypes
  <1> QED  BY <1>1, <1>8, <1>10 DEF TypeInv

LEMMA EndTypes ==
  ASSUME ClientInv, TypeInv, NEW u \in Units, Finish(u) \/ Fail(u)
  PROVE  TypeInv'
  <1>1. /\ hook' = [hook EXCEPT ![u] = Idle]
        /\ conf' = conf \/ conf' = [conf EXCEPT ![u] = Over(hook[u].got, Nothing)]
        /\ UNCHANGED <<kind, related, leader, bag, secret, since, seen, follows, asked, lost, sets, leads>>
    BY DEF Finish, Fail, Write, boundVars
  <1>2. HookTypes(Idle)
    <2>1. DOMAIN <<>> = {} /\ <<>> \in Seq(SecretFields)
      OBVIOUS
    <2>2. Idle.event = "status" /\ Idle.todo = <<>> /\ Idle.got = <<>>
          /\ Idle.cache = [g \in Groups |-> <<>>]
      BY DEF Idle
    <2> QED  BY <2>1, <2>2 DEF HookTypes, SecretTypes, Events
  <1>3. \A x \in Units : hook'[x] = IF x = u THEN Idle ELSE hook[x]
    BY <1>1 DEF ClientInv, Shape
  <1>4. \A x \in Units : HookTypes(hook'[x])
    BY <1>2, <1>3 DEF TypeInv
  <1>5. Over(hook[u].got, Nothing) \in [ConfFields -> OrAbsent]
    <2>1. HookTypes(hook[u])
      BY DEF TypeInv
    <2> QED  BY <2>1 DEF HookTypes, Over, Nothing, OrAbsent
  <1>6. conf' \in [Units -> [ConfFields -> OrAbsent]]
    BY <1>1, <1>5 DEF TypeInv, TypeOK, OrAbsent
  <1>7. pending' \in [Units -> SUBSET (Events \ {"status"})] /\ told' \in BOOLEAN
        /\ faults' \in 0..MaxFaults
    <2>1. CASE Finish(u)
      <3>1. UNCHANGED <<pending, faults>>
        BY <2>1 DEF Finish, boundVars
      <3>2. told' \in BOOLEAN
        BY <2>1, Zenon DEF Finish, TypeInv, TypeOK
      <3> QED  BY <3>1, <3>2 DEF TypeInv, TypeOK
    <2>2. CASE Fail(u)
      <3>1. {"changed", "broken"} \subseteq Events \ {"status"}
        BY DEF Events
      <3>2. faults' \in 0..MaxFaults /\ UNCHANGED told
        BY <2>2, BoundsAssumption DEF Fail, TypeInv, TypeOK
      <3>3. PICK s \in SUBSET {"changed", "broken"} : pending' = [pending EXCEPT ![u] = @ \cup s]
        <4> DEFINE s == {hook[u].event} \cap (IF related THEN {"changed"} ELSE {"broken"})
        <4>1. pending' = [pending EXCEPT ![u] = @ \cup s]
          BY <2>2 DEF Fail
        <4>2. s \in SUBSET {"changed", "broken"}
          OBVIOUS
        <4> QED  BY <4>1, <4>2
      <3>4. pending' \in [Units -> SUBSET (Events \ {"status"})]
        BY <3>1, <3>3 DEF TypeInv, TypeOK
      <3> QED  BY <3>2, <3>4 DEF TypeInv, TypeOK
    <2> QED  BY <2>1, <2>2
  <1>8. TypeOK'
    BY <1>1, <1>4, <1>6, <1>7 DEF TypeInv, TypeOK, HookTypes, OrAbsent
  <1> QED  BY <1>1, <1>4, <1>8 DEF TypeInv

\* Steps that change neither hooks, secrets nor the provider's databag.
LEMMA OtherTypes ==
  ASSUME ClientInv, TypeInv, NEW u \in Units,
         RelationCreated(u) \/ SecretChanged(u) \/ ProviderChanged \/ LeaderMoves
  PROVE  TypeInv'
  <1>1. /\ UNCHANGED <<kind, related, secret, since, follows, hook, conf, sets, faults>>
        /\ bag'["kafka"] = bag["kafka"] /\ DOMAIN bag' = {"ui", "kafka"}
    BY DEF RelationCreated, SecretChanged, ProviderChanged, LeaderMoves, boundVars, ClientInv, Shape
  <1>2. DOMAIN bag'["ui"] \subseteq UiFields
    <2>1. CASE RelationCreated(u)
      <3>1. ClientInv'
        BY <2>1, CreatedStep
      <3> QED  BY <3>1 DEF ClientInv, RequestInv
    <2>2. CASE ~RelationCreated(u)
      <3>1. UNCHANGED bag
        BY <2>2 DEF SecretChanged, ProviderChanged, LeaderMoves
      <3> QED  BY <3>1 DEF TypeInv, TypeOK
    <2> QED  BY <2>1, <2>2
  <1>3. leader' \in Units /\ leads' \in 0..MaxLeads
    BY BoundsAssumption DEF RelationCreated, SecretChanged, ProviderChanged, LeaderMoves, boundVars, TypeInv, TypeOK
  <1>4. seen' \subseteq UiFields
    BY DEF RelationCreated, SecretChanged, ProviderChanged, LeaderMoves, Diff, TypeInv, TypeOK
  <1>5. pending' \in [Units -> SUBSET (Events \ {"status"})]
    <2>1. \/ UNCHANGED pending
          \/ \E e : pending' = [pending EXCEPT ![u] = @ \ {e}]
      BY DEF RelationCreated, SecretChanged, ProviderChanged, LeaderMoves
    <2> QED  BY <2>1 DEF TypeInv, TypeOK
  <1>6. asked' \in Nat
    BY DEF RelationCreated, SecretChanged, ProviderChanged, LeaderMoves, TypeInv, TypeOK
  <1>7. told' \in BOOLEAN /\ lost' \in BOOLEAN
    <2>0. told \in BOOLEAN /\ lost \in BOOLEAN
      BY DEF TypeInv, TypeOK
    <2>1. CASE RelationCreated(u)
      BY <2>0, <2>1, Zenon DEF RelationCreated
    <2>2. CASE SecretChanged(u)
      BY <2>0, <2>2, Zenon DEF SecretChanged
    <2>3. CASE ProviderChanged
      BY <2>0, <2>3, Zenon DEF ProviderChanged
    <2>4. CASE LeaderMoves
      BY <2>0, <2>4, Zenon DEF LeaderMoves
    <2> QED  BY <2>1, <2>2, <2>3, <2>4
  <1>8. TypeOK'
    BY <1>1, <1>2, <1>3, <1>4, <1>5, <1>6, <1>7 DEF TypeInv, TypeOK
  <1> QED  BY <1>1, <1>8 DEF TypeInv

LEMMA RemoveTypes == ASSUME ClientInv, TypeInv, Remove PROVE TypeInv'
  <1>1. DOMAIN <<>> = {}
    OBVIOUS
  <1>2. /\ related' = FALSE /\ told' = FALSE
        /\ bag' = [c \in {"ui", "kafka"} |-> <<>>] /\ secret' = [g \in Groups |-> <<>>]
        /\ since' = [g \in Groups |-> {<<>>}]
        /\ seen' = {} /\ follows' = [u \in Units |-> {}] /\ pending' = [u \in Units |-> {"broken"}]
        /\ UNCHANGED <<kind, leader, asked, hook, conf, lost, sets, leads, faults>>
    BY DEF Remove, boundVars
  <1>3. related' \in BOOLEAN /\ told' \in BOOLEAN
    BY <1>2, Zenon
  <1>4. "broken" \in Events \ {"status"}
    BY DEF Events
  <1>5. TypeOK'
    BY <1>1, <1>2, <1>3, <1>4 DEF TypeInv, TypeOK
  <1> QED  BY <1>1, <1>2, <1>5 DEF TypeInv

LEMMA InitTypes == Init => TypeInv
  <1> SUFFICES ASSUME Init PROVE TypeInv
    OBVIOUS
  <1>1. DOMAIN <<>> = {} /\ <<>> \in Seq(SecretFields)
    OBVIOUS
  <1>2. HookTypes(Idle)
    <2>1. Idle.event = "status" /\ Idle.todo = <<>> /\ Idle.got = <<>>
          /\ Idle.cache = [g \in Groups |-> <<>>]
      BY DEF Idle
    <2> QED  BY <1>1, <2>1 DEF HookTypes, SecretTypes, Events
  <1>3. related \in BOOLEAN /\ told \in BOOLEAN /\ lost \in BOOLEAN
    BY Zenon DEF Init
  <1>4. \A u \in Units : HookTypes(hook[u])
    BY <1>2 DEF Init
  <1>5. Nothing \in [ConfFields -> Values \cup {Absent}]
    BY DEF Nothing
  <1>6. "created" \in Events \ {"status"}
    BY DEF Events
  <1>7. sets \in 0..MaxSets /\ leads \in 0..MaxLeads /\ faults \in 0..MaxFaults /\ asked \in Nat
    BY BoundsAssumption DEF Init
  <1>8. TypeOK
    BY <1>1, <1>3, <1>4, <1>5, <1>6, <1>7, LeadersAssumption DEF Init, TypeOK, HookTypes
  <1> QED  BY <1>1, <1>4, <1>8 DEF Init, TypeInv

LEMMA TypeStep == ClientInv /\ TypeInv /\ [Next]_vars => TypeInv'
  <1> SUFFICES ASSUME ClientInv, TypeInv, [Next]_vars PROVE TypeInv'
    OBVIOUS
  <1>1. ASSUME NEW u \in Units, HookStep(u) \/ Fail(u) PROVE TypeInv'
    <2>1. CASE RelationCreated(u) \/ SecretChanged(u)
      BY <2>1, OtherTypes
    <2>2. CASE \E e \in Events : Start(u, e)
      BY <2>2, StartTypes
    <2>3. CASE Read(u)
      <3>1. HookTypes(hook'[u]) /\ (\A x \in Units \ {u} : hook'[x] = hook[x])
            /\ follows' \in [Units -> SUBSET Groups]
        BY <2>3, ReadTypes
      <3>2. UNCHANGED <<kind, related, leader, bag, secret, since, seen, pending, told, asked, conf, lost,
                        sets, leads, faults>>
        BY <2>3 DEF Read, boundVars
      <3>3. \A x \in Units : HookTypes(hook'[x])
        BY <3>1 DEF TypeInv
      <3>4. TypeOK'
        BY <3>1, <3>2, <3>3 DEF TypeInv, TypeOK, HookTypes
      <3> QED  BY <3>2, <3>3, <3>4 DEF TypeInv
    <2>4. CASE Finish(u) \/ Fail(u)
      BY <2>4, EndTypes
    <2> QED  BY <1>1, <2>1, <2>2, <2>3, <2>4 DEF HookStep
  <1>2. CASE ProviderPublishes
    <2>1. PICK data : /\ Publish(data) /\ DOMAIN data \subseteq SecretFields \cup {"endpoints"}
                      /\ \A f \in DOMAIN data : data[f] \in {Enabled, Disabled, sets + 1}
      BY <1>2, PublishedData
    <2>2. sets + 1 \in 1..MaxSets
      BY <2>1, BoundsAssumption DEF Publish, TypeInv, TypeOK
    <2>3. \A f \in DOMAIN data : data[f] \in Values
      BY <2>1, <2>2 DEF Values
    <2> QED  BY <2>1, <2>3, PublishTypes
  <1>3. CASE ProviderChanged \/ LeaderMoves
    BY <1>3, UnitsAssumption, OtherTypes
  <1>4. CASE Remove
    BY <1>4, RemoveTypes
  <1>5. CASE UNCHANGED vars
    BY <1>5 DEF vars, boundVars, TypeInv, TypeOK
  <1> QED  BY <1>1, <1>2, <1>3, <1>4, <1>5 DEF Next

\* Databags, secrets, hooks and files keep to their fields and values, for any number
\* of units, publications, moves of the lead and hooks that die.
THEOREM TypeCorrect == Spec => []TypeOK
  <1>1. TypeInv => TypeOK
    BY DEF TypeInv
  <1>2. Spec => []TypeInv
    BY InitTypes, TypeStep, ClientInvariant, PTL DEF Spec
  <1> QED  BY <1>1, <1>2, PTL

-----------------------------------------------------------------------------
(* What a unit's file says between hooks                                    *)

\* The fields that a hook of this kind reads from secrets.
ReadFields == IF kind = "kafka" THEN SecretFields ELSE SecretFields \ {"username"}

\* A field of a secret or of a databag, as it is read.
FieldIn(s, f) == IF f \in DOMAIN s THEN s[f] ELSE Absent

\* A field of ReadFields, as it is read of these revisions of the two secrets.
ValueOf(user, tls, f) ==
    IF f = "ca" /\ FieldIn(tls, "tls") # Enabled THEN Absent
    ELSE FieldIn(IF Group[f] = "user" THEN user ELSE tls, f)

\* A file that says what a hook reads of these revisions.
FileSays(c, user, tls) ==
    /\ c["endpoints"] = FieldIn(bag["kafka"], "endpoints")
    /\ \A f \in ReadFields : c[f] = ValueOf(user, tls, f)
    /\ "username" \notin ReadFields => c["username"] = Absent

\* A revision has fields of its group, and there are any exactly if the databag
\* names the secret.
SinceInv ==
    \A g \in Groups : \A s \in since[g] :
        /\ DOMAIN s \subseteq SecretFields /\ \A f \in DOMAIN s : Group[f] = g
        /\ \/ s = <<>> /\ Uri[g] \notin DOMAIN bag["kafka"]
           \/ DOMAIN s # {} /\ Uri[g] \in DOMAIN bag["kafka"]

\* A hook that has not read a field yet will; the CA comes last.
TodoInv(h) ==
    /\ h.todo \in Seq(ReadFields)
    /\ \A f \in ReadFields \ DOMAIN h.got : \E i \in 1..Len(h.todo) : h.todo[i] = f
    /\ \A i \in 1..Len(h.todo) : h.todo[i] = "ca" => i = Len(h.todo)

\* A field that was read is what the hook keeps of its secret, and a secret that was
\* not there when it was read is not to be read any more.
GotInv(h, f) ==
    /\ h.got[f] = ValueOf(h.cache["user"], h.cache["tls"], f)
    /\ h.cache[Group[f]] = <<>> => Uri[Group[f]] \notin DOMAIN bag["kafka"]

\* A hook after which no further change of the databag is to be handled: it keeps
\* revisions that came with or after the databag that is there.
HoldsInv(h) ==
    /\ h.bag["kafka"] = bag["kafka"]
    /\ \A g \in Groups : h.cache[g] = <<>> \/ h.cache[g] \in since[g]
    /\ DOMAIN h.got \subseteq {"endpoints"} \cup ReadFields
    /\ FieldIn(h.got, "endpoints") = FieldIn(bag["kafka"], "endpoints")
    /\ \A f \in DOMAIN h.got \cap ReadFields : GotInv(h, f)
    /\ TodoInv(h)

\* The file of a unit is about to be written, as far as that matters.
Rewrites(u) ==
    \/ pending[u] \cap {"changed", "broken"} # {}
    \/ hook[u].pc = "run" /\ hook[u].event \in {"changed", "broken"}

\* Which hooks there are with and without the relation.
Fits(e) == (e = "changed" => related) /\ (e = "broken" => ~related)
QueueInv ==
    \A u \in Units : /\ \A e \in pending[u] : Fits(e)
                     /\ hook[u].pc = "run" => Fits(hook[u].event)

RestInv ==
    /\ SinceInv
    /\ \A u \in Units : hook[u].pc = "run" =>
          /\ hook[u].related = related
          /\ ~related => DOMAIN hook[u].got = {}
          /\ related /\ "changed" \notin pending[u] => HoldsInv(hook[u])
    /\ \A u \in Units : ~Rewrites(u) =>
          \E user \in since["user"], tls \in since["tls"] : FileSays(conf[u], user, tls)

\* The request is there or its unit has still to make it, and the provider's diff
\* knows what it was not told.
ReachInv ==
    /\ related /\ ~lost => "created" \in pending[leader] \/ Resource[kind] \in DOMAIN bag["ui"]
    /\ related /\ ~told => DOMAIN bag["ui"] \subseteq seen
    /\ Resource[kind] \in seen => asked = 1

LEMMA ReadFieldSets ==
    /\ ReadFields \subseteq {"username", "password", "tls", "ca"}
    /\ {"password", "tls", "ca"} \subseteq ReadFields
    /\ kind = "kafka" <=> "username" \in ReadFields
  BY Constants DEF ReadFields

LEMMA ValueAt ==
  ASSUME NEW user, NEW tls
  PROVE  /\ ValueOf(user, tls, "username") = FieldIn(user, "username")
         /\ ValueOf(user, tls, "password") = FieldIn(user, "password")
         /\ ValueOf(user, tls, "tls") = FieldIn(tls, "tls")
         /\ ValueOf(user, tls, "ca") =
               IF FieldIn(tls, "tls") = Enabled THEN FieldIn(tls, "ca") ELSE Absent
  BY Constants DEF ValueOf

\* AsRead, field by field.
LEMMA ReadsAs ==
  ASSUME kind \in Kinds,
         NEW user, DOMAIN user \subseteq {"username", "password"},
         NEW tls, DOMAIN tls \subseteq {"tls", "ca"},
         NEW c, c \in [ConfFields -> Values \cup {Absent}], FileSays(c, user, tls)
  PROVE  c = AsRead(user, tls)
  <1> DEFINE name == IF kind = "kafka" THEN {} ELSE {"username"}
             cert == IF "tls" \in DOMAIN tls /\ tls["tls"] = Enabled THEN {} ELSE {"ca"}
             open == Only(bag["kafka"], {"endpoints"})
             one  == Drop(user, name)
             two  == Drop(tls, cert)
             all  == Over(open, Over(one, Over(two, Nothing)))
  <1>1. DOMAIN open = DOMAIN bag["kafka"] \cap {"endpoints"}
        /\ \A f \in DOMAIN open : open[f] = bag["kafka"][f]
    BY DEF Only
  <1>2. DOMAIN one = DOMAIN user \ name /\ \A f \in DOMAIN one : one[f] = user[f]
    BY DEF Drop
  <1>3. DOMAIN two = DOMAIN tls \ cert /\ \A f \in DOMAIN two : two[f] = tls[f]
    BY DEF Drop
  <1>4. ConfFields = {"endpoints", "username", "password", "tls", "ca"}
        /\ DOMAIN Nothing = ConfFields /\ \A f \in ConfFields : Nothing[f] = Absent
    BY Constants DEF Nothing, ConfFields
  <1>5. all = AsRead(user, tls)
    BY DEF AsRead
  <1>6. "ca" \in cert <=> FieldIn(tls, "tls") # Enabled
    BY ValuesAssumption DEF FieldIn
  <1>7. "username" \in name <=> "username" \notin ReadFields
    BY ReadFieldSets
  <1>8. name \subseteq {"username"} /\ cert \subseteq {"ca"}
    OBVIOUS
  <1> HIDE DEF name, cert, open, one, two
  <1>9. all = [f \in DOMAIN open \cup (DOMAIN one \cup (DOMAIN two \cup DOMAIN Nothing)) |->
                  IF f \in DOMAIN open THEN open[f] ELSE IF f \in DOMAIN one THEN one[f]
                  ELSE IF f \in DOMAIN two THEN two[f] ELSE Nothing[f]]
    BY DEF Over
  <1>10. DOMAIN open \cup (DOMAIN one \cup (DOMAIN two \cup DOMAIN Nothing)) = ConfFields
    BY <1>1, <1>2, <1>3, <1>4
  <1> HIDE DEF all
  <1>11. DOMAIN all = ConfFields
         /\ all = [f \in ConfFields |-> all[f]]
         /\ \A f \in ConfFields : all[f] =
                  IF f \in DOMAIN open THEN open[f] ELSE IF f \in DOMAIN one THEN one[f]
                  ELSE IF f \in DOMAIN two THEN two[f] ELSE Nothing[f]
    BY <1>9, <1>10
  <1>12. /\ c["password"] = FieldIn(user, "password") /\ c["tls"] = FieldIn(tls, "tls")
         /\ c["ca"] = IF "ca" \in cert THEN Absent ELSE FieldIn(tls, "ca")
         /\ c["username"] = IF "username" \in name THEN Absent ELSE FieldIn(user, "username")
         /\ c["endpoints"] = FieldIn(bag["kafka"], "endpoints")
    BY <1>6, <1>7, ReadFieldSets, ValueAt DEF FileSays
  <1>13. all["endpoints"] = c["endpoints"]
    BY <1>1, <1>2, <1>3, <1>4, <1>8, <1>11, <1>12 DEF FieldIn
  <1>14. all["username"] = c["username"] /\ all["password"] = c["password"]
    BY <1>1, <1>2, <1>3, <1>4, <1>8, <1>11, <1>12 DEF FieldIn
  <1>15. all["tls"] = c["tls"] /\ all["ca"] = c["ca"]
    BY <1>1, <1>2, <1>3, <1>4, <1>8, <1>11, <1>12 DEF FieldIn
  <1>16. c = [f \in ConfFields |-> c[f]]
    OBVIOUS
  <1>17. \A f \in ConfFields : all[f] = c[f]
    BY <1>4, <1>13, <1>14, <1>15
  <1> QED  BY <1>5, <1>11, <1>16, <1>17

LEMMA TodoStep ==
  ASSUME NEW h, NEW k, TodoInv(h), h.todo # <<>>, k.todo = Tail(h.todo),
         DOMAIN k.got = {Head(h.todo)} \cup DOMAIN h.got
  PROVE  /\ Head(h.todo) \in ReadFields
         /\ Head(h.todo) = "ca" => "tls" \in DOMAIN h.got
         /\ TodoInv(k)
  <1> DEFINE s == h.todo
             t == k.todo
  <1>1. s \in Seq(ReadFields) /\ s # <<>> /\ t = Tail(s)
    BY DEF TodoInv
  <1>2. /\ Head(s) \in ReadFields /\ Head(s) = s[1] /\ Len(s) \in Nat \ {0}
        /\ t \in Seq(ReadFields) /\ Len(t) = Len(s) - 1
        /\ \A i \in 1..Len(t) : t[i] = s[i + 1]
    BY <1>1
  <1>3. Head(s) = "ca" => "tls" \in DOMAIN h.got
    <2> SUFFICES ASSUME Head(s) = "ca" PROVE "tls" \in DOMAIN h.got
      OBVIOUS
    <2>0. 1 \in 1..Len(s) /\ s[1] = "ca"
      BY <1>2
    <2>1. Len(s) = 1
      BY <2>0 DEF TodoInv
    <2>2. "tls" \in ReadFields
      BY Constants DEF ReadFields
    <2> QED  BY <1>2, <2>1, <2>2 DEF TodoInv
  <1>5. \A f \in ReadFields \ DOMAIN k.got : \E i \in 1..Len(t) : t[i] = f
    <2> SUFFICES ASSUME NEW f \in ReadFields \ DOMAIN k.got PROVE \E i \in 1..Len(t) : t[i] = f
      OBVIOUS
    <2>1. PICK i \in 1..Len(s) : s[i] = f
      BY DEF TodoInv
    <2>2. i # 1
      BY <2>1, <1>2
    <2>3. i - 1 \in 1..Len(t) /\ t[i - 1] = f
      BY <2>1, <2>2, <1>2
    <2> QED  BY <2>3
  <1>6. \A i \in 1..Len(t) : t[i] = "ca" => i = Len(t)
    <2> SUFFICES ASSUME NEW i \in 1..Len(t), t[i] = "ca" PROVE i = Len(t)
      OBVIOUS
    <2>1. i + 1 \in 1..Len(s) /\ s[i + 1] = "ca"
      BY <1>2
    <2>2. i + 1 = Len(s)
      BY <2>1 DEF TodoInv
    <2> QED  BY <2>2, <1>2
  <1> QED  BY <1>2, <1>3, <1>5, <1>6 DEF TodoInv

\* What a hook has read stays what it keeps, when it caches another secret.
LEMMA GotStays ==
  ASSUME NEW h, NEW k, NEW x \in ReadFields, GotInv(h, x), k.got[x] = h.got[x],
         \A g \in Groups : \/ k.cache[g] = h.cache[g]
                           \/ h.cache[g] = <<>> /\ Uri[g] \in DOMAIN bag["kafka"]
  PROVE  GotInv(k, x)
  <1>1. Group[x] \in Groups
    BY ReadFieldSets, Constants
  <1>2. k.cache[Group[x]] = h.cache[Group[x]]
    BY <1>1 DEF GotInv
  <1>3. ValueOf(k.cache["user"], k.cache["tls"], x) = ValueOf(h.cache["user"], h.cache["tls"], x)
    BY <1>2, ReadFieldSets, Constants, ValueAt DEF ValueOf
  <1> QED  BY <1>2, <1>3 DEF GotInv

LEMMA ReadHolds ==
  ASSUME ClientInv, TypeInv, RestInv, NEW u \in Units, Read(u), "changed" \notin pending[u], related
  PROVE  HoldsInv(hook[u])'
  <1> DEFINE h == hook[u]
             k == hook'[u]
  <1>0. PICK f : f = Head(h.todo)
    OBVIOUS
  <1> DEFINE g == IF Wanted(u, f) THEN GroupOf(f) ELSE {}
             cache == IF g = {} THEN h.cache ELSE Cached(u, Group[f])
             value == IF Wanted(u, f) THEN Field(u, cache, f) ELSE Absent
  <1>1. /\ hook' = [hook EXCEPT ![u].todo = Tail(@), ![u].cache = cache,
                                ![u].got = Over([x \in {f} |-> value], @)]
        /\ h.pc = "run" /\ h.related /\ h.todo # <<>>
        /\ UNCHANGED <<kind, related, bag, secret, since>>
    BY <1>0 DEF Read
  <1>2. /\ SinceInv /\ HoldsInv(h) /\ Shape /\ HookInv(h) /\ kind \in Kinds
        /\ \A x \in Groups : secret[x] \in since[x]
    BY <1>1 DEF RestInv, ClientInv, Shape, TypeInv, TypeOK
  <1>3. /\ k.todo = Tail(h.todo) /\ k.cache = cache /\ k.bag = h.bag
        /\ k.got = Over([x \in {f} |-> value], h.got)
    BY <1>1, <1>2 DEF Shape, HookFields
  <1>4. /\ DOMAIN k.got = {f} \cup DOMAIN h.got /\ k.got[f] = value
        /\ \A x \in DOMAIN h.got \ {f} : k.got[x] = h.got[x]
    BY <1>3 DEF Over
  <1> HIDE DEF cache, value, k
  <1>5. f \in ReadFields /\ (f = "ca" => "tls" \in DOMAIN h.got) /\ TodoInv(k)
    BY <1>0, <1>1, <1>2, <1>3, <1>4, TodoStep DEF HoldsInv
  <1>6. f \in SecretFields /\ GroupOf(f) = {Group[f]} /\ Group[f] \in Groups
    BY <1>5, Constants, ReadFieldSets DEF GroupOf
  <1>7. cache = IF Wanted(u, f) THEN Cached(u, Group[f]) ELSE h.cache
    BY <1>6 DEF cache
  <1>8. Wanted(u, f) <=> (f = "ca" => h.got["tls"] = Enabled)
    BY DEF Wanted
  <1> HIDE DEF g
  <1>9. DOMAIN h.cache = Groups /\ h.bag["kafka"] = bag["kafka"]
    BY <1>2 DEF Shape, HoldsInv
  <1>10. Wanted(u, f) =>
            cache = IF h.cache[Group[f]] = <<>> /\ Uri[Group[f]] \in DOMAIN bag["kafka"]
                    THEN [h.cache EXCEPT ![Group[f]] = secret[Group[f]]] ELSE h.cache
    BY <1>7, <1>9 DEF Cached
  <1>11. Wanted(u, f) => value = FieldIn(cache[Group[f]], f)
    BY <1>1, <1>2, <1>6, FieldOf DEF value, FieldIn
  <1> HIDE DEF h
  <1>12. \A x \in Groups : \/ cache[x] = h.cache[x]
                           \/ /\ h.cache[x] = <<>> /\ Uri[x] \in DOMAIN bag["kafka"]
                              /\ cache[x] = secret[x]
    BY <1>6, <1>7, <1>9, <1>10
  <1>13. \A x \in Groups : cache[x] = <<>> \/ cache[x] \in since[x]
    BY <1>2, <1>12 DEF HoldsInv
  <1>14. \A x \in (DOMAIN h.got \cap ReadFields) \ {f} : GotInv(k, x)
    BY <1>2, <1>3, <1>4, <1>12, GotStays DEF HoldsInv
  <1>15. GotInv(k, f)
    <2>1. CASE Wanted(u, f)
      <3>1. cache[Group[f]] = <<>> => Uri[Group[f]] \notin DOMAIN bag["kafka"]
        <4> SUFFICES ASSUME Uri[Group[f]] \in DOMAIN bag["kafka"] PROVE cache[Group[f]] # <<>>
          OBVIOUS
        <4>1. secret[Group[f]] # <<>>
          <5>1. DOMAIN <<>> = {}
            OBVIOUS
          <5> QED  BY <5>1, <1>2, <1>6 DEF SinceInv
        <4> QED  BY <4>1, <2>1, <1>6, <1>9, <1>10
      <3>2. f = "ca" => FieldIn(cache["tls"], "tls") = Enabled
        <4> SUFFICES ASSUME f = "ca" PROVE FieldIn(cache["tls"], "tls") = Enabled
          OBVIOUS
        <4>1. "tls" \in (DOMAIN h.got \cap ReadFields) \ {f}
          BY <1>5, ReadFieldSets
        <4>2. k.got["tls"] = ValueOf(k.cache["user"], k.cache["tls"], "tls")
          BY <4>1, <1>14 DEF GotInv
        <4>3. k.got["tls"] = FieldIn(cache["tls"], "tls")
          BY <4>2, <1>3, ValueAt
        <4> QED  BY <4>1, <4>3, <1>4, <1>8, <2>1
      <3>3. ValueOf(cache["user"], cache["tls"], f) = FieldIn(cache[Group[f]], f)
        BY <3>2, <1>5, ReadFieldSets, ValueAt, Constants
      <3> QED  BY <3>1, <3>3, <2>1, <1>3, <1>4, <1>11 DEF GotInv
    <2>2. CASE ~Wanted(u, f)
      <3>1. f = "ca" /\ h.got["tls"] # Enabled /\ cache = h.cache /\ value = Absent
        BY <2>2, <1>7, <1>8 DEF value
      <3>2. "tls" \in DOMAIN h.got \cap ReadFields
        BY <3>1, <1>5, ReadFieldSets
      <3>3. GotInv(h, "tls")
        BY <3>2, <1>2 DEF HoldsInv
      <3>4. FieldIn(h.cache["tls"], "tls") # Enabled
            /\ (h.cache["tls"] = <<>> => Uri["tls"] \notin DOMAIN bag["kafka"])
        BY <3>1, <3>3, ValueAt, Constants DEF GotInv
      <3>5. ValueOf(cache["user"], cache["tls"], f) = Absent
        BY <3>1, <3>4, ValueAt
      <3> QED  BY <3>1, <3>4, <3>5, <1>3, <1>4, Constants DEF GotInv
    <2> QED  BY <2>1, <2>2
  <1>16. FieldIn(k.got, "endpoints") = FieldIn(bag["kafka"], "endpoints")
    <2>1. f # "endpoints"
      BY <1>5, ReadFieldSets
    <2>2. FieldIn(k.got, "endpoints") = FieldIn(h.got, "endpoints")
      BY <2>1, <1>4 DEF FieldIn
    <2> QED  BY <2>2, <1>2 DEF HoldsInv
  <1>17. DOMAIN k.got \subseteq {"endpoints"} \cup ReadFields /\ k.bag["kafka"] = bag["kafka"]
    BY <1>2, <1>3, <1>4, <1>5, <1>9 DEF HoldsInv, h
  <1>18. \A x \in DOMAIN k.got \cap ReadFields : GotInv(k, x)
    BY <1>4, <1>14, <1>15
  <1>19. HoldsInv(k)
    BY <1>3, <1>5, <1>13, <1>16, <1>17, <1>18 DEF HoldsInv
  <1>20. (ReadFields' = ReadFields) /\ bag' = bag /\ since' = since
    BY <1>1 DEF ReadFields
  <1> QED  BY <1>19, <1>20 DEF HoldsInv, GotInv, ValueOf, FieldIn, TodoInv, k

\* A publication that leaves the databag as it was gives secrets another revision, and
\* one that changes it makes every unit write its file again.
LEMMA PublishRest ==
  ASSUME ClientInv, TypeInv, RestInv, NEW data, Publish(data),
         DOMAIN data \subseteq SecretFields \cup {"endpoints"}
  PROVE  /\ SinceInv'
         /\ \A u \in Units : pending[u] \subseteq pending'[u]
         /\ \/ bag'["kafka"] = bag["kafka"] /\ \A g \in Groups : since[g] \subseteq since'[g]
            \/ \A u \in Units : "changed" \in pending'[u]
  <1> DEFINE w      == [bag |-> bag, secret |-> secret]
             v      == Update(Provider, w, data)
             sought == AsSecrets(Provider, w, Provider.local, DOMAIN data)
             named  == GroupsOf(Provider, sought) \cap DOMAIN Uri
             new(g) == Only(data, {f \in sought : Group[f] = g})
  <1>1. /\ ~Premature(data) /\ bag' = v.bag /\ secret' = v.secret /\ Notify(v)
        /\ since' = [g \in Groups |-> {v.secret[g]}
               \cup (IF v.bag["kafka"] = bag["kafka"] THEN since[g] ELSE {})]
    BY DEF Publish
  <1>2. SinceInv /\ \A g \in Groups : secret[g] \in since[g]
    BY DEF RestInv, TypeInv, TypeOK
  <1>3. sought = DOMAIN data \cap SecretFields
    BY <1>1, PublishedFields DEF ClientInv
  <1>4. Provider.component = "kafka" /\ Provider.group = Group /\ Provider.uri = Uri
    BY DEF Provider
  <1>5. /\ v.bag = [bag EXCEPT !["kafka"] =
                      Over(Drop(data, sought),
                           Over([f \in {Uri[g] : g \in named} |-> f], bag["kafka"]))]
        /\ \A g \in Groups : v.secret[g] = Over(new(g), secret[g])
    BY <1>4 DEF Update, ClientInv, Shape
  <1>6. v.bag["kafka"] = Over(Drop(data, sought),
                              Over([f \in {Uri[g] : g \in named} |-> f], bag["kafka"]))
    BY <1>5 DEF ClientInv, Shape
  <1> HIDE DEF sought, v
  <1>7. \A g \in Groups : DOMAIN new(g) = {f \in DOMAIN data \cap SecretFields : Group[f] = g}
    BY <1>3 DEF Only
  <1> HIDE DEF new
  <1>8. \A g \in Groups : g \in named <=> DOMAIN new(g) # {}
    BY <1>3, <1>4, <1>7, Constants DEF GroupsOf
  <1>9. DOMAIN v.bag["kafka"]
           = (DOMAIN data \ SecretFields) \cup {Uri[g] : g \in named} \cup DOMAIN bag["kafka"]
    BY <1>3, <1>6 DEF Drop, Over
  <1>10. \A g \in Groups : Uri[g] \in DOMAIN v.bag["kafka"] <=>
                              (DOMAIN new(g) # {} \/ Uri[g] \in DOMAIN bag["kafka"])
    <2>1. \A g \in Groups : Uri[g] \notin SecretFields \cup {"endpoints"}
          /\ \A x \in Groups : Uri[x] = Uri[g] => x = g
      BY Constants
    <2>2. named \subseteq Groups
      BY Constants
    <2> HIDE DEF named
    <2> QED  BY <1>8, <1>9, <2>1, <2>2
  <1>11. ASSUME NEW g \in Groups
         PROVE  /\ DOMAIN v.secret[g] \subseteq SecretFields
                /\ \A f \in DOMAIN v.secret[g] : Group[f] = g
                /\ \/ v.secret[g] = <<>> /\ Uri[g] \notin DOMAIN v.bag["kafka"]
                   \/ DOMAIN v.secret[g] # {} /\ Uri[g] \in DOMAIN v.bag["kafka"]
    <2>0. DOMAIN <<>> = {}
      OBVIOUS
    <2>1. /\ DOMAIN secret[g] \subseteq SecretFields /\ \A f \in DOMAIN secret[g] : Group[f] = g
          /\ \/ secret[g] = <<>> /\ Uri[g] \notin DOMAIN bag["kafka"]
             \/ DOMAIN secret[g] # {} /\ Uri[g] \in DOMAIN bag["kafka"]
      BY <1>2, <1>11 DEF SinceInv
    <2>2. /\ DOMAIN v.secret[g] = DOMAIN new(g) \cup DOMAIN secret[g]
          /\ v.secret[g] = [f \in DOMAIN v.secret[g] |-> v.secret[g][f]]
      BY <1>5, <1>11 DEF Over
    <2>3. DOMAIN v.secret[g] = {} => v.secret[g] = <<>>
      BY <2>2, NoFields
    <2>4. DOMAIN new(g) \subseteq SecretFields /\ \A f \in DOMAIN new(g) : Group[f] = g
      BY <1>7, <1>11
    <2> QED  BY <2>0, <2>1, <2>2, <2>3, <2>4, <1>10, <1>11
  <1>12. ASSUME NEW g \in Groups, NEW s \in since'[g]
         PROVE  /\ DOMAIN s \subseteq SecretFields /\ \A f \in DOMAIN s : Group[f] = g
                /\ \/ s = <<>> /\ Uri[g] \notin DOMAIN bag'["kafka"]
                   \/ DOMAIN s # {} /\ Uri[g] \in DOMAIN bag'["kafka"]
    <2>1. CASE s = v.secret[g]
      BY <2>1, <1>1, <1>11
    <2>2. CASE v.bag["kafka"] = bag["kafka"] /\ s \in since[g]
      BY <2>2, <1>1, <1>2 DEF SinceInv
    <2>3. s \in {v.secret[g]} \cup (IF v.bag["kafka"] = bag["kafka"] THEN since[g] ELSE {})
      BY <1>1, <1>12
    <2> QED  BY <2>1, <2>2, <2>3
  <1>13. SinceInv'
    BY <1>12 DEF SinceInv
  <1>14. \A u \in Units : /\ pending[u] \subseteq pending'[u]
                          /\ v.bag["kafka"] # bag["kafka"] => "changed" \in pending'[u]
    BY <1>1 DEF Notify
  <1>15. v.bag["kafka"] = bag["kafka"] => \A g \in Groups : since[g] \subseteq since'[g]
    BY <1>1
  <1> QED  BY <1>1, <1>6, <1>13, <1>14, <1>15

\* What is said of a hook and of a file depends on the kind of the relation, on the
\* databag of the provider, and on revisions that are not forgotten.
LEMMA HoldsStays ==
  ASSUME NEW u, HoldsInv(hook[u]), hook'[u] = hook[u], kind' = kind,
         bag'["kafka"] = bag["kafka"], \A g \in Groups : since[g] \subseteq since'[g]
  PROVE  HoldsInv(hook[u])'
  <1>1. ReadFields' = ReadFields
    BY DEF ReadFields
  <1>2. TodoInv(hook[u])'
    BY <1>1 DEF HoldsInv, TodoInv
  <1>3. \A f \in DOMAIN hook'[u].got \cap ReadFields' : GotInv(hook[u], f)'
    BY <1>1 DEF HoldsInv, GotInv, ValueOf, FieldIn
  <1>4. \A g \in Groups : hook'[u].cache[g] = <<>> \/ hook'[u].cache[g] \in since'[g]
    BY DEF HoldsInv
  <1>5. FieldIn(hook[u].got, "endpoints")' = FieldIn(bag["kafka"], "endpoints")'
    BY DEF HoldsInv, FieldIn
  <1>6. hook'[u].bag["kafka"] = bag'["kafka"]
        /\ DOMAIN hook'[u].got \subseteq {"endpoints"} \cup ReadFields'
    BY <1>1 DEF HoldsInv
  <1> QED  BY <1>2, <1>3, <1>4, <1>5, <1>6 DEF HoldsInv

LEMMA FileStays ==
  ASSUME NEW u, kind' = kind, bag'["kafka"] = bag["kafka"], conf'[u] = conf[u],
         \A g \in Groups : since[g] \subseteq since'[g],
         \E user \in since["user"], tls \in since["tls"] : FileSays(conf[u], user, tls)
  PROVE  (\E user \in since["user"], tls \in since["tls"] : FileSays(conf[u], user, tls))'
  <1>1. ReadFields' = ReadFields
    BY DEF ReadFields
  <1>2. PICK user \in since["user"], tls \in since["tls"] : FileSays(conf[u], user, tls)
    OBVIOUS
  <1>3. user \in since'["user"] /\ tls \in since'["tls"]
    BY <1>2, Constants
  <1>4. (conf'[u])["endpoints"] = FieldIn(bag'["kafka"], "endpoints")
    BY <1>2 DEF FileSays, FieldIn
  <1>5. \A f \in ReadFields : (conf'[u])[f] = ValueOf(user, tls, f)
    BY <1>2 DEF FileSays
  <1>6. "username" \notin ReadFields => (conf'[u])["username"] = Absent
    BY <1>2 DEF FileSays
  <1> QED  BY <1>1, <1>3, <1>4, <1>5, <1>6 DEF FileSays, ValueOf, FieldIn

\* How RestInv goes over steps that leave databag, hooks and files alone.
LEMMA RestStays ==
  ASSUME RestInv, UNCHANGED <<kind, related, since, hook, conf>>,
         bag'["kafka"] = bag["kafka"],
         \A u \in Units : pending'[u] \cap {"changed", "broken"} = pending[u] \cap {"changed", "broken"}
  PROVE  RestInv'
  <1>1. SinceInv'
    BY DEF RestInv, SinceInv
  <1>2. ASSUME NEW u \in Units, hook'[u].pc = "run"
        PROVE  (/\ hook[u].related = related
                /\ ~related => DOMAIN hook[u].got = {}
                /\ related /\ "changed" \notin pending[u] => HoldsInv(hook[u]))'
    <2>1. related /\ "changed" \notin pending'[u] => HoldsInv(hook[u])
      BY <1>2 DEF RestInv
    <2>2. HoldsInv(hook[u]) => HoldsInv(hook[u])'
      BY HoldsStays
    <2> QED  BY <1>2, <2>1, <2>2 DEF RestInv
  <1>3. ASSUME NEW u \in Units, ~Rewrites(u)'
        PROVE  (\E user \in since["user"], tls \in since["tls"] : FileSays(conf[u], user, tls))'
    <2>1. ~Rewrites(u)
      BY <1>3 DEF Rewrites
    <2> QED  BY <2>1, FileStays DEF RestInv
  <1> QED  BY <1>1, <1>2, <1>3 DEF RestInv

LEMMA CreatedRest ==
  ASSUME ClientInv, TypeInv, RestInv, NEW u \in Units, RelationCreated(u) \/ SecretChanged(u)
  PROVE  RestInv'
  <1>1. /\ UNCHANGED <<kind, related, since, hook, conf>>
        /\ bag'["kafka"] = bag["kafka"]
    BY DEF RelationCreated, SecretChanged, ClientInv, Shape
  <1>2. \A x \in Units :
           pending'[x] \cap {"changed", "broken"} = pending[x] \cap {"changed", "broken"}
    BY DEF RelationCreated, SecretChanged, TypeInv, TypeOK
  <1> QED  BY <1>1, <1>2, RestStays

LEMMA MovesRest ==
  ASSUME ClientInv, TypeInv, RestInv, ProviderChanged \/ LeaderMoves
  PROVE  RestInv'
  <1>1. UNCHANGED <<kind, related, since, hook, conf, bag, pending>>
    BY DEF ProviderChanged, LeaderMoves
  <1> QED  BY <1>1, RestStays

LEMMA PublishedRest == ASSUME ClientInv, TypeInv, RestInv, ProviderPublishes PROVE RestInv'
  <1>1. PICK data : /\ Publish(data)
                    /\ DOMAIN data \subseteq SecretFields \cup {"endpoints"}
    BY PublishedData
  <1>2. related /\ UNCHANGED <<kind, related, hook, conf>>
    BY <1>1 DEF Publish
  <1>3. /\ SinceInv'
        /\ \A u \in Units : pending[u] \subseteq pending'[u]
        /\ \/ bag'["kafka"] = bag["kafka"] /\ \A g \in Groups : since[g] \subseteq since'[g]
           \/ \A u \in Units : "changed" \in pending'[u]
    BY <1>1, PublishRest
  <1>4. ASSUME NEW u \in Units, hook'[u].pc = "run"
        PROVE  (/\ hook[u].related = related
                /\ ~related => DOMAIN hook[u].got = {}
                /\ related /\ "changed" \notin pending[u] => HoldsInv(hook[u]))'
    <2>1. ASSUME "changed" \notin pending'[u] PROVE HoldsInv(hook[u])'
      <3>1. HoldsInv(hook[u])
        BY <1>2, <1>3, <1>4, <2>1 DEF RestInv
      <3>2. bag'["kafka"] = bag["kafka"] /\ \A g \in Groups : since[g] \subseteq since'[g]
        BY <1>3, <2>1
      <3> QED  BY <1>2, <3>1, <3>2, HoldsStays
    <2> QED  BY <1>2, <1>4, <2>1 DEF RestInv
  <1>5. ASSUME NEW u \in Units, ~Rewrites(u)'
        PROVE  (\E user \in since["user"], tls \in since["tls"] : FileSays(conf[u], user, tls))'
    <2>1. ~Rewrites(u) /\ "changed" \notin pending'[u]
      BY <1>2, <1>3, <1>5 DEF Rewrites
    <2>2. bag'["kafka"] = bag["kafka"] /\ \A g \in Groups : since[g] \subseteq since'[g]
      BY <1>3, <2>1
    <2> QED  BY <1>2, <2>1, <2>2, FileStays DEF RestInv
  <1> QED  BY <1>3, <1>4, <1>5 DEF RestInv

LEMMA ReadsKnown ==
  ASSUME kind \in Kinds
  PROVE  /\ Reads[kind] \in Seq(ReadFields)
         /\ \A f \in ReadFields : \E i \in 1..Len(Reads[kind]) : Reads[kind][i] = f
         /\ \A i \in 1..Len(Reads[kind]) : Reads[kind][i] = "ca" => i = Len(Reads[kind])
  <1>1. CASE kind = "kafka"
    <2>1. ReadFields = {"username", "password", "tls", "ca"}
      BY <1>1, Constants DEF ReadFields
    <2>2. Reads[kind] = <<"tls", "username", "password", "ca">>
      BY <1>1 DEF Reads
    <2> QED  BY <2>1, <2>2
  <1>2. CASE kind \in {"connect", "karapace"}
    <2>1. ReadFields = {"password", "tls", "ca"}
      BY <1>2, Constants DEF ReadFields
    <2>2. Reads[kind] = <<"password", "tls", "ca">>
      BY <1>2 DEF Reads
    <2> QED  BY <2>1, <2>2
  <1> QED  BY <1>1, <1>2, KindsAssumption

LEMMA StartRest ==
  ASSUME ClientInv, TypeInv, RestInv, NEW u \in Units, NEW e \in Events, Start(u, e)
  PROVE  RestInv'
  <1> DEFINE h == [Idle EXCEPT !.pc = "run", !.event = e, !.related = related,
                               !.leads = (u = leader), !.bag = bag, !.todo = Reads[kind],
                               !.got = Only(bag["kafka"], {"endpoints"})]
  <1>1. /\ hook' = [hook EXCEPT ![u] = h] /\ pending' = [pending EXCEPT ![u] = @ \ {e}]
        /\ AllIdle /\ UNCHANGED <<kind, related, bag, since, conf>>
    BY DEF Start
  <1>2. /\ h.event = e /\ h.cache = [g \in Groups |-> <<>>] /\ h.todo = Reads[kind]
        /\ h.pc = "run" /\ h.related = related /\ h.bag = bag
        /\ h.got = Only(bag["kafka"], {"endpoints"})
    BY DEF Idle
  <1> HIDE DEF h
  <1>3. hook'[u] = h /\ (\A x \in Units \ {u} : hook'[x] = hook[x])
    BY <1>1 DEF ClientInv, Shape
  <1>4. /\ pending'[u] = pending[u] \ {e}
        /\ \A x \in Units \ {u} : pending'[x] = pending[x]
    BY <1>1 DEF TypeInv, TypeOK
  <1>5. ReadFields' = ReadFields /\ SinceInv'
    BY <1>1 DEF ReadFields, RestInv, SinceInv
  <1>6. kind \in Kinds
    BY DEF ClientInv, Shape
  <1>7. DOMAIN h.got = DOMAIN bag["kafka"] \cap {"endpoints"}
        /\ FieldIn(h.got, "endpoints") = FieldIn(bag["kafka"], "endpoints")
    BY <1>2 DEF Only, FieldIn
  <1>8. HoldsInv(h)
    <2>1. TodoInv(h)
      BY <1>2, <1>6, ReadsKnown DEF TodoInv
    <2>2. DOMAIN h.got \cap ReadFields = {}
      BY <1>7, ReadFieldSets
    <2>3. DOMAIN h.got \subseteq {"endpoints"} \cup ReadFields
      BY <1>7
    <2> QED  BY <1>2, <1>7, <2>1, <2>2, <2>3 DEF HoldsInv
  <1>9. HoldsInv(hook[u])'
    BY <1>1, <1>3, <1>5, <1>8 DEF HoldsInv, GotInv, ValueOf, FieldIn, TodoInv
  <1>10. ~related => DOMAIN h.got = {}
    BY <1>7 DEF ClientInv
  <1>11. ASSUME NEW x \in Units, hook'[x].pc = "run"
         PROVE  (/\ hook[x].related = related
                 /\ ~related => DOMAIN hook[x].got = {}
                 /\ related /\ "changed" \notin pending[x] => HoldsInv(hook[x]))'
    <2>1. x = u
      BY <1>1, <1>3, <1>11 DEF AllIdle
    <2> QED  BY <2>1, <1>1, <1>2, <1>3, <1>9, <1>10
  <1>12. ASSUME NEW x \in Units, ~Rewrites(x)'
         PROVE  (\E user \in since["user"], tls \in since["tls"] : FileSays(conf[x], user, tls))'
    <2>1. ~Rewrites(x)
      BY <1>12, <1>1, <1>2, <1>3, <1>4 DEF Rewrites, AllIdle
    <2> QED  BY <1>1, <2>1, FileStays DEF RestInv
  <1> QED  BY <1>5, <1>11, <1>12 DEF RestInv

LEMMA ReadRest ==
  ASSUME ClientInv, TypeInv, RestInv, NEW u \in Units, Read(u)
  PROVE  RestInv'
  <1>1. /\ hook[u].pc = "run" /\ hook[u].related
        /\ UNCHANGED <<kind, related, bag, since, pending, conf>>
    BY DEF Read
  <1>2. related
    BY <1>1 DEF RestInv
  <1>3. /\ \A x \in Units \ {u} : hook'[x] = hook[x]
        /\ hook'[u].pc = hook[u].pc /\ hook'[u].event = hook[u].event
        /\ hook'[u].related = hook[u].related
    <2>1. DOMAIN hook = Units /\ DOMAIN hook[u] = HookFields
      BY DEF ClientInv, Shape
    <2>2. PICK a, b, c : hook' = [hook EXCEPT ![u].todo = a, ![u].cache = b, ![u].got = c]
      BY DEF Read
    <2> QED  BY <2>1, <2>2 DEF HookFields
  <1>4. SinceInv'
    BY <1>1 DEF RestInv, SinceInv
  <1>5. ASSUME NEW x \in Units, hook'[x].pc = "run", "changed" \notin pending'[x]
        PROVE  HoldsInv(hook[x])'
    <2>1. CASE x = u
      BY <2>1, <1>1, <1>2, <1>5, ReadHolds
    <2>2. CASE x # u
      <3>1. hook'[x] = hook[x] /\ HoldsInv(hook[x])
        BY <2>2, <1>1, <1>2, <1>3, <1>5 DEF RestInv
      <3> QED  BY <1>1, <3>1, HoldsStays
    <2> QED  BY <2>1, <2>2
  <1>6. ASSUME NEW x \in Units, hook'[x].pc = "run"
        PROVE  (/\ hook[x].related = related
                /\ ~related => DOMAIN hook[x].got = {}
                /\ related /\ "changed" \notin pending[x] => HoldsInv(hook[x]))'
    BY <1>1, <1>2, <1>3, <1>5, <1>6 DEF RestInv
  <1>7. ASSUME NEW x \in Units, ~Rewrites(x)'
        PROVE  (\E user \in since["user"], tls \in since["tls"] : FileSays(conf[x], user, tls))'
    <2>1. ~Rewrites(x)
      BY <1>1, <1>3, <1>7 DEF Rewrites
    <2> QED  BY <1>1, <2>1, FileStays DEF RestInv
  <1> QED  BY <1>4, <1>6, <1>7 DEF RestInv

\* What a hook that has read all writes, if no change of the databag came up: what it
\* kept of a secret, and of one that was not there nothing.
LEMMA WrittenSays ==
  ASSUME ClientInv, TypeInv, RestInv, NEW u \in Units, hook[u].pc = "run",
         hook[u].related => hook[u].todo = <<>>, related => "changed" \notin pending[u]
  PROVE  \E user \in since["user"], tls \in since["tls"] :
            FileSays(Over(hook[u].got, Nothing), user, tls)
  <1> DEFINE h == hook[u]
             new == Over(h.got, Nothing)
  <1>1. /\ h.related = related /\ (~related => DOMAIN h.got = {})
        /\ (related => HoldsInv(h)) /\ SinceInv
        /\ \A g \in Groups : secret[g] \in since[g]
    BY DEF RestInv, TypeInv, TypeOK
  <1>2. ConfFields = {"endpoints", "username", "password", "tls", "ca"}
    BY Constants DEF ConfFields
  <1>3. \A f \in ConfFields : new[f] = FieldIn(h.got, f)
    BY DEF Over, Nothing, FieldIn
  <1> HIDE DEF new
  <1>4. DOMAIN <<>> = {}
    OBVIOUS
  <1>5. CASE ~related
    <2>1. DOMAIN bag["kafka"] = {}
      BY <1>5 DEF ClientInv
    <2>2. secret["user"] = <<>> /\ secret["tls"] = <<>>
      BY <1>1, <2>1, Constants DEF SinceInv
    <2>3. \A f \in ConfFields : new[f] = Absent
      BY <1>1, <1>3, <1>5 DEF FieldIn
    <2>4. \A f \in ReadFields : ValueOf(<<>>, <<>>, f) = Absent
      BY <1>4, ReadFieldSets DEF ValueOf, FieldIn
    <2>5. FileSays(new, <<>>, <<>>)
      BY <1>2, <2>1, <2>3, <2>4, ReadFieldSets DEF FileSays, FieldIn
    <2> QED  BY <1>1, <2>2, <2>5, Constants DEF new
  <1>6. CASE related
    <2>1. h.todo = <<>> /\ Len(<<>>) = 0
      BY <1>1, <1>6
    <2> HIDE DEF h
    <2>2. HoldsInv(h)
      BY <1>1, <1>6
    <2>3. ReadFields \subseteq DOMAIN h.got
      BY <2>1, <2>2 DEF HoldsInv, TodoInv
    <2>4. \A f \in ReadFields : GotInv(h, f)
      BY <2>2, <2>3 DEF HoldsInv
    <2> DEFINE kept(g) == IF h.cache[g] = <<>> THEN secret[g] ELSE h.cache[g]
    <2>5. ASSUME NEW g \in Groups
          PROVE  /\ kept(g) \in since[g]
                 /\ \A f : FieldIn(kept(g), f) = FieldIn(h.cache[g], f)
      <3>1. CASE h.cache[g] # <<>>
        BY <2>2, <2>5, <3>1 DEF HoldsInv
      <3>2. CASE h.cache[g] = <<>>
        <4>1. PICK f \in ReadFields : Group[f] = g
          BY <2>5, ReadFieldSets, Constants
        <4>2. Uri[g] \notin DOMAIN bag["kafka"]
          BY <2>4, <3>2, <4>1 DEF GotInv
        <4>3. secret[g] = <<>>
          BY <1>1, <2>5, <4>2 DEF SinceInv
        <4> QED  BY <1>1, <2>5, <3>2, <4>3
      <3> QED  BY <3>1, <3>2
    <2> HIDE DEF kept
    <2>6. \A f \in ReadFields :
             ValueOf(kept("user"), kept("tls"), f) = ValueOf(h.cache["user"], h.cache["tls"], f)
      BY <2>5, Constants DEF ValueOf
    <2>7. \A f \in ReadFields : new[f] = ValueOf(kept("user"), kept("tls"), f)
      <3> SUFFICES ASSUME NEW f \in ReadFields
                   PROVE  new[f] = ValueOf(kept("user"), kept("tls"), f)
        OBVIOUS
      <3>1. new[f] = h.got[f]
        BY <1>2, <1>3, <2>3, ReadFieldSets DEF FieldIn
      <3> QED  BY <2>4, <2>6, <3>1 DEF GotInv
    <2>8. new["endpoints"] = FieldIn(bag["kafka"], "endpoints")
      BY <1>2, <1>3, <2>2 DEF HoldsInv
    <2>9. "username" \notin ReadFields => new["username"] = Absent
      <3>1. "username" \notin ReadFields => "username" \notin DOMAIN h.got
        BY <2>2 DEF HoldsInv
      <3> QED  BY <1>2, <1>3, <3>1 DEF FieldIn
    <2>10. FileSays(new, kept("user"), kept("tls"))
      BY <2>7, <2>8, <2>9 DEF FileSays
    <2> QED  BY <2>5, <2>10, Constants DEF new, h
  <1> QED  BY <1>1, <1>5, <1>6 DEF ClientInv, Shape

LEMMA EndRest ==
  ASSUME ClientInv, TypeInv, QueueInv, RestInv, NEW u \in Units, Finish(u) \/ Fail(u)
  PROVE  RestInv'
  <1>1. /\ hook[u].pc = "run" /\ (hook[u].related => hook[u].todo = <<>>)
        /\ hook' = [hook EXCEPT ![u] = Idle]
        /\ conf' = [conf EXCEPT ![u] = Over(hook[u].got, Nothing)] \/ (conf' = conf /\ Fail(u))
        /\ UNCHANGED <<kind, related, bag, since>>
    BY DEF Finish, Fail, Write
  <1>2. /\ hook'[u].pc # "run" /\ \A x \in Units \ {u} : hook'[x] = hook[x] /\ conf'[x] = conf[x]
        /\ conf'[u] = Over(hook[u].got, Nothing) \/ (conf'[u] = conf[u] /\ Fail(u))
    BY <1>1 DEF ClientInv, Shape, Idle
  <1>3. /\ \A x \in Units \ {u} : pending'[x] = pending[x]
        /\ pending[u] \subseteq pending'[u]
        /\ Fail(u) => pending'[u] = pending[u] \cup
               ({hook[u].event} \cap (IF related THEN {"changed"} ELSE {"broken"}))
    <2>1. CASE Finish(u)
      <3>1. UNCHANGED pending /\ ~Fail(u)
        <4>1. faults' = faults
          BY <2>1 DEF Finish, boundVars
        <4>2. Fail(u) => faults' = faults + 1 /\ faults \in Nat
          BY BoundsAssumption DEF Fail, TypeInv, TypeOK
        <4> QED  BY <2>1, <4>1, <4>2 DEF Finish
      <3> QED  BY <3>1
    <2>2. CASE Fail(u)
      BY <2>2 DEF Fail, TypeInv, TypeOK
    <2> QED  BY <2>1, <2>2
  <1>4. ReadFields' = ReadFields /\ SinceInv'
    BY <1>1 DEF ReadFields, RestInv, SinceInv
  <1>5. ASSUME NEW x \in Units, hook'[x].pc = "run"
        PROVE  (/\ hook[x].related = related
                /\ ~related => DOMAIN hook[x].got = {}
                /\ related /\ "changed" \notin pending[x] => HoldsInv(hook[x]))'
    <2>1. x # u /\ hook'[x] = hook[x] /\ pending'[x] = pending[x]
      BY <1>2, <1>3, <1>5
    <2>2. HoldsInv(hook[x]) => HoldsInv(hook[x])'
      BY <1>1, <2>1, HoldsStays
    <2> QED  BY <1>1, <1>5, <2>1, <2>2 DEF RestInv
  <1>6. ASSUME NEW x \in Units, ~Rewrites(x)'
        PROVE  (\E user \in since["user"], tls \in since["tls"] : FileSays(conf[x], user, tls))'
    <2>1. \E user \in since["user"], tls \in since["tls"] : FileSays(conf'[x], user, tls)
      <3>1. CASE x # u
        <4>1. ~Rewrites(x)
          BY <1>2, <1>3, <1>6, <3>1 DEF Rewrites
        <4> QED  BY <1>2, <3>1, <4>1 DEF RestInv
      <3>2. CASE x = u
        <4>1. "changed" \notin pending[u] /\ "broken" \notin pending[u]
          BY <1>3, <1>6, <3>2 DEF Rewrites
        <4>2. CASE conf'[u] = Over(hook[u].got, Nothing)
          BY <1>1, <3>2, <4>1, <4>2, WrittenSays
        <4>3. CASE conf'[u] = conf[u] /\ Fail(u)
          <5>1. hook[u].event \notin (IF related THEN {"changed"} ELSE {"broken"})
            BY <1>3, <1>6, <3>2, <4>3 DEF Rewrites
          <5>2. hook[u].event \notin {"changed", "broken"}
            BY <1>1, <5>1 DEF QueueInv, Fits
          <5> QED  BY <3>2, <4>1, <4>3, <5>2 DEF RestInv, Rewrites
        <4> QED  BY <1>2, <4>2, <4>3
      <3> QED  BY <3>1, <3>2
    <2> QED  BY <1>1, <1>4, <2>1 DEF FileSays, ValueOf, FieldIn
  <1> QED  BY <1>4, <1>5, <1>6 DEF RestInv

LEMMA RemoveRest == ASSUME ClientInv, TypeInv, RestInv, Remove PROVE RestInv'
  <1>1. /\ AllIdle /\ ~related' /\ UNCHANGED <<kind, hook, conf>>
        /\ bag' = [c \in {"ui", "kafka"} |-> <<>>] /\ since' = [g \in Groups |-> {<<>>}]
        /\ pending' = [u \in Units |-> {"broken"}]
    BY DEF Remove
  <1>2. DOMAIN <<>> = {}
    OBVIOUS
  <1>3. SinceInv'
    BY <1>1, <1>2, Constants DEF SinceInv
  <1>4. \A u \in Units : hook'[u].pc # "run" /\ Rewrites(u)'
    BY <1>1 DEF AllIdle, Rewrites
  <1> QED  BY <1>3, <1>4 DEF RestInv

LEMMA QueueStep == ClientInv /\ TypeInv /\ QueueInv /\ [Next]_vars => QueueInv'
  <1> SUFFICES ASSUME ClientInv, TypeInv, QueueInv, [Next]_vars PROVE QueueInv'
    OBVIOUS
  <1>1. DOMAIN hook = Units /\ pending \in [Units -> SUBSET (Events \ {"status"})]
        /\ \A u \in Units : DOMAIN hook[u] = HookFields
    BY DEF ClientInv, Shape, TypeInv, TypeOK
  <1>2. ASSUME NEW u \in Units, HookStep(u) \/ Fail(u) PROVE QueueInv'
    <2>1. CASE RelationCreated(u) \/ SecretChanged(u)
      <3>1. related' = related /\ hook' = hook /\ \A x \in Units : pending'[x] \subseteq pending[x]
        BY <2>1, <1>1 DEF RelationCreated, SecretChanged
      <3> QED  BY <3>1 DEF QueueInv, Fits
    <2>2. CASE \E e \in Events : Start(u, e)
      <3>1. PICK e \in Events : Start(u, e)
        BY <2>2
      <3>2. /\ related' = related /\ \A x \in Units : pending'[x] \subseteq pending[x]
            /\ \A x \in Units \ {u} : hook'[x] = hook[x]
            /\ hook'[u].event = e /\ (e \in pending[u] \/ e = "status")
        BY <3>1, <1>1 DEF Start, Idle
      <3> QED  BY <3>2 DEF QueueInv, Fits
    <2>3. CASE Read(u)
      <3>1. PICK a, b, c : hook' = [hook EXCEPT ![u].todo = a, ![u].cache = b, ![u].got = c]
        BY <2>3 DEF Read
      <3>2. /\ \A x \in Units \ {u} : hook'[x] = hook[x]
            /\ hook'[u].pc = hook[u].pc /\ hook'[u].event = hook[u].event
        BY <3>1, <1>1 DEF HookFields
      <3>3. UNCHANGED <<related, pending>>
        BY <2>3 DEF Read
      <3> QED  BY <3>2, <3>3 DEF QueueInv, Fits
    <2>4. CASE Finish(u) \/ Fail(u)
      <3>1. /\ related' = related /\ hook' = [hook EXCEPT ![u] = Idle]
            /\ \A x \in Units : pending'[x] \subseteq
                   pending[x] \cup (IF related THEN {"changed"} ELSE {"broken"})
        BY <2>4, <1>1 DEF Finish, Fail, Write
      <3>2. hook'[u].pc # "run" /\ \A x \in Units \ {u} : hook'[x] = hook[x]
        BY <3>1, <1>1 DEF Idle
      <3> QED  BY <3>1, <3>2 DEF QueueInv, Fits
    <2> QED  BY <1>2, <2>1, <2>2, <2>3, <2>4 DEF HookStep
  <1>3. CASE ProviderPublishes
    <2>1. PICK data : Publish(data)
      BY <1>3, PublishedData
    <2>2. /\ related /\ related' = related /\ hook' = hook
          /\ \A u \in Units : pending'[u] \subseteq pending[u] \cup {"changed", "secret"}
      BY <2>1, <1>1 DEF Publish, Notify
    <2> QED  BY <2>2 DEF QueueInv, Fits
  <1>4. CASE ProviderChanged \/ LeaderMoves \/ UNCHANGED vars
    <2>1. UNCHANGED <<related, hook, pending>>
      BY <1>4 DEF ProviderChanged, LeaderMoves, vars
    <2> QED  BY <2>1 DEF QueueInv, Fits
  <1>5. CASE Remove
    BY <1>5 DEF Remove, AllIdle, QueueInv, Fits
  <1> QED  BY <1>2, <1>3, <1>4, <1>5 DEF Next

LEMMA RestStep == ClientInv /\ TypeInv /\ QueueInv /\ RestInv /\ [Next]_vars => RestInv'
  <1> SUFFICES ASSUME ClientInv, TypeInv, QueueInv, RestInv, [Next]_vars PROVE RestInv'
    OBVIOUS
  <1>1. ASSUME NEW u \in Units, HookStep(u) \/ Fail(u) PROVE RestInv'
    BY <1>1, CreatedRest, StartRest, ReadRest, EndRest DEF HookStep
  <1>2. CASE UNCHANGED vars
    BY <1>2, RestStays DEF vars
  <1> QED  BY <1>1, <1>2, PublishedRest, MovesRest, RemoveRest DEF Next

LEMMA InitRest == Init => QueueInv /\ RestInv
  <1> SUFFICES ASSUME Init PROVE QueueInv /\ RestInv
    OBVIOUS
  <1>1. DOMAIN <<>> = {}
    OBVIOUS
  <1>2. SinceInv
    BY <1>1, Constants DEF Init, SinceInv
  <1>3. \A u \in Units : hook[u].pc # "run" /\ pending[u] = {"created"}
    BY DEF Init, Idle
  <1>4. \A u \in Units : FileSays(conf[u], <<>>, <<>>)
    <2>1. \A f \in ReadFields : ValueOf(<<>>, <<>>, f) = Absent
      BY <1>1, ReadFieldSets DEF ValueOf, FieldIn
    <2>2. FileSays(Nothing, <<>>, <<>>)
      BY <1>1, <2>1, ReadFieldSets, Constants DEF Init, FileSays, FieldIn, Nothing, ConfFields
    <2> QED  BY <2>2 DEF Init
  <1>5. <<>> \in since["user"] /\ <<>> \in since["tls"]
    BY Constants DEF Init
  <1> QED  BY <1>2, <1>3, <1>4, <1>5 DEF RestInv, QueueInv, Fits

LEMMA RestInvariant == Spec => [](TypeInv /\ QueueInv /\ RestInv)
  <1>1. Spec => []TypeInv
    BY InitTypes, TypeStep, ClientInvariant, PTL DEF Spec
  <1> QED  BY <1>1, InitRest, QueueStep, RestStep, ClientInvariant, PTL DEF Spec

\* Whatever the provider publishes while hooks read and die, and wherever the lead
\* goes: a unit with no hook to run says of the relation what the databag says, with
\* each of the two secrets wholly in one revision that it has had since the databag
\* last changed, and nothing when the relation is gone.  (Nobody handles secret-changed,
\* so that it need not be the newest revision, ProviderData.set_tls_ca.)
THEOREM RestPublished == Spec => []RestIsAsPublished
  <1>1. ASSUME ClientInv, TypeInv, RestInv PROVE RestIsAsPublished
    <2> SUFFICES ASSUME NEW u \in Units, ~Due(u)
                 PROVE  \E user \in since["user"], tls \in since["tls"] :
                            conf[u] = AsRead(user, tls)
      BY DEF RestIsAsPublished
    <2>1. ~Rewrites(u)
      BY DEF Due, Rewrites
    <2>2. PICK user \in since["user"], tls \in since["tls"] : FileSays(conf[u], user, tls)
      BY <1>1, <2>1 DEF RestInv
    <2>3. /\ DOMAIN user \subseteq {"username", "password"}
          /\ DOMAIN tls \subseteq {"tls", "ca"}
      <3>1. /\ DOMAIN user \subseteq SecretFields /\ \A f \in DOMAIN user : Group[f] = "user"
            /\ DOMAIN tls \subseteq SecretFields /\ \A f \in DOMAIN tls : Group[f] = "tls"
        BY <1>1, <2>2, Constants DEF RestInv, SinceInv
      <3> QED  BY <3>1, Constants
    <2>4. kind \in Kinds /\ conf[u] \in [ConfFields -> Values \cup {Absent}]
      BY <1>1 DEF TypeInv, TypeOK
    <2> QED  BY <2>2, <2>3, <2>4, ReadsAs
  <1> QED  BY <1>1, RestInvariant, ClientInvariant, PTL

-----------------------------------------------------------------------------
(* The request                                                              *)

LEMMA RequestMade ==
  ASSUME ClientInv
  PROVE  Resource[kind] \in DOMAIN Request
  BY DEF Request

LEMMA ReachStep == ClientInv /\ TypeInv /\ ReachInv /\ [Next]_vars => ReachInv'
  <1> SUFFICES ASSUME ClientInv, TypeInv, ReachInv, [Next]_vars PROVE ReachInv'
    OBVIOUS
  <1>1. /\ pending \in [Units -> SUBSET (Events \ {"status"})] /\ leader \in Units
        /\ DOMAIN bag = {"ui", "kafka"} /\ asked \in {0, 1}
    BY DEF ClientInv, Shape, AskedInv, TypeInv, TypeOK
  <1>2. ASSUME NEW u \in Units, RelationCreated(u) PROVE ReachInv'
    <2> DEFINE made == [bag EXCEPT !["ui"] = IF u = leader THEN Over(Request, @) ELSE @]
    <2>1. /\ bag' = made /\ (told' <=> (told \/ made # bag))
          /\ pending' = [pending EXCEPT ![u] = @ \ {"created"}]
          /\ UNCHANGED <<kind, related, leader, seen, asked, lost>>
      BY <1>2 DEF RelationCreated
    <2>2. /\ DOMAIN bag["ui"] \subseteq DOMAIN bag'["ui"]
          /\ u = leader => Resource[kind] \in DOMAIN bag'["ui"]
      BY <1>1, <2>1, RequestMade DEF Over
    <2>3. ~told' => ~told /\ bag' = bag
      BY <2>1
    <2>4. u # leader => pending'[leader] = pending[leader]
      BY <1>1, <2>1
    <2> QED  BY <2>1, <2>2, <2>3, <2>4 DEF ReachInv
  <1>3. ASSUME NEW u \in Units, HookStep(u) \/ Fail(u), ~RelationCreated(u) PROVE ReachInv'
    <2>0. UNCHANGED <<kind, related, leader, bag, seen, asked, lost>>
      BY <1>3 DEF HookStep, SecretChanged, Start, Read, Finish, Fail
    <2>1. told => told'
      <3>1. CASE Finish(u)
        BY <3>1, Zenon DEF Finish
      <3>2. CASE ~Finish(u)
        <4>1. told' = told
          BY <1>3, <3>2 DEF HookStep, SecretChanged, Start, Read, Fail
        <4> QED  BY <4>1
      <3> QED  BY <3>1, <3>2
    <2>2. "created" \in pending[leader] => "created" \in pending'[leader]
      <3>1. CASE SecretChanged(u)
        BY <3>1, <1>1 DEF SecretChanged
      <3>2. CASE \E e \in Events : Start(u, e)
        BY <3>2, <1>1 DEF Start
      <3>3. CASE Read(u) \/ Finish(u) \/ Fail(u)
        BY <3>3, <1>1 DEF Read, Finish, Fail
      <3> QED  BY <1>3, <3>1, <3>2, <3>3 DEF HookStep
    <2> QED  BY <2>0, <2>1, <2>2 DEF ReachInv
  <1>4. CASE ProviderPublishes
    <2>1. PICK data : Publish(data)
      BY <1>4, PublishedData
    <2>2. /\ UNCHANGED <<kind, related, leader, seen, told, asked, lost>>
          /\ pending[leader] \subseteq pending'[leader]
      BY <2>1, <1>1 DEF Publish, Notify
    <2>3. bag'["ui"] = bag["ui"]
      BY <2>1, <1>1 DEF Publish, Update, Provider
    <2> QED  BY <2>2, <2>3 DEF ReachInv
  <1>5. CASE ProviderChanged
    <2>1. /\ UNCHANGED <<kind, related, leader, bag, pending, lost>>
          /\ asked' = IF Resource[kind] \in DOMAIN bag["ui"] \ seen THEN asked + 1 ELSE asked
          /\ seen' = DOMAIN bag["ui"] /\ related
      BY <1>5 DEF ProviderChanged, Diff
    <2>2. Resource[kind] \notin seen => asked = 0
      BY <2>1, <1>1 DEF ClientInv, AskedInv
    <2> QED  BY <2>1, <2>2 DEF ReachInv
  <1>6. CASE LeaderMoves
    <2>1. /\ UNCHANGED <<kind, related, bag, seen, told, asked, pending>>
          /\ lost' <=> (lost \/ \E u \in Units : "created" \in pending[u])
      BY <1>6 DEF LeaderMoves
    <2> QED  BY <1>1, <2>1 DEF ReachInv
  <1>7. CASE Remove
    <2>1. ~related' /\ seen' = {}
      BY <1>7 DEF Remove
    <2> QED  BY <2>1 DEF ReachInv
  <1>8. CASE UNCHANGED vars
    BY <1>8 DEF vars, ReachInv
  <1> QED  BY <1>2, <1>3, <1>4, <1>5, <1>6, <1>7, <1>8 DEF Next, HookStep

\* However the lead moves, whatever hooks die and however often the provider publishes,
\* its charm is asked at most once (diff remembers the fields it has seen, and they are
\* never withdrawn); and it was asked, if the lead stayed until every unit knew of the
\* relation, once nothing of it is on its way.
THEOREM Asked == Spec => []AskedOnce
  <1>1. Init => ReachInv
    <2>1. DOMAIN <<>> = {}
      OBVIOUS
    <2> QED  BY <2>1, LeadersAssumption DEF Init, ReachInv
  <1>2. Spec => []TypeInv
    BY InitTypes, TypeStep, ClientInvariant, PTL DEF Spec
  <1>3. ClientInv /\ TypeInv /\ ReachInv => AskedOnce
    BY DEF ClientInv, AskedInv, ReachInv, AskedOnce, TypeInv, TypeOK
  <1> QED  BY <1>1, <1>2, <1>3, ReachStep, ClientInvariant, PTL DEF Spec

=============================================================================
