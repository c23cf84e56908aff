--------------------------- MODULE PeerDataProofs ---------------------------
(***************************************************************************)
(* The peer relation's databags and secrets (PeerData) are the             *)
(* dictionaries of SharedDict, for any number of units, fields, values,    *)
(* updates, moves of the lead and hooks that die.                          *)
(*                                                                         *)
(* No secret field is ever in a databag; then whatever the library does    *)
(* with a field is done where the field is: a read finds it in the secret  *)
(* or in the databag, an update puts it there, a deletion takes it from    *)
(* there.  What is read of a scope is its databag and its secret joined.   *)
(***************************************************************************)
EXTENDS PeerData, FiniteSetTheorems, TLAPS

\* Functions from some of the fields F to values.
Parts(F) == UNION {[D -> Values] : D \in SUBSET F}
Plain(s) == FieldsOf(s) \ SecretsOf(s)
Views(s) == {View(b, t) : b \in Parts(Plain(s)), t \in Parts(SecretsOf(s))}
Hooks(u) == [on : BOOLEAN, app : Views("app"), unit : Views(u), wrote : BOOLEAN, void : BOOLEAN]

PeerInv ==
    /\ DOMAIN bag = Scopes /\ DOMAIN secret = Scopes
    /\ \A s \in Scopes : bag[s] \in Parts(Plain(s)) /\ secret[s] \in Parts(SecretsOf(s))
    /\ leader \in Units /\ DOMAIN hook = Units
    /\ \A u \in Units : hook[u] \in Hooks(u) /\ (~hook[u].on => hook[u] = NoHook)
    /\ writes \in 0..MaxWrites /\ leads \in 0..MaxLeads /\ faults \in 0..MaxFaults

\* PeerObject of a unit that leads, or of one that does not.
Object(s, l) ==
    [component |-> "own", leader |-> l, local |-> SecretsOf(s),
     group |-> [f \in FieldsOf(s) |-> "extra"], uri |-> <<>>]

\* What is read of a view.
Joined(v) == Over(v.secret["extra"], v.bag["own"])

-----------------------------------------------------------------------------
(* Functions, scopes and views *)

LEMMA SameFunction ==
  ASSUME NEW f, NEW g, NEW S, NEW T, f = [x \in S |-> f[x]], g = [x \in T |-> g[x]],
         S = T, \A x \in S : f[x] = g[x]
  PROVE  f = g
  BY Zenon

LEMMA PartsFacts ==
  ASSUME NEW F, NEW f \in Parts(F)
  PROVE  /\ DOMAIN f \subseteq F /\ f = [x \in DOMAIN f |-> f[x]]
         /\ \A x \in DOMAIN f : f[x] \in Values
  <1>1. PICK D \in SUBSET F : f \in [D -> Values]
    BY DEF Parts
  <1> QED  BY <1>1

LEMMA MakePart ==
  ASSUME NEW F, NEW D \in SUBSET F, NEW f, f = [x \in D |-> f[x]], \A x \in D : f[x] \in Values
  PROVE  f \in Parts(F) /\ DOMAIN f = D
  <1>1. f \in [D -> Values]
    BY Zenon
  <1> QED  BY <1>1 DEF Parts

LEMMA NoPart == \A F : <<>> \in Parts(F)
  <1>1. <<>> \in [{} -> Values]
    OBVIOUS
  <1> QED  BY <1>1 DEF Parts

LEMMA ScopeFacts ==
  ASSUME NEW s \in Scopes
  PROVE  /\ SecretsOf(s) \subseteq FieldsOf(s) /\ IsFiniteSet(FieldsOf(s))
         /\ "app" \in Scopes /\ Units \subseteq Scopes /\ "app" \notin Units
         /\ SecretsOf("app") = AppSecrets /\ \A u \in Units : SecretsOf(u) = UnitSecrets
         /\ FieldsOf("app") = AppFields /\ \A u \in Units : FieldsOf(u) = UnitFields
  BY FieldsAssumption, UnitsAssumption
     DEF Scopes, SecretsOf, FieldsOf, AppFields, UnitFields

\* The parts of a view, and what it takes to be one.
LEMMA ViewFacts ==
  ASSUME NEW s \in Scopes, NEW v \in Views(s)
  PROVE  /\ v = View(v.bag["own"], v.secret["extra"])
         /\ v.bag["own"] \in Parts(Plain(s)) /\ v.secret["extra"] \in Parts(SecretsOf(s))
         /\ v.bag = [own |-> v.bag["own"]] /\ v.secret = [extra |-> v.secret["extra"]]
         /\ DOMAIN v.bag["own"] \cap SecretsOf(s) = {}
  <1>1. PICK b \in Parts(Plain(s)), t \in Parts(SecretsOf(s)) : v = View(b, t)
    BY DEF Views
  <1>2. v.bag["own"] = b /\ v.secret["extra"] = t /\ v.bag = [own |-> b] /\ v.secret = [extra |-> t]
    BY <1>1 DEF View
  <1>3. DOMAIN b \subseteq Plain(s)
    BY PartsFacts
  <1> QED  BY <1>1, <1>2, <1>3 DEF Plain

-----------------------------------------------------------------------------
(* What the library does with a field, whoever asks *)

\* Secret fields are sought in the secret: none is in the databag (FallsBack).
LEMMA SoughtInSecret ==
  ASSUME NEW s \in Scopes, NEW l, NEW v \in Views(s), NEW fields
  PROVE  AsSecrets(Object(s, l), v, SecretsOf(s), fields) = fields \cap SecretsOf(s)
  <1>1. DOMAIN v.bag["own"] \cap SecretsOf(s) = {}
    BY ViewFacts
  <1> QED  BY <1>1 DEF AsSecrets, FallsBack, Object

LEMMA FetchField ==
  ASSUME NEW s \in Scopes, NEW l, NEW v \in Views(s), NEW f \in FieldsOf(s)
  PROVE  LET got == Fetch(Object(s, l), v, "own", SecretsOf(s), {f})
         IN  /\ f \in DOMAIN got <=> f \in DOMAIN Joined(v)
             /\ f \in DOMAIN got => got[f] = Joined(v)[f]
  <1> DEFINE d == Object(s, l)
             b == v.bag["own"]
             t == v.secret["extra"]
             sought == AsSecrets(d, v, SecretsOf(s), {f})
             found  == {x \in sought : x \in DOMAIN v.secret[d.group[x]]}
             left   == {x \in sought : d.group[x] \notin GroupsOf(d, found)}
             got    == Fetch(d, v, "own", SecretsOf(s), {f})
  <1>1. d.group[f] = "extra" /\ SecretsOf(s) \subseteq FieldsOf(s)
    BY ScopeFacts DEF Object
  <1>2. DOMAIN t \subseteq SecretsOf(s) /\ DOMAIN b \cap SecretsOf(s) = {}
    BY ViewFacts, PartsFacts
  <1>3. sought = {f} \cap SecretsOf(s)
    BY SoughtInSecret
  <1> HIDE DEF d, sought
  <1>4. found = {f} \cap DOMAIN t
    BY <1>1, <1>2, <1>3
  <1>5. got = Over([x \in found |-> v.secret[d.group[x]][x]],
                   Only(v.bag["own"], ({f} \ sought) \cup left))
    BY DEF Fetch, sought
  <1> HIDE DEF found, left, got
  <1>6. f \in DOMAIN got <=> (f \in found \/ f \in DOMAIN b \cap (({f} \ sought) \cup left))
    BY <1>5 DEF Over, Only
  <1>7. f \in DOMAIN got => got[f] = IF f \in found THEN t[f] ELSE b[f]
    BY <1>1, <1>5 DEF Over, Only
  <1>8. f \in DOMAIN b => f \in {f} \ sought
    BY <1>2, <1>3
  <1>9. f \in DOMAIN Joined(v) <=> f \in DOMAIN t \/ f \in DOMAIN b
    BY DEF Joined, Over
  <1>10. f \in DOMAIN Joined(v) => Joined(v)[f] = IF f \in DOMAIN t THEN t[f] ELSE b[f]
    BY DEF Joined, Over
  <1> QED  BY <1>4, <1>6, <1>7, <1>8, <1>9, <1>10 DEF got, d

\* A scope is read as its databag and its secret joined, by whichever unit.
LEMMA ContentsAreJoined ==
  ASSUME NEW s \in Scopes, NEW l, NEW v \in Views(s)
  PROVE  Contents(Object(s, l), v, s) = Joined(v)
  <1> DEFINE got == [f \in FieldsOf(s) |->
                        Fetch(Object(s, l), v, "own", SecretsOf(s), {f})]
             there == {x \in FieldsOf(s) : x \in DOMAIN got[x]}
  <1>1. Contents(Object(s, l), v, s) = [f \in there |-> got[f][f]]
    BY DEF Contents, Object
  <1>2. \A f \in FieldsOf(s) : /\ f \in DOMAIN got[f] <=> f \in DOMAIN Joined(v)
                               /\ f \in DOMAIN got[f] => got[f][f] = Joined(v)[f]
    BY FetchField
  <1> HIDE DEF got
  <1>3. DOMAIN Joined(v) \subseteq FieldsOf(s)
    <2>1. /\ DOMAIN v.bag["own"] \subseteq Plain(s) /\ DOMAIN v.secret["extra"] \subseteq SecretsOf(s)
          /\ SecretsOf(s) \subseteq FieldsOf(s)
      <3>1. v.bag["own"] \in Parts(Plain(s)) /\ v.secret["extra"] \in Parts(SecretsOf(s))
        BY ViewFacts
      <3> QED  BY <3>1, PartsFacts, ScopeFacts
    <2> QED  BY <2>1 DEF Joined, Over, Plain
  <1>4. there = DOMAIN Joined(v)
    BY <1>2, <1>3
  <1>5. Joined(v) = [x \in DOMAIN Joined(v) |-> Joined(v)[x]]
    BY DEF Joined, Over
  <1>6. [f \in there |-> got[f][f]] = [x \in DOMAIN Joined(v) |-> Joined(v)[x]]
    BY <1>2, <1>4
  <1> QED  BY <1>1, <1>5, <1>6

\* A field that is deleted is gone, from wherever it was.
LEMMA DeleteField ==
  ASSUME NEW s \in Scopes, NEW l, NEW v \in Views(s), NEW f \in FieldsOf(s)
  PROVE  Delete(Object(s, l), v, {f})
            = View(Drop(v.bag["own"], {f}), Drop(v.secret["extra"], {f}))
  <1> DEFINE d == Object(s, l)
             b == v.bag["own"]
             t == v.secret["extra"]
             sought == AsSecrets(d, v, d.local, {f})
             done  == {g \in GroupsOf(d, sought) : {f} \subseteq DOMAIN v.secret[g]}
             gone  == {g \in done : {f} = DOMAIN v.secret[g]} \cap DOMAIN d.uri
             plain == {x \in {f} : x \in sought => d.group[x] \notin done}
  <1>1. /\ d.local = SecretsOf(s) /\ d.component = "own" /\ d.uri = <<>> /\ d.group[f] = "extra"
    BY DEF Object
  <1>2. /\ DOMAIN t \subseteq SecretsOf(s) /\ DOMAIN b \cap SecretsOf(s) = {}
        /\ b = [x \in DOMAIN b |-> b[x]] /\ t = [x \in DOMAIN t |-> t[x]]
        /\ v.bag = [own |-> b] /\ v.secret = [extra |-> t] /\ v = View(b, t)
    BY ViewFacts, PartsFacts
  <1>3. sought = {f} \cap SecretsOf(s)
    BY <1>1, SoughtInSecret
  <1>4. Delete(d, v, {f}) = [v EXCEPT
            !.secret = [g \in DOMAIN @ |-> IF g \in done THEN Drop(@[g], {f}) ELSE @[g]],
            !.bag[d.component] = Drop(@, plain \cup {d.uri[g] : g \in gone})]
    BY DEF Delete
  <1> HIDE DEF d, sought
  <1>5. done = IF f \in DOMAIN t THEN {"extra"} ELSE {}
    BY <1>1, <1>2, <1>3 DEF GroupsOf
  <1>6. gone = {}
    BY <1>1
  <1>7. plain \cup {d.uri[g] : g \in gone} = IF f \in DOMAIN t THEN {} ELSE {f}
    <2>1. {d.uri[g] : g \in gone} = {}
      BY <1>6
    <2>2. f \in DOMAIN t => f \in sought
      BY <1>2, <1>3
    <2> HIDE DEF gone, b, t
    <2>3. plain = IF f \in DOMAIN t THEN {} ELSE {f}
      <3> HIDE DEF done
      <3> QED  BY <1>1, <1>5, <2>2
    <2> QED  BY <2>1, <2>3
  <1> HIDE DEF done, gone, plain
  <1>8. Delete(d, v, {f}) = View(Drop(b, IF f \in DOMAIN t THEN {} ELSE {f}),
                                 IF f \in DOMAIN t THEN Drop(t, {f}) ELSE t)
    <2> DEFINE kept == [g \in DOMAIN v.secret |->
                           IF g \in done THEN Drop(v.secret[g], {f}) ELSE v.secret[g]]
               T == IF f \in DOMAIN t THEN Drop(t, {f}) ELSE t
               B == Drop(b, IF f \in DOMAIN t THEN {} ELSE {f})
    <2> HIDE DEF b, t
    <2>1. kept = [extra |-> T]
      <3>1. DOMAIN v.secret = {"extra"} /\ v.secret["extra"] = t
        BY <1>2
      <3>2. kept = [g \in {"extra"} |-> T]
        BY <1>5, <3>1
      <3> HIDE DEF kept, T
      <3>3. [g \in {"extra"} |-> T] = [extra |-> T]
        OBVIOUS
      <3> QED  BY <3>2, <3>3
    <2>2. v = [bag |-> [own |-> b], secret |-> [extra |-> t]]
      BY <1>2 DEF View
    <2>3. Delete(d, v, {f}) = [v EXCEPT !.secret = kept,
              !.bag["own"] = Drop(@, plain \cup {d.uri[g] : g \in gone})]
      BY <1>1, <1>4
    <2>4. Drop(v.bag["own"], plain \cup {d.uri[g] : g \in gone}) = B
      BY <1>7, <2>2
    <2> HIDE DEF kept, T, B
    <2>5. Delete(d, v, {f}) = [bag |-> [own |-> B], secret |-> [extra |-> T]]
      BY <2>1, <2>2, <2>3, <2>4
    <2> QED  BY <2>5 DEF View, B, T
  <1>9. Drop(b, IF f \in DOMAIN t THEN {} ELSE {f}) = Drop(b, {f})
    BY <1>2 DEF Drop
  <1>10. (IF f \in DOMAIN t THEN Drop(t, {f}) ELSE t) = Drop(t, {f})
    <2>1. CASE f \notin DOMAIN t
      <3>1. DOMAIN t \ {f} = DOMAIN t
        BY <2>1
      <3> QED  BY <2>1, <3>1, <1>2 DEF Drop
    <2> QED  BY <2>1
  <1> QED  BY <1>8, <1>9, <1>10 DEF d

LEMMA DropIsPart ==
  ASSUME NEW F, NEW f \in Parts(F), NEW E
  PROVE  Drop(f, E) \in Parts(F)
  <1>1. DOMAIN f \ E \in SUBSET F /\ \A x \in DOMAIN f \ E : Drop(f, E)[x] \in Values
    BY PartsFacts DEF Drop
  <1>2. Drop(f, E) = [x \in DOMAIN f \ E |-> Drop(f, E)[x]]
    BY DEF Drop
  <1> QED  BY <1>1, <1>2, MakePart

\* The deletions at the end of SetItems.
Emptied(d, v, E) == FoldSet(LAMBDA f, w : Delete(d, w, {f}), v, E)

\* RelationContext.update's loop over the fields that are empty, whatever their
\* order: CHOOSE takes some function that satisfies the fold's equation; the one
\* given here does, and by induction over finite sets there is no other.
LEMMA DeleteAll ==
  ASSUME NEW s \in Scopes, NEW l, NEW v \in Views(s), NEW E \in SUBSET FieldsOf(s)
  PROVE  Emptied(Object(s, l), v, E)
            = View(Drop(v.bag["own"], E), Drop(v.secret["extra"], E))
  <1> DEFINE d == Object(s, l)
             b == v.bag["own"]
             t == v.secret["extra"]
             some(S) == CHOOSE x \in S : TRUE
             left == [S \in SUBSET E |-> View(Drop(b, S), Drop(t, S))]
             Folds(it) == it = [S \in SUBSET E |->
                 IF S = {} THEN v ELSE Delete(d, it[S \ {some(S)}], {some(S)})]
             fold == CHOOSE it : Folds(it)
  <1>1. Emptied(d, v, E) = fold[E]
    BY Zenon DEF Emptied, FoldSet, MapThenFoldSet
  <1>2. \A S \in SUBSET E : S # {} => some(S) \in S
    OBVIOUS
  <1> HIDE DEF d, some
  <1>3. /\ b \in Parts(Plain(s)) /\ t \in Parts(SecretsOf(s)) /\ v = View(b, t)
        /\ b = [x \in DOMAIN b |-> b[x]] /\ t = [x \in DOMAIN t |-> t[x]]
    <2>1. b \in Parts(Plain(s)) /\ t \in Parts(SecretsOf(s)) /\ v = View(b, t)
      BY ViewFacts
    <2> HIDE DEF b, t
    <2> QED  BY <2>1, PartsFacts
  <1>4. \A S \in SUBSET E : S # {} => Delete(d, left[S \ {some(S)}], {some(S)}) = left[S]
    <2> SUFFICES ASSUME NEW S \in SUBSET E, S # {}
                 PROVE  Delete(d, left[S \ {some(S)}], {some(S)}) = left[S]
      OBVIOUS
    <2> DEFINE f == some(S)
               w == left[S \ {f}]
    <2>1. f \in S /\ f \in FieldsOf(s)
      BY <1>2
    <2> HIDE DEF f
    <2>2. w = View(Drop(b, S \ {f}), Drop(t, S \ {f}))
      OBVIOUS
    <2>3. w \in Views(s) /\ w.bag["own"] = Drop(b, S \ {f}) /\ w.secret["extra"] = Drop(t, S \ {f})
      <3>1. Drop(b, S \ {f}) \in Parts(Plain(s)) /\ Drop(t, S \ {f}) \in Parts(SecretsOf(s))
        BY <1>3, DropIsPart
      <3>2. w \in Views(s)
        <4> HIDE DEF w
        <4> QED  BY <2>2, <3>1 DEF Views
      <3> QED  BY <2>2, <3>2 DEF View
    <2>4. \A g : Drop(Drop(g, S \ {f}), {f}) = Drop(g, S)
      <3> SUFFICES ASSUME NEW g PROVE Drop(Drop(g, S \ {f}), {f}) = Drop(g, S)
        OBVIOUS
      <3>1. (DOMAIN g \ (S \ {f})) \ {f} = DOMAIN g \ S
        BY <2>1
      <3> QED  BY <3>1 DEF Drop
    <2> HIDE DEF w
    <2>5. Delete(d, w, {f}) = View(Drop(w.bag["own"], {f}), Drop(w.secret["extra"], {f}))
      BY <2>1, <2>3, DeleteField DEF d
    <2>6. left[S] = View(Drop(b, S), Drop(t, S))
      OBVIOUS
    <2> HIDE DEF left
    <2> QED  BY <2>3, <2>4, <2>5, <2>6 DEF w, f
  <1>5. left[{}] = v
    <2>1. Drop(b, {}) = b /\ Drop(t, {}) = t
      BY <1>3 DEF Drop
    <2> QED  BY <2>1, <1>3
  <1>6. left = [S \in SUBSET E |-> left[S]]
    OBVIOUS
  <1> HIDE DEF left
  <1>7. Folds(left)
    <2>1. \A S \in SUBSET E :
             left[S] = IF S = {} THEN v ELSE Delete(d, left[S \ {some(S)}], {some(S)})
      BY <1>4, <1>5
    <2> QED  BY Zenon, <2>1, <1>6
  <1>8. Folds(fold)
    BY <1>7
  <1> HIDE DEF fold
  <1>9. fold[E] = left[E]
    <2> DEFINE T == {S \in SUBSET E : fold[S] # left[S]}
    <2>1. SUFFICES ASSUME T # {} PROVE FALSE
      OBVIOUS
    <2>2. IsWellFoundedOn(StrictSubsetOrdering(E), SUBSET E)
      <3>1. IsFiniteSet(E)
        BY ScopeFacts, FS_Subset
      <3> QED  BY <3>1, FS_StrictSubsetOrderingWellFounded, FS_FiniteSubsetsOfFinite
    <2>3. PICK S \in T : \A R \in T : <<R, S>> \notin StrictSubsetOrdering(E)
      BY <2>1, <2>2, WFMin
    <2>4. S # {}
      BY <1>5, <1>8, <2>3
    <2>5. S \ {some(S)} \in SUBSET E /\ S \ {some(S)} # S
      BY <1>2, <2>4
    <2>6. fold[S \ {some(S)}] = left[S \ {some(S)}]
      BY <2>3, <2>5 DEF StrictSubsetOrdering
    <2> QED  BY <1>4, <1>8, <2>3, <2>4, <2>6
  <1>10. left[E] = View(Drop(b, E), Drop(t, E))
    BY DEF left
  <1> QED  BY <1>1, <1>9, <1>10 DEF d

-----------------------------------------------------------------------------
(* An update is what setting the items in a dictionary is *)

LEMMA ItemFacts ==
  ASSUME NEW s \in Scopes, NEW items \in Items(s)
  PROVE  /\ DOMAIN items \subseteq FieldsOf(s)
         /\ \A x \in DOMAIN items : items[x] \in Values \cup {Empty}
  <1>1. PICK F \in SUBSET FieldsOf(s) : items \in [F -> Values \cup {Empty}]
    BY DEF Items
  <1> QED  BY <1>1

\* update_relation_data with fields that are not empty.
LEMMA PutItems ==
  ASSUME NEW s \in Scopes, NEW l, NEW v \in Views(s), NEW data \in Parts(FieldsOf(s))
  PROVE  LET w == PeerUpdate(Object(s, l), v, data)
         IN  /\ w \in Views(s)
             /\ w.bag["own"] = Over(Drop(data, SecretsOf(s)), v.bag["own"])
             /\ w.secret["extra"] = Over(Only(data, SecretsOf(s)), v.secret["extra"])
  <1> DEFINE d == Object(s, l)
             b == v.bag["own"]
             t == v.secret["extra"]
             L == SecretsOf(s)
             clean  == [v EXCEPT !.bag["own"] = Drop(@, d.local \cap DOMAIN data)]
             sought == AsSecrets(d, clean, d.local, DOMAIN data)
             named  == GroupsOf(d, sought) \cap DOMAIN d.uri
             B == Over(Drop(data, L), b)
             S == Over(Only(data, L), t)
  <1>1. /\ d.local = L /\ d.component = "own" /\ d.uri = <<>>
        /\ \A f \in FieldsOf(s) : d.group[f] = "extra"
    BY DEF Object
  <1>2. /\ b \in Parts(Plain(s)) /\ t \in Parts(L) /\ v = View(b, t)
        /\ DOMAIN b \cap L = {}
    BY ViewFacts
  <1>3. /\ DOMAIN b \subseteq Plain(s) /\ b = [x \in DOMAIN b |-> b[x]]
        /\ DOMAIN t \subseteq L /\ DOMAIN data \subseteq FieldsOf(s)
        /\ \A x \in DOMAIN b : b[x] \in Values
        /\ \A x \in DOMAIN t : t[x] \in Values
        /\ \A x \in DOMAIN data : data[x] \in Values
    BY <1>2, PartsFacts
  <1>4. clean = v
    <2>1. DOMAIN b \ (L \cap DOMAIN data) = DOMAIN b
      BY <1>2
    <2>2. Drop(b, d.local \cap DOMAIN data) = b
      BY <1>1, <1>3, <2>1 DEF Drop
    <2> HIDE DEF b, t
    <2>3. v.bag = [own |-> b] /\ v = [bag |-> [own |-> b], secret |-> [extra |-> t]]
      BY <1>2 DEF View
    <2> QED  BY <2>2, <2>3 DEF b
  <1>5. PeerUpdate(d, v, data) = Update(d, v, data)
    BY <1>1, <1>4 DEF PeerUpdate
  <1>6. sought = DOMAIN data \cap L
    BY <1>1, <1>4, SoughtInSecret
  <1>7. named = {}
    BY <1>1
  <1>8. PeerUpdate(d, v, data) = [v EXCEPT
            !.secret = [g \in DOMAIN @ |->
                           Over(Only(data, {f \in sought : d.group[f] = g}), @[g])],
            !.bag[d.component] =
                Over(Drop(data, sought), Over([f \in {d.uri[g] : g \in named} |-> f], @))]
    BY <1>4, <1>5 DEF Update
  <1> HIDE DEF d, sought, named, clean
  <1>9. Only(data, {f \in sought : d.group[f] = "extra"}) = Only(data, L)
    <2>1. {f \in sought : d.group[f] = "extra"} = DOMAIN data \cap L
      BY <1>1, <1>3, <1>6
    <2> QED  BY <2>1 DEF Only
  <1>10. Drop(data, sought) = Drop(data, L)
    <2>1. DOMAIN data \ sought = DOMAIN data \ L
      BY <1>6
    <2> QED  BY <2>1 DEF Drop
  <1>11. Over([f \in {d.uri[g] : g \in named} |-> f], b) = b
    <2>1. {d.uri[g] : g \in named} = {}
      BY <1>7
    <2> QED  BY <2>1, <1>3 DEF Over
  <1> HIDE DEF b, t
  <1>12. PeerUpdate(d, v, data) = View(B, S)
    <2>1. v = [bag |-> [own |-> b], secret |-> [extra |-> t]]
      BY <1>2 DEF View
    <2> DEFINE kept == [g \in DOMAIN v.secret |->
                           Over(Only(data, {f \in sought : d.group[f] = g}), v.secret[g])]
    <2>2. kept = [extra |-> S]
      <3>1. DOMAIN v.secret = {"extra"} /\ v.secret["extra"] = t
        BY <2>1
      <3>2. kept = [g \in {"extra"} |-> S]
        BY <1>9, <3>1
      <3> HIDE DEF kept, S
      <3>3. [g \in {"extra"} |-> S] = [extra |-> S]
        OBVIOUS
      <3> QED  BY <3>2, <3>3
    <2>3. PeerUpdate(d, v, data) = [v EXCEPT !.secret = kept,
              !.bag["own"] = Over(Drop(data, sought), Over([f \in {d.uri[g] : g \in named} |-> f], @))]
      BY <1>1, <1>8
    <2> HIDE DEF kept, S
    <2>4. PeerUpdate(d, v, data) = [bag |-> [own |-> B], secret |-> [extra |-> S]]
      BY <1>10, <1>11, <2>1, <2>2, <2>3
    <2> QED  BY <2>4 DEF View
  <1>13. B \in Parts(Plain(s))
    <2>1. DOMAIN B = (DOMAIN data \ L) \cup DOMAIN b /\ B = [x \in DOMAIN B |-> B[x]]
          /\ \A x \in DOMAIN B : B[x] \in Values
      BY <1>3 DEF Over, Drop
    <2>2. DOMAIN B \in SUBSET Plain(s)
      BY <1>3, <2>1 DEF Plain
    <2> HIDE DEF B
    <2> QED  BY <2>1, <2>2, MakePart
  <1>14. S \in Parts(L)
    <2>1. DOMAIN S = (DOMAIN data \cap L) \cup DOMAIN t /\ S = [x \in DOMAIN S |-> S[x]]
          /\ \A x \in DOMAIN S : S[x] \in Values
      BY <1>3 DEF Over, Only
    <2>2. DOMAIN S \in SUBSET L
      BY <1>3, <2>1
    <2> HIDE DEF S
    <2> QED  BY <2>1, <2>2, MakePart
  <1> HIDE DEF B, S, L
  <1>15. View(B, S) \in Views(s) /\ View(B, S).bag["own"] = B /\ View(B, S).secret["extra"] = S
    BY <1>13, <1>14 DEF Views, View, L
  <1> QED  BY <1>12, <1>15 DEF d, B, S, L, b, t

LEMMA ObjectSets ==
  ASSUME NEW s \in Scopes, NEW l, NEW v \in Views(s), NEW items \in Items(s)
  PROVE  /\ SetItems(Object(s, l), v, items) \in Views(s)
         /\ Joined(SetItems(Object(s, l), v, items)) = Dict!Set(Joined(v), items)
  <1> DEFINE d == Object(s, l)
             L == SecretsOf(s)
             b == v.bag["own"]
             t == v.secret["extra"]
             empty == {f \in DOMAIN items : items[f] = Empty}
             data  == Drop(items, empty)
             put   == PeerUpdate(d, v, data)
             w     == SetItems(d, v, items)
  <1>1. /\ DOMAIN items \subseteq FieldsOf(s) /\ empty \in SUBSET FieldsOf(s)
        /\ \A x \in DOMAIN items : items[x] \in Values \cup {Empty}
    BY ItemFacts
  <1>2. data \in Parts(FieldsOf(s)) /\ DOMAIN data = DOMAIN items \ empty
    <2>1. data = [x \in DOMAIN items \ empty |-> data[x]]
          /\ \A x \in DOMAIN items \ empty : data[x] \in Values
      BY <1>1 DEF Drop
    <2>2. DOMAIN items \ empty \in SUBSET FieldsOf(s)
      BY <1>1
    <2> HIDE DEF data
    <2> QED  BY <2>1, <2>2, MakePart
  <1>3. /\ put \in Views(s) /\ put.bag["own"] = Over(Drop(data, L), b)
        /\ put.secret["extra"] = Over(Only(data, L), t)
    BY <1>2, PutItems
  <1>4. w = Emptied(d, put, empty)
    BY Zenon DEF SetItems, Emptied
  <1> HIDE DEF put
  <1>5. w = View(Drop(put.bag["own"], empty), Drop(put.secret["extra"], empty))
    BY <1>1, <1>3, <1>4, DeleteAll
  <1> HIDE DEF w
  <1>6. w \in Views(s)
    <2>1. put.bag["own"] \in Parts(Plain(s)) /\ put.secret["extra"] \in Parts(L)
      BY <1>3, ViewFacts
    <2> HIDE DEF L
    <2>2. Drop(put.bag["own"], empty) \in Parts(Plain(s))
          /\ Drop(put.secret["extra"], empty) \in Parts(L)
      BY <2>1, DropIsPart
    <2> QED  BY <1>5, <2>2 DEF Views, L
  <1>7. Joined(w) = Over(Drop(Over(Only(data, L), t), empty), Drop(Over(Drop(data, L), b), empty))
    BY <1>3, <1>5 DEF Joined, View
  <1>8. /\ b \in Parts(Plain(s)) /\ t \in Parts(L)
    BY ViewFacts
  <1>9. /\ DOMAIN b \subseteq Plain(s) /\ DOMAIN t \subseteq L
        /\ \A x \in DOMAIN b : b[x] \in Values
        /\ \A x \in DOMAIN t : t[x] \in Values
    BY <1>8, PartsFacts
  <1> DEFINE at(f) == IF f \in DOMAIN items THEN items[f] ELSE Joined(v)[f]
             there == {x \in DOMAIN items \cup DOMAIN Joined(v) : at(x) # Empty}
             have  == ((((DOMAIN data \cap L) \cup DOMAIN t) \ empty)
                       \cup (((DOMAIN data \ L) \cup DOMAIN b) \ empty))
  <1>10. Dict!Set(Joined(v), items) = [f \in there |-> at(f)]
    BY DEF Dict!Set
  <1>11. /\ DOMAIN Joined(v) = DOMAIN t \cup DOMAIN b
         /\ \A x \in DOMAIN t \cup DOMAIN b :
               Joined(v)[x] = IF x \in DOMAIN t THEN t[x] ELSE b[x]
    BY DEF Joined, Over
  <1> HIDE DEF b, t, L
  <1>12. \A x \in DOMAIN data : data[x] = items[x]
    BY DEF Drop
  <1>13. there = have
    <2>1. \A x \in DOMAIN t \cup DOMAIN b : Joined(v)[x] # Empty
      BY <1>9, <1>11, ValuesAssumption
    <2> QED  BY <1>2, <1>11, <2>1
  <1> HIDE DEF data, empty
  <1>14. DOMAIN Joined(w) = have
    BY <1>7 DEF Over, Only, Drop
  <1>15. \A x \in have : Joined(w)[x] =
            IF x \in DOMAIN data THEN data[x] ELSE IF x \in DOMAIN t THEN t[x] ELSE b[x]
    <2>1. DOMAIN t \cap DOMAIN b = {} /\ DOMAIN b \cap L = {}
      BY <1>9 DEF Plain, L
    <2> QED  BY <1>7, <1>9, <2>1 DEF Over, Only, Drop
  <1>16. Joined(w) = [x \in DOMAIN Joined(w) |-> Joined(w)[x]]
    BY DEF Joined, Over
  <1>17. \A x \in have : at(x) = Joined(w)[x]
    <2>1. \A x \in have : x \in DOMAIN items <=> x \in DOMAIN data
      BY <1>2
    <2>2. \A x \in have : x \in DOMAIN items \/ x \in DOMAIN t \cup DOMAIN b
      BY <1>2
    <2> QED  BY <1>11, <1>12, <1>15, <2>1, <2>2
  <1>18. Dict!Set(Joined(v), items) = [x \in have |-> at(x)]
    BY <1>10, <1>13
  <1>19. Dict!Set(Joined(v), items) = [x \in have |-> Joined(w)[x]]
    BY <1>17, <1>18
  <1> QED  BY <1>6, <1>14, <1>16, <1>19 DEF w, d

LEMMA UpdateSets ==
  ASSUME NEW s \in Scopes, NEW u, NEW v \in Views(s), NEW items \in Items(s)
  PROVE  /\ SetItems(PeerObject(u, s), v, items) \in Views(s)
         /\ Joined(SetItems(PeerObject(u, s), v, items)) = Dict!Set(Joined(v), items)
  <1>1. PeerObject(u, s) = Object(s, u = leader)
    BY Zenon DEF PeerObject, Object
  <1> QED  BY <1>1, ObjectSets

-----------------------------------------------------------------------------
(* The invariant *)

LEMMA BlankView == \A s \in Scopes : View(<<>>, <<>>) \in Views(s)
  <1> SUFFICES ASSUME NEW s \in Scopes PROVE View(<<>>, <<>>) \in Views(s)
    OBVIOUS
  <1>1. <<>> \in Parts(Plain(s)) /\ <<>> \in Parts(SecretsOf(s))
    BY NoPart
  <1> QED  BY <1>1 DEF Views

LEMMA HookFields ==
  ASSUME NEW a, NEW b
  PROVE  /\ [NoHook EXCEPT !.on = TRUE, !.app = a, !.unit = b]
                = [on |-> TRUE, app |-> a, unit |-> b, wrote |-> FALSE, void |-> FALSE]
         /\ [NoHook EXCEPT !.void = NoHook.on] = NoHook
  <1>1. PICK no, yes : no = FALSE /\ yes = TRUE
    BY Zenon
  <1>2. PICK v : NoHook = [on |-> no, app |-> v, unit |-> v, wrote |-> no, void |-> no]
    BY Zenon, <1>1 DEF NoHook
  <1> DEFINE r1 == [NoHook EXCEPT !.on = yes]
             r2 == [r1 EXCEPT !.app = a]
             r3 == [r2 EXCEPT !.unit = b]
  <1>3. [NoHook EXCEPT !.on = yes, !.app = a, !.unit = b] = r3
    OBVIOUS
  <1>4. r1 = [on |-> yes, app |-> v, unit |-> v, wrote |-> no, void |-> no]
    BY <1>2
  <1> HIDE DEF r1
  <1>5. r2 = [on |-> yes, app |-> a, unit |-> v, wrote |-> no, void |-> no]
    BY <1>4
  <1> HIDE DEF r2
  <1>6. r3 = [on |-> yes, app |-> a, unit |-> b, wrote |-> no, void |-> no]
    BY <1>5
  <1> HIDE DEF r3
  <1>7. [NoHook EXCEPT !.void = NoHook.on] = NoHook
    BY <1>2
  <1>8. [NoHook EXCEPT !.on = yes, !.app = a, !.unit = b]
           = [on |-> yes, app |-> a, unit |-> b, wrote |-> no, void |-> no]
    BY <1>3, <1>6
  <1> QED  BY Zenon, <1>1, <1>7, <1>8

LEMMA NoHookFields ==
    /\ ~NoHook.on /\ ~NoHook.wrote /\ ~NoHook.void
    /\ NoHook.app = View(<<>>, <<>>) /\ NoHook.unit = View(<<>>, <<>>)
  BY DEF NoHook

LEMMA NoHookType == \A u \in Units : NoHook \in Hooks(u)
  <1>1. \A u \in Units : View(<<>>, <<>>) \in Views(u) /\ View(<<>>, <<>>) \in Views("app")
    BY BlankView DEF Scopes
  <1> QED  BY <1>1 DEF NoHook, Hooks

LEMMA InitPeer == Init => PeerInv
  <1>1. <<>> \in Parts(Plain("app"))
    BY NoPart
  <1> QED  BY NoPart, NoHookType, BoundsAssumption DEF Init, PeerInv

\* Hooks and the databags they read: of one unit's hook, the others' are untouched.
LEMMA HookKept ==
  ASSUME PeerInv, NEW u \in Units, NEW h \in Hooks(u), ~h.on => h = NoHook,
         hook' = [hook EXCEPT ![u] = h], UNCHANGED leader
  PROVE  /\ leader' \in Units /\ DOMAIN hook' = Units /\ hook'[u] = h
         /\ \A x \in Units : hook'[x] \in Hooks(x) /\ (~hook'[x].on => hook'[x] = NoHook)
         /\ \A x \in Units \ {u} : hook'[x] = hook[x]
  BY DEF PeerInv

LEMMA BeginStep ==
  ASSUME PeerInv, NEW u \in Units, Begin(u)
  PROVE  /\ PeerInv'
         /\ hook'[u] = [on |-> TRUE, app |-> View(bag["app"], secret["app"]),
                        unit |-> View(bag[u], secret[u]), wrote |-> FALSE, void |-> FALSE]
  <1> DEFINE h == [on |-> TRUE, app |-> View(bag["app"], secret["app"]),
                   unit |-> View(bag[u], secret[u]), wrote |-> FALSE, void |-> FALSE]
  <1>1. hook' = [hook EXCEPT ![u] = h] /\ UNCHANGED <<bag, secret, leader, writes, leads, faults>>
    <2>1. [NoHook EXCEPT !.on = TRUE, !.app = View(bag["app"], secret["app"]),
                         !.unit = View(bag[u], secret[u])] = h
      BY Zenon, HookFields
    <2> QED  BY Zenon, <2>1 DEF Begin
  <1>2. \A s \in Scopes : View(bag[s], secret[s]) \in Views(s)
    BY DEF PeerInv, Views
  <1>3. h \in Hooks(u) /\ h.on
    BY <1>2 DEF Hooks, Scopes
  <1> HIDE DEF h
  <1>4. /\ leader' \in Units /\ DOMAIN hook' = Units /\ hook'[u] = h
        /\ \A x \in Units : hook'[x] \in Hooks(x) /\ (~hook'[x].on => hook'[x] = NoHook)
    BY <1>1, <1>3, HookKept
  <1> QED  BY <1>1, <1>4 DEF PeerInv, h

\* After an update of its own data, or of the application's by the leader.
LEMMA UpdateUnitStep ==
  ASSUME PeerInv, NEW u \in Units, NEW items \in Items(u), UpdateUnit(u, items)
  PROVE  /\ PeerInv'
         /\ hook'[u] = [hook[u] EXCEPT
                           !.unit = SetItems(PeerObject(u, u), hook[u].unit, items)]
  <1> DEFINE v == SetItems(PeerObject(u, u), hook[u].unit, items)
             h == [hook[u] EXCEPT !.unit = v]
  <1>1. /\ hook[u].on /\ hook' = [hook EXCEPT ![u].unit = v] /\ writes < MaxWrites
        /\ writes' = writes + 1 /\ UNCHANGED <<bag, secret, leader, leads, faults>>
    BY DEF UpdateUnit
  <1>2. hook[u] \in Hooks(u) /\ u \in Scopes
    BY DEF PeerInv, Scopes
  <1>3. v \in Views(u)
    BY <1>2, UpdateSets DEF Hooks
  <1> HIDE DEF v
  <1>4. h \in Hooks(u) /\ h.on
    BY <1>1, <1>2, <1>3 DEF Hooks
  <1>5. hook' = [hook EXCEPT ![u] = h]
    BY <1>1
  <1> HIDE DEF h
  <1>6. /\ leader' \in Units /\ DOMAIN hook' = Units /\ hook'[u] = h
        /\ \A x \in Units : hook'[x] \in Hooks(x) /\ (~hook'[x].on => hook'[x] = NoHook)
    BY <1>1, <1>4, <1>5, HookKept
  <1>7. writes' \in 0..MaxWrites
    BY <1>1, BoundsAssumption DEF PeerInv
  <1> QED  BY <1>1, <1>6, <1>7 DEF PeerInv, h, v

LEMMA UpdateAppStep ==
  ASSUME PeerInv, NEW u \in Units, NEW items \in Items("app"), UpdateApp(u, items)
  PROVE  /\ PeerInv'
         /\ u = leader => hook'[u] = [hook[u] EXCEPT !.wrote = TRUE,
                !.app = SetItems(PeerObject(u, "app"), hook[u].app, items)]
         /\ u # leader => hook' = hook
  <1> DEFINE v == SetItems(PeerObject(u, "app"), hook[u].app, items)
             h == [hook[u] EXCEPT !.app = v, !.wrote = TRUE]
  <1>1. /\ hook[u].on /\ writes < MaxWrites /\ writes' = writes + 1
        /\ u = leader => hook' = [hook EXCEPT ![u].app = v, ![u].wrote = TRUE]
        /\ u # leader => hook' = hook
        /\ UNCHANGED <<bag, secret, leader, leads, faults>>
    BY DEF UpdateApp
  <1>2. hook[u] \in Hooks(u) /\ "app" \in Scopes
    BY DEF PeerInv, Scopes
  <1>3. v \in Views("app")
    BY <1>2, UpdateSets DEF Hooks
  <1> HIDE DEF v
  <1>4. h \in Hooks(u) /\ h.on
    BY <1>1, <1>2, <1>3 DEF Hooks
  <1>5. u = leader => hook' = [hook EXCEPT ![u] = h]
    BY <1>1 DEF PeerInv
  <1>6. h = [hook[u] EXCEPT !.wrote = TRUE, !.app = v]
    BY <1>2 DEF Hooks
  <1> HIDE DEF h
  <1>7. writes' \in 0..MaxWrites
    BY <1>1, BoundsAssumption DEF PeerInv
  <1>8. CASE u = leader
    <2>1. /\ leader' \in Units /\ DOMAIN hook' = Units /\ hook'[u] = h
          /\ \A x \in Units : hook'[x] \in Hooks(x) /\ (~hook'[x].on => hook'[x] = NoHook)
      BY <1>1, <1>4, <1>5, <1>8, HookKept
    <2> QED  BY <1>1, <1>6, <1>7, <1>8, <2>1 DEF PeerInv, v
  <1>9. CASE u # leader
    BY <1>1, <1>7, <1>9 DEF PeerInv
  <1> QED  BY <1>8, <1>9

\* A hook that ends, with its writes committed or not.
LEMMA EndStep ==
  ASSUME PeerInv, NEW u \in Units, Commit(u) \/ Abort(u)
  PROVE  /\ PeerInv' /\ hook[u].on /\ hook' = [hook EXCEPT ![u] = NoHook]
         /\ DOMAIN bag' = Scopes /\ DOMAIN secret' = Scopes
         /\ Commit(u) => /\ ~(hook[u].wrote /\ hook[u].void)
                         /\ View(bag'[u], secret'[u]) = hook[u].unit
                         /\ View(bag'["app"], secret'["app"]) =
                                IF hook[u].wrote THEN hook[u].app
                                ELSE View(bag["app"], secret["app"])
                         /\ \A s \in Scopes \ {u, "app"} : bag'[s] = bag[s] /\ secret'[s] = secret[s]
         /\ Abort(u) => UNCHANGED <<bag, secret>>
  <1>1. /\ hook[u].on /\ hook' = [hook EXCEPT ![u] = NoHook] /\ UNCHANGED <<leader, writes, leads>>
        /\ faults' = faults \/ (faults < MaxFaults /\ faults' = faults + 1)
    BY DEF Commit, Abort
  <1>2. hook[u] \in Hooks(u) /\ u \in Scopes /\ u # "app" /\ "app" \in Scopes
    BY UnitsAssumption DEF PeerInv, Scopes
  <1>3. NoHook \in Hooks(u) /\ ~NoHook.on
    BY NoHookType DEF NoHook
  <1>4. /\ leader' \in Units /\ DOMAIN hook' = Units
        /\ \A x \in Units : hook'[x] \in Hooks(x) /\ (~hook'[x].on => hook'[x] = NoHook)
    BY <1>1, <1>3, HookKept
  <1>5. faults' \in 0..MaxFaults
    BY <1>1, BoundsAssumption DEF PeerInv
  <1>6. CASE Abort(u)
    <2>1. UNCHANGED <<bag, secret>>
      BY <1>6 DEF Abort
    <2>2. PeerInv'
      BY <1>1, <1>4, <1>5, <2>1 DEF PeerInv
    <2>3. Commit(u) => /\ ~(hook[u].wrote /\ hook[u].void)
                       /\ bag'[u] = hook[u].unit.bag["own"]
                       /\ secret'[u] = hook[u].unit.secret["extra"]
                       /\ bag'["app"] = IF hook[u].wrote THEN hook[u].app.bag["own"] ELSE bag["app"]
                       /\ secret'["app"] = IF hook[u].wrote THEN hook[u].app.secret["extra"]
                                           ELSE secret["app"]
      BY <1>2 DEF Commit, PeerInv
    <2>4. /\ hook[u].unit = View(hook[u].unit.bag["own"], hook[u].unit.secret["extra"])
          /\ hook[u].app = View(hook[u].app.bag["own"], hook[u].app.secret["extra"])
      BY <1>2, ViewFacts DEF Hooks
    <2> QED  BY <1>1, <2>1, <2>2, <2>3, <2>4 DEF PeerInv
  <1>7. CASE Commit(u)
    <2> DEFINE h == hook[u]
    <2>1. /\ ~(h.wrote /\ h.void) /\ DOMAIN bag' = Scopes /\ DOMAIN secret' = Scopes
          /\ bag'[u] = h.unit.bag["own"] /\ secret'[u] = h.unit.secret["extra"]
          /\ bag'["app"] = IF h.wrote THEN h.app.bag["own"] ELSE bag["app"]
          /\ secret'["app"] = IF h.wrote THEN h.app.secret["extra"] ELSE secret["app"]
          /\ \A s \in Scopes \ {u, "app"} : bag'[s] = bag[s] /\ secret'[s] = secret[s]
      BY <1>2, <1>7 DEF Commit, PeerInv
    <2>2. h.unit \in Views(u) /\ h.app \in Views("app")
      BY <1>2 DEF Hooks
    <2> HIDE DEF h
    <2>3. /\ h.unit = View(h.unit.bag["own"], h.unit.secret["extra"])
          /\ h.app = View(h.app.bag["own"], h.app.secret["extra"])
          /\ h.unit.bag["own"] \in Parts(Plain(u)) /\ h.unit.secret["extra"] \in Parts(SecretsOf(u))
          /\ h.app.bag["own"] \in Parts(Plain("app"))
          /\ h.app.secret["extra"] \in Parts(SecretsOf("app"))
      BY <1>2, <2>2, ViewFacts
    <2>4. \A s \in Scopes : bag'[s] \in Parts(Plain(s)) /\ secret'[s] \in Parts(SecretsOf(s))
      BY <1>2, <2>1, <2>3 DEF PeerInv
    <2>5. PeerInv'
      BY <1>1, <1>4, <1>5, <2>1, <2>4 DEF PeerInv
    <2>6. View(bag'["app"], secret'["app"]) =
             IF h.wrote THEN h.app ELSE View(bag["app"], secret["app"])
      BY <2>1, <2>3
    <2>7. Abort(u) => UNCHANGED <<bag, secret>>
      BY DEF Abort
    <2> QED  BY <1>1, <2>1, <2>3, <2>5, <2>6, <2>7 DEF h
  <1> QED  BY <1>6, <1>7

LEMMA LeadStep ==
  ASSUME PeerInv, NEW u \in Units, LeaderMoves(u)
  PROVE  /\ PeerInv'
         /\ \A x \in Units : hook'[x] = [hook[x] EXCEPT !.void = hook[x].on]
  <1>1. /\ leader' = u /\ leads < MaxLeads /\ leads' = leads + 1
        /\ hook' = [x \in Units |-> [hook[x] EXCEPT !.void = hook[x].on]]
        /\ UNCHANGED <<bag, secret, writes, faults>>
    BY DEF LeaderMoves
  <1>2. \A x \in Units : hook[x] \in Hooks(x) /\ (~hook[x].on => hook[x] = NoHook)
    BY DEF PeerInv
  <1>3. \A x \in Units : hook'[x] \in Hooks(x) /\ (~hook'[x].on => hook'[x] = NoHook)
    <2> SUFFICES ASSUME NEW x \in Units
                 PROVE  hook'[x] \in Hooks(x) /\ (~hook'[x].on => hook'[x] = NoHook)
      OBVIOUS
    <2>1. hook'[x] = [hook[x] EXCEPT !.void = hook[x].on] /\ hook[x] \in Hooks(x)
      BY <1>1, <1>2
    <2>2. hook'[x] \in Hooks(x) /\ hook'[x].on = hook[x].on
      BY <2>1 DEF Hooks
    <2>3. [NoHook EXCEPT !.void = NoHook.on] = NoHook
      BY Zenon, HookFields DEF NoHook
    <2>4. ~hook[x].on => hook'[x] = NoHook
      BY <1>2, <2>1, <2>3
    <2> QED  BY <2>2, <2>4
  <1>4. leads' \in 0..MaxLeads
    BY <1>1, BoundsAssumption DEF PeerInv
  <1> QED  BY <1>1, <1>3, <1>4 DEF PeerInv

LEMMA PeerStep == PeerInv /\ [Next]_vars => PeerInv'
  <1>1. ASSUME PeerInv, UNCHANGED vars PROVE PeerInv'
    BY <1>1 DEF PeerInv, vars
  <1>2. ASSUME PeerInv, NEW u \in Units,
               \/ Begin(u) \/ Commit(u) \/ Abort(u) \/ LeaderMoves(u)
               \/ \E items \in Items(u) : UpdateUnit(u, items)
               \/ \E items \in Items("app") : UpdateApp(u, items)
        PROVE  PeerInv'
    BY <1>2, BeginStep, EndStep, LeadStep, UpdateUnitStep, UpdateAppStep
  <1> QED  BY <1>1, <1>2 DEF Next

LEMMA PeerInvariant == Spec => []PeerInv
  BY InitPeer, PeerStep, PTL DEF Spec

-----------------------------------------------------------------------------
(* The theorems about single states *)

\* The values of the types, and no field outside of its scope.
THEOREM TypeCorrect == Spec => []TypeOK
  <1>1. ASSUME PeerInv PROVE TypeOK
    <2>1. \A F, G : \A f \in Parts(F) : F \subseteq G => IsPart(f, G)
      BY PartsFacts DEF IsPart
    <2>2. \A s \in Scopes : Plain(s) \subseteq FieldsOf(s) /\ SecretsOf(s) \subseteq FieldsOf(s)
      BY ScopeFacts DEF Plain
    <2>3. \A s \in Scopes : \A v \in Views(s) : IsView(v, s)
      <3> SUFFICES ASSUME NEW s \in Scopes, NEW v \in Views(s) PROVE IsView(v, s)
        OBVIOUS
      <3>1. v.bag["own"] \in Parts(Plain(s)) /\ v.secret["extra"] \in Parts(SecretsOf(s))
        BY ViewFacts
      <3> QED  BY <2>1, <2>2, <3>1 DEF IsView
    <2>4. \A s \in Scopes : IsView(View(bag[s], secret[s]), s)
      BY <1>1, <2>3 DEF PeerInv, Views
    <2>5. \A u \in Units : /\ {hook[u].on, hook[u].wrote, hook[u].void} \subseteq BOOLEAN
                           /\ IsView(hook[u].app, "app") /\ IsView(hook[u].unit, u)
      <3> SUFFICES ASSUME NEW u \in Units
                   PROVE  /\ {hook[u].on, hook[u].wrote, hook[u].void} \subseteq BOOLEAN
                          /\ IsView(hook[u].app, "app") /\ IsView(hook[u].unit, u)
        OBVIOUS
      <3>1. hook[u] \in Hooks(u)
        BY <1>1 DEF PeerInv
      <3>2. hook[u].app \in Views("app") /\ hook[u].unit \in Views(u)
            /\ hook[u].on \in BOOLEAN /\ hook[u].wrote \in BOOLEAN /\ hook[u].void \in BOOLEAN
        BY <3>1 DEF Hooks
      <3> QED  BY <2>3, <3>2 DEF Scopes
    <2> QED  BY <1>1, <2>4, <2>5 DEF TypeOK, PeerInv
  <1> QED  BY <1>1, PeerInvariant, PTL

\* No password or key is in a databag, after however many updates and deletions in
\* whatever order, in the committed state and in what any hook has written so far
\* (DataPeerData._update_relation_data and _delete_relation_data).
THEOREM SecretsStaySecret == Spec => []PeerSecretsStaySecret
  <1>1. ASSUME PeerInv PROVE PeerSecretsStaySecret
    <2>1. \A s \in Scopes : \A f \in Parts(Plain(s)) : DOMAIN f \cap SecretsOf(s) = {}
      BY PartsFacts DEF Plain
    <2>2. \A u \in Units : /\ DOMAIN hook[u].app.bag["own"] \cap AppSecrets = {}
                           /\ DOMAIN hook[u].unit.bag["own"] \cap UnitSecrets = {}
      <3> SUFFICES ASSUME NEW u \in Units
                   PROVE  /\ DOMAIN hook[u].app.bag["own"] \cap AppSecrets = {}
                          /\ DOMAIN hook[u].unit.bag["own"] \cap UnitSecrets = {}
        OBVIOUS
      <3>1. hook[u].app \in Views("app") /\ hook[u].unit \in Views(u)
        BY <1>1 DEF PeerInv, Hooks
      <3>2. "app" \in Scopes /\ u \in Scopes /\ SecretsOf("app") = AppSecrets
            /\ SecretsOf(u) = UnitSecrets
        BY UnitsAssumption DEF Scopes, SecretsOf
      <3> QED  BY <3>1, <3>2, ViewFacts
    <2> QED  BY <1>1, <2>1, <2>2 DEF PeerSecretsStaySecret, PeerInv
  <1> QED  BY <1>1, PeerInvariant, PTL

\* In every state that updates may meet, RelationContext.update is the setting of
\* items in a dictionary.
THEOREM UpdatesAreSets == Spec => []UpdateIsSet
  <1>1. ASSUME PeerInv PROVE UpdateIsSet
    <2> SUFFICES ASSUME NEW u \in Units, hook[u].on,
                        NEW s \in {u} \cup (IF u = leader THEN {"app"} ELSE {}),
                        NEW items \in Items(s)
                 PROVE  LET v == IF s = "app" THEN hook[u].app ELSE hook[u].unit
                        IN  Contents(PeerObject(u, s), SetItems(PeerObject(u, s), v, items), s)
                               = Dict!Set(Contents(PeerObject(u, s), v, s), items)
      BY DEF UpdateIsSet
    <2> DEFINE v == IF s = "app" THEN hook[u].app ELSE hook[u].unit
               d == PeerObject(u, s)
               w == SetItems(d, v, items)
    <2>1. s \in Scopes /\ v \in Views(s)
      <3>1. hook[u].app \in Views("app") /\ hook[u].unit \in Views(u)
        BY <1>1 DEF PeerInv, Hooks
      <3> QED  BY <3>1, UnitsAssumption DEF Scopes
    <2> HIDE DEF v
    <2>2. w \in Views(s) /\ Joined(w) = Dict!Set(Joined(v), items)
      BY <2>1, UpdateSets
    <2>3. d = Object(s, u = leader)
      BY Zenon DEF PeerObject, Object
    <2> HIDE DEF d, w
    <2>4. Contents(d, w, s) = Joined(w) /\ Contents(d, v, s) = Joined(v)
      BY <2>1, <2>2, <2>3, ContentsAreJoined
    <2> QED  BY <2>2, <2>4 DEF v, d, w
  <1> QED  BY <1>1, PeerInvariant, PTL

-----------------------------------------------------------------------------
(* PeerData implements SharedDict *)

DictBar == [s \in Scopes |-> Contents(PeerObject(leader, s), View(bag[s], secret[s]), s)]
CopyBar == [u \in Units |-> CopyOf(u)]
OnBar    == {u \in Units : hook[u].on}
WroteBar == {u \in Units : hook[u].wrote}
VoidBar  == {u \in Units : hook[u].void}

\* What the dictionaries hold, in databags and secrets.
LEMMA Bars ==
  ASSUME PeerInv
  PROVE  /\ DictBar = [s \in Scopes |-> Joined(View(bag[s], secret[s]))]
         /\ CopyBar = [u \in Units |-> [app |-> Joined(hook[u].app),
                                        unit |-> Joined(hook[u].unit)]]
  <1>1. \A s, u : PeerObject(u, s) = Object(s, u = leader)
    BY Zenon DEF PeerObject, Object
  <1>2. \A s \in Scopes : View(bag[s], secret[s]) \in Views(s)
    BY DEF PeerInv, Views
  <1>3. \A s \in Scopes : Contents(PeerObject(leader, s), View(bag[s], secret[s]), s)
                             = Joined(View(bag[s], secret[s]))
    BY <1>1, <1>2, ContentsAreJoined
  <1>4. \A u \in Units : hook[u].app \in Views("app") /\ hook[u].unit \in Views(u)
    BY DEF PeerInv, Hooks
  <1>5. \A u \in Units : CopyOf(u) = [app |-> Joined(hook[u].app), unit |-> Joined(hook[u].unit)]
    <2> SUFFICES ASSUME NEW u \in Units
                 PROVE  CopyOf(u) = [app |-> Joined(hook[u].app), unit |-> Joined(hook[u].unit)]
      OBVIOUS
    <2>1. "app" \in Scopes /\ u \in Scopes
      BY DEF Scopes
    <2>2. Contents(Object("app", u = leader), hook[u].app, "app") = Joined(hook[u].app)
      BY <1>4, <2>1, ContentsAreJoined
    <2>3. Contents(Object(u, u = leader), hook[u].unit, u) = Joined(hook[u].unit)
      BY <1>4, <2>1, ContentsAreJoined
    <2> QED  BY Zenon, <1>1, <2>2, <2>3 DEF CopyOf
  <1> QED  BY <1>3, <1>5 DEF DictBar, CopyBar

LEMMA BarsNext ==
  ASSUME PeerInv'
  PROVE  /\ DictBar' = [s \in Scopes |-> Joined(View(bag'[s], secret'[s]))]
         /\ CopyBar' = [u \in Units |-> [app |-> Joined(hook'[u].app),
                                         unit |-> Joined(hook'[u].unit)]]
  <1>1. \A s, u : PeerObject(u, s)' = Object(s, u = leader')
    BY Zenon DEF PeerObject, Object
  <1>2. \A s \in Scopes : View(bag'[s], secret'[s]) \in Views(s)
    BY DEF PeerInv, Views
  <1>3. \A s \in Scopes : Contents(PeerObject(leader, s)', View(bag'[s], secret'[s]), s)
                             = Joined(View(bag'[s], secret'[s]))
    <2>1. \A s : PeerObject(leader, s)' = Object(s, TRUE)
      BY Zenon DEF PeerObject, Object
    <2> QED  BY <1>2, <2>1, ContentsAreJoined
  <1>4. \A u \in Units : hook'[u].app \in Views("app") /\ hook'[u].unit \in Views(u)
    BY DEF PeerInv, Hooks
  <1>5. \A u \in Units :
           CopyOf(u)' = [app |-> Joined(hook'[u].app), unit |-> Joined(hook'[u].unit)]
    <2> SUFFICES ASSUME NEW u \in Units
                 PROVE  CopyOf(u)' = [app |-> Joined(hook'[u].app), unit |-> Joined(hook'[u].unit)]
      OBVIOUS
    <2>1. "app" \in Scopes /\ u \in Scopes
      BY DEF Scopes
    <2>2. Contents(Object("app", u = leader'), hook'[u].app, "app") = Joined(hook'[u].app)
      BY <1>4, <2>1, ContentsAreJoined
    <2>3. Contents(Object(u, u = leader'), hook'[u].unit, u) = Joined(hook'[u].unit)
      BY <1>4, <2>1, ContentsAreJoined
    <2> QED  BY Zenon, <1>1, <2>2, <2>3 DEF CopyOf
  <1> QED  BY <1>3, <1>5 DEF DictBar, CopyBar

LEMMA JoinedBlank == Joined(View(<<>>, <<>>)) = <<>>
  <1>1. View(<<>>, <<>>).bag["own"] = <<>> /\ View(<<>>, <<>>).secret["extra"] = <<>>
    BY DEF View
  <1>2. Over(<<>>, <<>>) = <<>>
    <2>1. DOMAIN <<>> = {}
      OBVIOUS
    <2>2. Over(<<>>, <<>>) = [x \in {} |-> IF x \in DOMAIN <<>> THEN <<>>[x] ELSE <<>>[x]]
      BY <2>1 DEF Over
    <2>3. [x \in {} |-> IF x \in DOMAIN <<>> THEN <<>>[x] ELSE <<>>[x]] = <<>>
      OBVIOUS
    <2> QED  BY <2>2, <2>3
  <1> QED  BY <1>1, <1>2 DEF Joined

LEMMA InitRefined == Init => Dict!Init
  <1> SUFFICES ASSUME Init PROVE Dict!Init
    OBVIOUS
  <1>1. PeerInv
    BY InitPeer
  <1>2. DictBar = [s \in Scopes |-> <<>>]
    BY <1>1, Bars, JoinedBlank DEF Init
  <1>3. CopyBar = [u \in Units |-> [app |-> <<>>, unit |-> <<>>]]
    <2>1. \A u \in Units : Joined(hook[u].app) = <<>> /\ Joined(hook[u].unit) = <<>>
      BY JoinedBlank DEF Init, NoHook
    <2> QED  BY <1>1, <2>1, Bars
  <1>4. OnBar = {} /\ WroteBar = {} /\ VoidBar = {}
    BY DEF Init, NoHook, OnBar, WroteBar, VoidBar
  <1>5. leader \in Units
    BY DEF Init
  <1> QED  BY <1>2, <1>3, <1>4, <1>5
           DEF Dict!Init, Dict!Scopes, Dict!NoCopy, Scopes, DictBar, CopyBar, OnBar, WroteBar, VoidBar

\* SharedDict's steps, in terms of what this module's state stands for.
LEMMA DictSteps ==
  ASSUME NEW u \in Units
  PROVE  /\ /\ u \notin OnBar /\ OnBar' = OnBar \cup {u}
            /\ CopyBar' = [CopyBar EXCEPT ![u] = [app |-> DictBar["app"], unit |-> DictBar[u]]]
            /\ UNCHANGED <<leader, WroteBar, VoidBar, DictBar>>
            => Dict!Begin(u)
         /\ /\ u \in OnBar /\ UNCHANGED <<leader, OnBar, WroteBar, VoidBar, DictBar>>
            /\ \E items \in Items(u) : CopyBar' = [CopyBar EXCEPT ![u].unit = Dict!Set(@, items)]
            => Dict!WriteUnit(u)
         /\ /\ u \in OnBar /\ u = leader /\ WroteBar' = WroteBar \cup {u}
            /\ UNCHANGED <<leader, OnBar, VoidBar, DictBar>>
            /\ \E items \in Items("app") : CopyBar' = [CopyBar EXCEPT ![u].app = Dict!Set(@, items)]
            => Dict!WriteApp(u)
         /\ /\ u \in OnBar /\ OnBar' = OnBar \ {u}
            /\ WroteBar' = WroteBar \ {u} /\ VoidBar' = VoidBar \ {u} /\ UNCHANGED leader
            /\ CopyBar' = [CopyBar EXCEPT ![u] = [app |-> <<>>, unit |-> <<>>]]
            => /\ UNCHANGED DictBar => Dict!Abort(u)
               /\ /\ u \notin WroteBar \cap VoidBar
                  /\ DictBar' = [DictBar EXCEPT ![u] = CopyBar[u].unit,
                                 !["app"] = IF u \in WroteBar THEN CopyBar[u].app ELSE @]
                  => Dict!Commit(u)
         /\ /\ leader' = u /\ leader # u /\ VoidBar' = OnBar
            /\ UNCHANGED <<OnBar, WroteBar, DictBar, CopyBar>>
            => Dict!NewLeader(u)
  <1>1. Dict!Items(u) = Items(u) /\ Dict!Items("app") = Items("app")
    BY DEF Dict!Items, Items, Dict!FieldsOf, FieldsOf
  <1>2. /\ u \notin OnBar /\ OnBar' = OnBar \cup {u}
        /\ CopyBar' = [CopyBar EXCEPT ![u] = [app |-> DictBar["app"], unit |-> DictBar[u]]]
        /\ UNCHANGED <<leader, WroteBar, VoidBar, DictBar>>
        => Dict!Begin(u)
    BY Zenon DEF Dict!Begin, DictBar, CopyBar, OnBar, WroteBar, VoidBar
  <1>3. /\ u \in OnBar /\ UNCHANGED <<leader, OnBar, WroteBar, VoidBar, DictBar>>
        /\ \E items \in Items(u) : CopyBar' = [CopyBar EXCEPT ![u].unit = Dict!Set(@, items)]
        => Dict!WriteUnit(u)
    <2>1. ASSUME NEW items \in Dict!Items(u),
                 CopyBar' = [CopyBar EXCEPT ![u].unit = Dict!Set(@, items)]
          PROVE  \E i \in Dict!Items(u) : CopyBar' = [CopyBar EXCEPT ![u].unit = Dict!Set(@, i)]
      BY <2>1
    <2> QED  BY Zenon, <1>1, <2>1 DEF Dict!WriteUnit, DictBar, CopyBar, OnBar, WroteBar, VoidBar
  <1>4. /\ u \in OnBar /\ u = leader /\ WroteBar' = WroteBar \cup {u}
        /\ UNCHANGED <<leader, OnBar, VoidBar, DictBar>>
        /\ \E items \in Items("app") : CopyBar' = [CopyBar EXCEPT ![u].app = Dict!Set(@, items)]
        => Dict!WriteApp(u)
    <2>1. ASSUME NEW items \in Dict!Items("app"),
                 CopyBar' = [CopyBar EXCEPT ![u].app = Dict!Set(@, items)]
          PROVE  \E i \in Dict!Items("app") : CopyBar' = [CopyBar EXCEPT ![u].app = Dict!Set(@, i)]
      BY <2>1
    <2> QED  BY Zenon, <1>1, <2>1 DEF Dict!WriteApp, DictBar, CopyBar, OnBar, WroteBar, VoidBar
  <1>5. /\ u \in OnBar /\ OnBar' = OnBar \ {u}
        /\ WroteBar' = WroteBar \ {u} /\ VoidBar' = VoidBar \ {u} /\ UNCHANGED leader
        /\ CopyBar' = [CopyBar EXCEPT ![u] = [app |-> <<>>, unit |-> <<>>]]
        => Dict!End(u)
    BY Zenon DEF Dict!End, Dict!NoCopy, DictBar, CopyBar, OnBar, WroteBar, VoidBar
  <1>6. Dict!End(u) /\ UNCHANGED DictBar => Dict!Abort(u)
    BY Zenon DEF Dict!Abort, DictBar
  <1>7. /\ Dict!End(u) /\ u \notin WroteBar \cap VoidBar
        /\ DictBar' = [DictBar EXCEPT ![u] = CopyBar[u].unit,
                       !["app"] = IF u \in WroteBar THEN CopyBar[u].app ELSE @]
        => Dict!Commit(u)
    BY Zenon DEF Dict!Commit, DictBar, CopyBar, WroteBar, VoidBar
  <1>8. /\ leader' = u /\ leader # u /\ VoidBar' = OnBar
        /\ UNCHANGED <<OnBar, WroteBar, DictBar, CopyBar>>
        => Dict!NewLeader(u)
    BY Zenon DEF Dict!NewLeader, DictBar, CopyBar, OnBar, WroteBar, VoidBar
  <1> QED  BY <1>2, <1>3, <1>4, <1>5, <1>6, <1>7, <1>8

\* One unit's hook changes, the databags do not: the copies of the others are kept.
LEMMA CopyChanges ==
  ASSUME PeerInv, PeerInv', NEW u \in Units,
         \A x \in Units \ {u} : hook'[x] = hook[x]
  PROVE  /\ CopyBar' = [CopyBar EXCEPT ![u] = [app  |-> Joined(hook'[u].app),
                                              unit |-> Joined(hook'[u].unit)]]
         /\ CopyBar[u] = [app |-> Joined(hook[u].app), unit |-> Joined(hook[u].unit)]
  <1>1. CopyBar = [x \in Units |-> [app |-> Joined(hook[x].app), unit |-> Joined(hook[x].unit)]]
    BY Bars
  <1>2. CopyBar' = [x \in Units |-> [app |-> Joined(hook'[x].app), unit |-> Joined(hook'[x].unit)]]
    BY BarsNext
  <1>3. CopyBar' = [CopyBar EXCEPT ![u] = [app  |-> Joined(hook'[u].app),
                                           unit |-> Joined(hook'[u].unit)]]
    BY <1>1, <1>2
  <1>4. CopyBar[u] = [app |-> Joined(hook[u].app), unit |-> Joined(hook[u].unit)]
    BY <1>1
  <1> QED  BY <1>3, <1>4

LEMMA DictKept ==
  ASSUME PeerInv, PeerInv', UNCHANGED <<bag, secret>>
  PROVE  DictBar' = DictBar
  BY Bars, BarsNext

LEMMA BeginRefined ==
  ASSUME PeerInv, NEW u \in Units, Begin(u) PROVE Dict!Begin(u)
  <1>1. /\ ~hook[u].on /\ UNCHANGED <<bag, secret, leader>>
        /\ \A x \in Units \ {u} : hook'[x] = hook[x]
    BY DEF Begin, PeerInv
  <1>2. /\ PeerInv'
        /\ hook'[u] = [on |-> TRUE, app |-> View(bag["app"], secret["app"]),
                       unit |-> View(bag[u], secret[u]), wrote |-> FALSE, void |-> FALSE]
    BY BeginStep
  <1>3. hook'[u].on /\ ~hook'[u].wrote /\ ~hook'[u].void
        /\ hook'[u].app = View(bag["app"], secret["app"])
        /\ hook'[u].unit = View(bag[u], secret[u])
    BY <1>2
  <1>4. ~hook[u].wrote /\ ~hook[u].void
    BY <1>1, NoHookFields DEF PeerInv
  <1>5. DictBar["app"] = Joined(View(bag["app"], secret["app"]))
        /\ DictBar[u] = Joined(View(bag[u], secret[u]))
    BY Bars DEF Scopes
  <1>6. CopyBar' = [CopyBar EXCEPT ![u] = [app |-> DictBar["app"], unit |-> DictBar[u]]]
    <2>1. CopyBar' = [CopyBar EXCEPT ![u] = [app  |-> Joined(hook'[u].app),
                                             unit |-> Joined(hook'[u].unit)]]
      BY <1>1, <1>2, CopyChanges
    <2> QED  BY <1>3, <1>5, <2>1
  <1>7. OnBar' = OnBar \cup {u} /\ WroteBar' = WroteBar /\ VoidBar' = VoidBar /\ u \notin OnBar
    BY Zenon, <1>1, <1>3, <1>4 DEF OnBar, WroteBar, VoidBar
  <1>8. DictBar' = DictBar
    BY <1>1, <1>2, DictKept
  <1> QED  BY <1>1, <1>6, <1>7, <1>8, DictSteps

LEMMA UpdateUnitRefined ==
  ASSUME PeerInv, NEW u \in Units, NEW items \in Items(u), UpdateUnit(u, items)
  PROVE  Dict!WriteUnit(u)
  <1>1. /\ hook[u].on /\ UNCHANGED <<bag, secret, leader>>
        /\ \A x \in Units \ {u} : hook'[x] = hook[x]
    BY DEF UpdateUnit, PeerInv
  <1> DEFINE v == SetItems(PeerObject(u, u), hook[u].unit, items)
  <1>2. PeerInv' /\ hook'[u] = [hook[u] EXCEPT !.unit = v]
    BY UpdateUnitStep
  <1>3. hook[u] \in Hooks(u) /\ u \in Scopes
    BY DEF PeerInv, Scopes
  <1>4. Joined(v) = Dict!Set(Joined(hook[u].unit), items)
    BY <1>3, UpdateSets DEF Hooks
  <1> HIDE DEF v
  <1>5. /\ hook'[u].unit = v /\ hook'[u].app = hook[u].app
        /\ hook'[u].on = hook[u].on /\ hook'[u].wrote = hook[u].wrote
        /\ hook'[u].void = hook[u].void
    BY <1>2, <1>3 DEF Hooks
  <1>6. /\ CopyBar' = [CopyBar EXCEPT ![u] = [app  |-> Joined(hook[u].app), unit |-> Joined(v)]]
        /\ CopyBar[u] = [app |-> Joined(hook[u].app), unit |-> Joined(hook[u].unit)]
    <2>1. CopyBar' = [CopyBar EXCEPT ![u] = [app  |-> Joined(hook'[u].app),
                                             unit |-> Joined(hook'[u].unit)]]
          /\ CopyBar[u] = [app |-> Joined(hook[u].app), unit |-> Joined(hook[u].unit)]
      BY <1>1, <1>2, CopyChanges
    <2> QED  BY <1>5, <2>1
  <1>7. CopyBar' = [CopyBar EXCEPT ![u].unit = Dict!Set(@, items)]
    <2>1. [CopyBar[u] EXCEPT !.unit = Dict!Set(@, items)]
             = [app |-> Joined(hook[u].app), unit |-> Joined(v)]
      BY <1>4, <1>6
    <2> QED  BY <1>6, <2>1
  <1>8. OnBar' = OnBar /\ WroteBar' = WroteBar /\ VoidBar' = VoidBar /\ u \in OnBar
    BY Zenon, <1>1, <1>5 DEF OnBar, WroteBar, VoidBar
  <1>9. DictBar' = DictBar
    BY <1>1, <1>2, DictKept
  <1> QED  BY <1>1, <1>7, <1>8, <1>9, DictSteps

LEMMA UpdateAppRefined ==
  ASSUME PeerInv, NEW u \in Units, NEW items \in Items("app"), UpdateApp(u, items), u = leader
  PROVE  Dict!WriteApp(u)
  <1>1. /\ hook[u].on /\ UNCHANGED <<bag, secret, leader>>
        /\ \A x \in Units \ {u} : hook'[x] = hook[x]
    BY DEF UpdateApp, PeerInv
  <1> DEFINE v == SetItems(PeerObject(u, "app"), hook[u].app, items)
  <1>2. PeerInv' /\ hook'[u] = [hook[u] EXCEPT !.wrote = TRUE, !.app = v]
    BY UpdateAppStep
  <1>3. hook[u] \in Hooks(u) /\ "app" \in Scopes
    BY DEF PeerInv, Scopes
  <1>4. Joined(v) = Dict!Set(Joined(hook[u].app), items)
    BY <1>3, UpdateSets DEF Hooks
  <1> HIDE DEF v
  <1>5. /\ hook'[u].app = v /\ hook'[u].unit = hook[u].unit
        /\ hook'[u].on = hook[u].on /\ hook'[u].wrote
        /\ hook'[u].void = hook[u].void
    BY <1>2, <1>3 DEF Hooks
  <1>6. /\ CopyBar' = [CopyBar EXCEPT ![u] = [app  |-> Joined(v), unit |-> Joined(hook[u].unit)]]
        /\ CopyBar[u] = [app |-> Joined(hook[u].app), unit |-> Joined(hook[u].unit)]
    <2>1. CopyBar' = [CopyBar EXCEPT ![u] = [app  |-> Joined(hook'[u].app),
                                             unit |-> Joined(hook'[u].unit)]]
          /\ CopyBar[u] = [app |-> Joined(hook[u].app), unit |-> Joined(hook[u].unit)]
      BY <1>1, <1>2, CopyChanges
    <2> QED  BY <1>5, <2>1
  <1>7. CopyBar' = [CopyBar EXCEPT ![u].app = Dict!Set(@, items)]
    <2>1. [CopyBar[u] EXCEPT !.app = Dict!Set(@, items)]
             = [app |-> Joined(v), unit |-> Joined(hook[u].unit)]
      BY <1>4, <1>6
    <2> QED  BY <1>6, <2>1
  <1>8. OnBar' = OnBar /\ WroteBar' = WroteBar \cup {u} /\ VoidBar' = VoidBar /\ u \in OnBar
    BY Zenon, <1>1, <1>5 DEF OnBar, WroteBar, VoidBar
  <1>9. DictBar' = DictBar
    BY <1>1, <1>2, DictKept
  <1> QED  BY <1>1, <1>7, <1>8, <1>9, DictSteps

LEMMA EndRefined ==
  ASSUME PeerInv, NEW u \in Units, Commit(u) \/ Abort(u)
  PROVE  Dict!Commit(u) \/ Dict!Abort(u)
  <1>1. /\ PeerInv' /\ hook[u].on /\ hook' = [hook EXCEPT ![u] = NoHook]
        /\ DOMAIN bag' = Scopes /\ DOMAIN secret' = Scopes
        /\ Commit(u) => /\ ~(hook[u].wrote /\ hook[u].void)
                        /\ View(bag'[u], secret'[u]) = hook[u].unit
                        /\ View(bag'["app"], secret'["app"]) =
                               IF hook[u].wrote THEN hook[u].app
                               ELSE View(bag["app"], secret["app"])
                        /\ \A s \in Scopes \ {u, "app"} : bag'[s] = bag[s] /\ secret'[s] = secret[s]
        /\ Abort(u) => UNCHANGED <<bag, secret>>
    BY EndStep
  <1>2. hook'[u] = NoHook /\ \A x \in Units \ {u} : hook'[x] = hook[x]
    BY <1>1 DEF PeerInv
  <1>3. /\ ~hook'[u].on /\ ~hook'[u].wrote /\ ~hook'[u].void
        /\ hook'[u].app = View(<<>>, <<>>) /\ hook'[u].unit = View(<<>>, <<>>)
    BY <1>2, NoHookFields
  <1>4. /\ CopyBar' = [CopyBar EXCEPT ![u] = [app |-> <<>>, unit |-> <<>>]]
        /\ CopyBar[u] = [app |-> Joined(hook[u].app), unit |-> Joined(hook[u].unit)]
    <2>1. CopyBar' = [CopyBar EXCEPT ![u] = [app  |-> Joined(hook'[u].app),
                                             unit |-> Joined(hook'[u].unit)]]
          /\ CopyBar[u] = [app |-> Joined(hook[u].app), unit |-> Joined(hook[u].unit)]
      BY <1>1, <1>2, CopyChanges
    <2> QED  BY <1>3, <2>1, JoinedBlank
  <1>5. OnBar' = OnBar \ {u} /\ WroteBar' = WroteBar \ {u} /\ VoidBar' = VoidBar \ {u} /\ u \in OnBar
    BY Zenon, <1>1, <1>2, <1>3 DEF OnBar, WroteBar, VoidBar
  <1>6. UNCHANGED leader
    BY DEF Commit, Abort
  <1>7. CASE Abort(u)
    <2>1. DictBar' = DictBar
      BY <1>1, <1>7, DictKept
    <2> QED  BY <1>4, <1>5, <1>6, <2>1, DictSteps
  <1>8. CASE Commit(u)
    <2>1. u \notin WroteBar \cap VoidBar /\ (u \in WroteBar <=> hook[u].wrote)
      BY Zenon, <1>1, <1>8 DEF WroteBar, VoidBar
    <2>2. /\ DictBar = [s \in Scopes |-> Joined(View(bag[s], secret[s]))]
          /\ DictBar' = [s \in Scopes |-> Joined(View(bag'[s], secret'[s]))]
      BY <1>1, Bars, BarsNext
    <2>3. u \in Scopes /\ "app" \in Scopes /\ u # "app"
      BY UnitsAssumption DEF Scopes
    <2>4. /\ CopyBar[u].unit = Joined(hook[u].unit) /\ CopyBar[u].app = Joined(hook[u].app)
      BY <1>4
    <2>5. /\ Joined(View(bag'[u], secret'[u])) = CopyBar[u].unit
          /\ Joined(View(bag'["app"], secret'["app"])) =
                IF u \in WroteBar THEN CopyBar[u].app ELSE Joined(View(bag["app"], secret["app"]))
      BY <1>1, <1>8, <2>1, <2>4
    <2>6. DictBar' = [DictBar EXCEPT ![u] = CopyBar[u].unit,
                                     !["app"] = IF u \in WroteBar THEN CopyBar[u].app ELSE @]
      BY <1>1, <1>8, <2>2, <2>3, <2>5
    <2> QED  BY <1>4, <1>5, <1>6, <2>1, <2>6, DictSteps
  <1> QED  BY <1>7, <1>8

LEMMA LeadRefined ==
  ASSUME PeerInv, NEW u \in Units, LeaderMoves(u) PROVE Dict!NewLeader(u)
  <1>1. u # leader /\ leader' = u /\ UNCHANGED <<bag, secret>>
    BY DEF LeaderMoves
  <1>2. PeerInv' /\ \A x \in Units : hook'[x] = [hook[x] EXCEPT !.void = hook[x].on]
    BY LeadStep
  <1>3. \A x \in Units : /\ hook'[x].app = hook[x].app /\ hook'[x].unit = hook[x].unit
                         /\ hook'[x].on = hook[x].on /\ hook'[x].wrote = hook[x].wrote
                         /\ hook'[x].void = hook[x].on
    BY <1>2 DEF PeerInv, Hooks
  <1>4. OnBar' = OnBar /\ WroteBar' = WroteBar /\ VoidBar' = OnBar
    BY Zenon, <1>3 DEF OnBar, WroteBar, VoidBar
  <1>5. CopyBar' = CopyBar
    BY <1>2, <1>3, Bars, BarsNext
  <1>6. DictBar' = DictBar
    BY <1>1, <1>2, DictKept
  <1> QED  BY <1>1, <1>4, <1>5, <1>6, DictSteps

LEMMA StepRefined == PeerInv /\ [Next]_vars => [Dict!Next]_Dict!vars
  <1> SUFFICES ASSUME PeerInv, [Next]_vars PROVE Dict!Next \/ UNCHANGED Dict!vars
    OBVIOUS
  <1>1. ASSUME UNCHANGED <<bag, secret, leader, hook>>, PeerInv' PROVE UNCHANGED Dict!vars
    <2>1. DictBar' = DictBar /\ CopyBar' = CopyBar
      BY <1>1, Bars, BarsNext
    <2>2. OnBar' = OnBar /\ WroteBar' = WroteBar /\ VoidBar' = VoidBar
      BY <1>1 DEF OnBar, WroteBar, VoidBar
    <2> QED  BY Zenon, <1>1, <2>1, <2>2 DEF Dict!vars, DictBar, CopyBar, OnBar, WroteBar, VoidBar
  <1>2. PeerInv'
    BY PeerStep
  <1>3. CASE UNCHANGED vars
    BY <1>1, <1>2, <1>3 DEF vars
  <1>4. ASSUME NEW u \in Units, NEW items \in Items("app"), UpdateApp(u, items)
        PROVE  Dict!WriteApp(u) \/ UNCHANGED Dict!vars
    <2>1. CASE u = leader
      BY <1>4, <2>1, UpdateAppRefined
    <2>2. CASE u # leader
      <3>1. UNCHANGED <<bag, secret, leader, hook>>
        BY <1>4, <2>2 DEF UpdateApp
      <3> QED  BY <1>1, <1>2, <3>1
    <2> QED  BY <2>1, <2>2
  <1>5. ASSUME NEW u \in Units,
               \/ Begin(u) \/ Commit(u) \/ Abort(u) \/ LeaderMoves(u)
               \/ \E items \in Items(u) : UpdateUnit(u, items)
               \/ \E items \in Items("app") : UpdateApp(u, items)
        PROVE  \/ Dict!Begin(u) \/ Dict!Commit(u) \/ Dict!Abort(u) \/ Dict!NewLeader(u)
               \/ Dict!WriteUnit(u) \/ Dict!WriteApp(u) \/ UNCHANGED Dict!vars
    BY <1>4, <1>5, BeginRefined, EndRefined, LeadRefined, UpdateUnitRefined
  <1> QED  BY <1>3, <1>5 DEF Next, Dict!Next

\* Databags, secrets, hooks that hold back their writes and the loss of a void hook's
\* are together nothing but the dictionaries of SharedDict: what the charm's handlers
\* take the peer relation for (RelationContext and the classes derived from it).
THEOREM PeerRelationIsADictionary == Spec => IsADictionary
  <1>1. Init => Dict!Init
    BY InitRefined
  <1>2. PeerInv /\ [Next]_vars => [Dict!Next]_Dict!vars
    BY StepRefined
  <1> QED  BY <1>1, <1>2, PeerInvariant, PTL DEF Spec, IsADictionary, Dict!Spec

=============================================================================
