------------------------- MODULE CertificatesProofs -------------------------
(***************************************************************************)
(* Theorems about Certificates, for any bounds, addresses and disturbances:*)
(* the types, IdentityMatches, that it implements UnitIdentity,            *)
(* RenewalAskedInTime, and OfferIsUsed of a unit whose relation stays.     *)
(***************************************************************************)
EXTENDS Certificates, NaturalsInduction, WellFoundedInduction, TLAPS

-----------------------------------------------------------------------------
(* Select                                                                  *)

\* f selects from the first m elements.
Selects(f, seq, S, m) ==
    f = [n \in 0..m |-> IF n = 0 THEN <<>>
                        ELSE IF seq[n] \in S THEN Append(f[n - 1], seq[n]) ELSE f[n - 1]]

\* A set of numbers that is not empty has a least one.
LEMMA LeastOf ==
    ASSUME NEW S, S \subseteq Nat, S # {}
    PROVE  \E x \in S : \A y \in S : x <= y
<1>1. PICK x \in S : \A y \in S : <<y, x>> \notin OpToRel(<, Nat)  BY NatLessThanWellFounded, WFMin
<1>2. ASSUME NEW y \in S PROVE x <= y
  <2>1. x \in Nat /\ y \in Nat  OBVIOUS
  <2>2. ~(y < x)  BY <1>1, <2>1, Zenon DEF OpToRel
  <2> QED  BY <2>1, <2>2
<1> QED  BY <1>2

LEMMA SelectsExists ==
    ASSUME NEW T, NEW seq \in Seq(T), NEW S, NEW m \in 0..Len(seq)
    PROVE  \E f : Selects(f, seq, S, m)
<1> DEFINE bad == {n \in 0..Len(seq) : ~\E f : Selects(f, seq, S, n)}
<1>1. SUFFICES ASSUME bad # {} PROVE FALSE  OBVIOUS
<1>2. Len(seq) \in Nat  OBVIOUS
<1>3. PICK n \in bad : \A k \in bad : n <= k
  <2>1. bad \subseteq Nat  BY <1>2
  <2> HIDE DEF bad
  <2> QED  BY <1>1, <2>1, LeastOf
<1>6. n \in Nat /\ n <= Len(seq)  BY <1>2, <1>3
<1>4. CASE n = 0
  <2>1. Selects([k \in 0..0 |-> <<>>], seq, S, 0)  BY DEF Selects
  <2> QED  BY <2>1, <1>4
<1>5. CASE n # 0
  <2>1. n - 1 \in 0..Len(seq) /\ n - 1 \notin bad  BY <1>2, <1>3, <1>5
  <2>2. PICK g : Selects(g, seq, S, n - 1)  BY <2>1
  <2>5. ASSUME NEW k \in 0..(n - 1)
        PROVE  g[k] = IF k = 0 THEN <<>>
                      ELSE IF seq[k] \in S THEN Append(g[k - 1], seq[k]) ELSE g[k - 1]
    BY <2>2, Zenon DEF Selects
  <2> DEFINE h == [k \in 0..n |-> IF k < n THEN g[k]
                                  ELSE IF seq[k] \in S THEN Append(g[k - 1], seq[k]) ELSE g[k - 1]]
  <2>3. h = [k \in 0..n |-> IF k = 0 THEN <<>>
                           ELSE IF seq[k] \in S THEN Append(h[k - 1], seq[k]) ELSE h[k - 1]]
    <3>1. ASSUME NEW k \in 0..n
          PROVE  h[k] = IF k = 0 THEN <<>>
                        ELSE IF seq[k] \in S THEN Append(h[k - 1], seq[k]) ELSE h[k - 1]
      <4>1. k = 0 \/ (k # 0 /\ k < n) \/ (k = n /\ k # 0)  BY <1>6, <1>5
      <4>2. CASE k = 0
        <5>1. 0 \in 0..(n - 1) /\ 0 < n  BY <1>6, <1>5
        <5>2. g[0] = <<>>  BY <2>5, <5>1
        <5> QED  BY <5>1, <5>2, <4>2
      <4>3. CASE k # 0 /\ k < n
        <5>1. k \in 0..(n - 1) /\ k - 1 \in 0..n /\ k - 1 < n /\ k \in 0..n BY <1>6, <4>3
        <5>2. g[k] = IF seq[k] \in S THEN Append(g[k - 1], seq[k]) ELSE g[k - 1]  BY <2>5, <5>1, <4>3, Zenon
        <5>3. h[k] = g[k] /\ h[k - 1] = g[k - 1]  BY <5>1, <4>3
        <5> HIDE DEF h
        <5> QED  BY <5>2, <5>3, <4>3
      <4>4. CASE k = n /\ k # 0
        <5>1. k - 1 \in 0..n /\ k - 1 < n /\ k \in 0..n  BY <1>6, <4>4
        <5>2. h[k - 1] = g[k - 1]  BY <5>1
        <5> QED  BY <5>1, <5>2, <4>4
      <4> QED  BY <4>1, <4>2, <4>3, <4>4
    <3>2. DOMAIN h = 0..n  OBVIOUS
    <3>3. h = [k \in 0..n |-> h[k]]  OBVIOUS
    <3> HIDE DEF h
    <3> QED  BY <3>1, <3>3
  <2>4. Selects(h, seq, S, n)
    <3> HIDE DEF h
    <3> QED  BY <2>3, Zenon DEF Selects
  <2> QED  BY <2>4
<1> QED  BY <1>4, <1>5

LEMMA SelectIn ==
    ASSUME NEW T, NEW seq \in Seq(T), NEW S
    PROVE  Select(seq, S) \in Seq(T \cap S)
<1> DEFINE f == CHOOSE g : Selects(g, seq, S, Len(seq))
<1>1. Len(seq) \in Nat  OBVIOUS
<1>2. Selects(f, seq, S, Len(seq))
  <2>1. \E g : Selects(g, seq, S, Len(seq))  BY <1>1, SelectsExists
  <2> QED  BY <2>1, Zenon
<1>3. Select(seq, S) = f[Len(seq)]  BY Zenon DEF Select, Selects
<1> HIDE DEF f
<1>4. ASSUME NEW k \in 0..Len(seq)
      PROVE  f[k] = IF k = 0 THEN <<>>
                    ELSE IF seq[k] \in S THEN Append(f[k - 1], seq[k]) ELSE f[k - 1]
  BY <1>2, Zenon DEF Selects
<1> DEFINE bad == {n \in 0..Len(seq) : f[n] \notin Seq(T \cap S)}
<1>5. SUFFICES ASSUME bad # {} PROVE FALSE  BY <1>1, <1>3
<1>6. PICK n \in bad : \A k \in bad : n <= k
  <2>1. bad \subseteq Nat  BY <1>1
  <2> HIDE DEF bad
  <2> QED  BY <1>5, <2>1, LeastOf
<1>7. n \in Nat /\ n <= Len(seq) /\ f[n] \notin Seq(T \cap S)  BY <1>1, <1>6
<1>8. CASE n = 0
  <2>1. f[0] = <<>>  BY <1>1, <1>4
  <2>2. <<>> \in Seq(T \cap S)  OBVIOUS
  <2> QED  BY <2>1, <2>2, <1>7, <1>8
<1>9. CASE n # 0
  <2>1. n - 1 \in 0..Len(seq) /\ n - 1 \notin bad  BY <1>6, <1>7, <1>9
  <2>2. f[n - 1] \in Seq(T \cap S)  BY <2>1
  <2>3. n \in 1..Len(seq) /\ seq[n] \in T  BY <1>1, <1>7, <1>9
  <2>4. f[n] = IF seq[n] \in S THEN Append(f[n - 1], seq[n]) ELSE f[n - 1]
    BY <1>4, <1>7, <1>9
  <2> HIDE DEF bad
  <2>5. CASE seq[n] \in S
    <3>1. seq[n] \in T \cap S  BY <2>3, <2>5
    <3>2. Append(f[n - 1], seq[n]) \in Seq(T \cap S)  BY <2>2, <3>1
    <3> QED  BY <3>2, <2>4, <2>5, <1>7
  <2> QED  BY <2>2, <2>4, <2>5, <1>7
<1> QED  BY <1>8, <1>9

LEMMA SelectFrom ==
    ASSUME NEW T, NEW seq \in Seq(T), NEW S
    PROVE  /\ Select(seq, S) \in Seq(T)
           /\ \A x \in ToSet(Select(seq, S)) : x \in ToSet(seq) /\ x \in S
<1>1. seq \in Seq(ToSet(seq))  BY DEF ToSet
<1>2. Select(seq, S) \in Seq(ToSet(seq) \cap S)  BY <1>1, SelectIn
<1>3. ToSet(seq) \subseteq T  BY DEF ToSet
<1>4. \A i \in DOMAIN Select(seq, S) : Select(seq, S)[i] \in ToSet(seq) \cap S  BY <1>2
<1>5. Select(seq, S) \in Seq(T)  BY <1>2, <1>3
<1> QED  BY <1>4, <1>5 DEF ToSet

-----------------------------------------------------------------------------
(* The inductive invariant                                                 *)

\* Certificates on offer, or in an event that waits.
InHand == OfferedCerts \cup Waiting

KeysOrNone == Keys \cup {NoKey}
Ages == {"fresh", "due", "expired"}
Owns == [key : KeysOrNone, cert : Owned, age : Ages]
Tasks ==
    [do : {"ensure", "cleanup", "send", "find", "config", "init"}]
    \cup [do : {"available", "adopt", "expired"}, cert : Certs]
    \cup [do : {"offer"}, offer : Offers] \cup [do : {"broken"}, leads : BOOLEAN]
HookEvents == {"created", "changed", "broken", "config", "secret", "status"}
Hooks ==
    [event : HookEvents, todo : Seq(Tasks), given : KeysOrNone, req : Seq(Requests),
     secrets : SUBSET Secrets, libKey : KeysOrNone, own : Owns, deferred : Seq(Deferrals)]

IsUsable(c) == ~c.ca
OneSecretEach(S) == \A s, t \in S : s.cert.csr = t.cert.csr => s = t

\* A certificate is kept beside its key, and nothing is kept without one.
KeyInv(o) ==
    /\ o.cert.by = "provider" => o.cert.cert.csr.key = o.key
    /\ o.cert # Nothing => o.key # NoKey

\* What a certificate in a deferred event was asked for with is the key that the
\* next hook takes for its own: without the snap there is no other.
DeferredInv(d, o, k) ==
    \A x \in ToSet(d) : x.do = "available" =>
        IsUsable(x.cert) /\ o.key = NoKey /\ x.cert.csr.key = k

StateInv ==
    /\ own \in Owns /\ KeyInv(own)
    /\ ~installed => own.key = NoKey
    /\ DeferredInv(deferred, own, libKey)
    /\ "broken" \in events => rel = "dying"

\* All requests of the hook's copy are made with the key it works with.
Clean(h) == \A r \in ToSet(h.req) : r.key = PrivateKey(h)

\* What a hook is about to do it has good reason for.
TaskInv(t, h) ==
    /\ t.do \in {"available", "adopt"} =>
          t.cert \in InHand /\ IsUsable(t.cert) /\ t.cert.csr.key = PrivateKey(h)
    /\ t.do = "offer" => t.offer \in ToSet(prov)
    /\ t.do = "broken" => h.event = "broken"

\* Offers are looked at only after the requests of other keys were dropped.
CleanFirst(h) ==
    \A i \in DOMAIN h.todo : h.todo[i].do \in {"find", "offer"} =>
        Clean(h) \/ \E j \in DOMAIN h.todo : j < i /\ h.todo[j].do = "cleanup"

\* relation-broken has its handler still to come, or has dropped the certificate.
BrokenInv(h) ==
    h.event = "broken" =>
        \/ h.todo # <<>> /\ h.todo[Len(h.todo)].do = "broken"
        \/ /\ h.own.cert \in {Nothing, SelfSigned}
           /\ \A i \in DOMAIN h.todo : h.todo[i].do \in {"config", "init"}

\* How the hook's copy of key and certificate may differ from the databag's.
OwnInv(h) ==
    /\ h.own.key = own.key \/ h.own.key \in Keys
    /\ h.event # "broken" =>
          \/ h.own.cert = own.cert /\ h.own.key = own.key
          \/ own.cert = Nothing /\ h.own.cert = SelfSigned /\ h.own.key \in Keys
          \/ \E c \in InHand : IsUsable(c) /\ h.own.cert = Issued(c) /\ h.own.key = c.csr.key

HookInv(h) ==
    /\ h \in Hooks /\ OneSecretEach(h.secrets)
    /\ h.given = own.key
    /\ \A i \in DOMAIN h.todo : TaskInv(h.todo[i], h)
    /\ CleanFirst(h) /\ BrokenInv(h) /\ OwnInv(h) /\ KeyInv(h.own)
    /\ ~installed => h.own.key = NoKey
    /\ DeferredInv(h.deferred, h.own, h.libKey)
    /\ \A x \in ToSet(h.deferred) : x.do = "available" => ~installed /\ x.cert \in InHand
    /\ h.event = "broken" => rel = "dying"

Inv == TypeOK /\ StateInv /\ (Idle \/ HookInv(w))

-----------------------------------------------------------------------------
(* Records and sequences                                                    *)

LEMMA PhaseNames == ToSet(Phases) = Ages
<1>1. DOMAIN Phases = {1, 2, 3}  BY DEF Phases
<1> QED  BY <1>1 DEF Phases, ToSet, Ages

LEMMA KeysAreKeys == 0 \notin Keys /\ NoKey = 0 /\ NoKey \notin Keys
BY KeysAssumption DEF Keys, NoKey

LEMMA TwoValues == \E no, yes : no = FALSE /\ yes = TRUE /\ BOOLEAN = {no, yes}
BY Zenon

LEMMA CertFields ==
    /\ \A c \in Certs : c.csr \in Requests /\ c.csr.key \in Keys
    /\ \A o \in Offers : o.cert \in Certs
    /\ \A s \in Secrets : s.cert \in Certs
    /\ \A r \in Requests : r.key \in Keys
    /\ \A d \in Deferrals : d.do \in {"config", "available"} /\ (d.do = "available" => d.cert \in Certs)
BY DEF Certs, Requests, Offers, Secrets, Deferrals

LEMMA TaskFields ==
    \A t \in Tasks :
        /\ t.do \in {"ensure", "cleanup", "send", "find", "config", "init", "available", "adopt",
                     "expired", "offer", "broken"}
        /\ t.do \in {"available", "adopt", "expired"} => t.cert \in Certs
        /\ t.do = "offer" => t.offer \in Offers
BY DEF Tasks

LEMMA TaskValues ==
    /\ \A do \in {"ensure", "cleanup", "send", "find", "config", "init"} : [do |-> do] \in Tasks
    /\ \A do \in {"available", "adopt", "expired"}, c \in Certs : [do |-> do, cert |-> c] \in Tasks
    /\ \A o \in Offers : [do |-> "offer", offer |-> o] \in Tasks
    /\ \A b \in BOOLEAN : [do |-> "broken", leads |-> b] \in Tasks
BY DEF Tasks

LEMMA DeferralsAreTasks == Deferrals \subseteq Tasks
BY DEF Deferrals, Tasks

LEMMA OwnedFields ==
    /\ Nothing.by = "none" /\ SelfSigned.by = "self"
    /\ \A c : Issued(c).by = "provider" /\ Issued(c).cert = c
    /\ Nothing \in Owned /\ SelfSigned \in Owned
    /\ Nothing # SelfSigned /\ \A c : Issued(c) \notin {Nothing, SelfSigned}
    /\ \A c \in Certs : Issued(c) \in Owned
    /\ \A x \in Owned : x.by = "provider" => x.cert \in Certs /\ x = Issued(x.cert)
<1>1. Nothing.by = "none" /\ SelfSigned.by = "self"  BY DEF Nothing, SelfSigned
<1>2. \A c : Issued(c).by = "provider" /\ Issued(c).cert = c  BY DEF Issued
<1>3. Nothing # SelfSigned /\ \A c : Issued(c) \notin {Nothing, SelfSigned}  BY <1>1, <1>2
<1>4. ASSUME NEW x \in Owned, x.by = "provider"  PROVE  x.cert \in Certs /\ x = Issued(x.cert)
  <2>1. PICK c \in Certs : x = Issued(c)  BY <1>1, <1>4 DEF Owned
  <2> QED  BY <2>1, <1>2
<1> QED  BY <1>1, <1>2, <1>3, <1>4 DEF Owned

\* A hook, field by field.
HookOf(e, t, g, r, s, k, o, d) ==
    [event |-> e, todo |-> t, given |-> g, req |-> r, secrets |-> s, libKey |-> k, own |-> o,
     deferred |-> d]

LEMMA HookFields ==
    ASSUME NEW e, NEW t, NEW g, NEW r, NEW s, NEW k, NEW o, NEW d
    PROVE  /\ HookOf(e, t, g, r, s, k, o, d).event = e /\ HookOf(e, t, g, r, s, k, o, d).todo = t
           /\ HookOf(e, t, g, r, s, k, o, d).given = g /\ HookOf(e, t, g, r, s, k, o, d).req = r
           /\ HookOf(e, t, g, r, s, k, o, d).secrets = s /\ HookOf(e, t, g, r, s, k, o, d).libKey = k
           /\ HookOf(e, t, g, r, s, k, o, d).own = o /\ HookOf(e, t, g, r, s, k, o, d).deferred = d
BY DEF HookOf

LEMMA HooksAre ==
    ASSUME NEW h \in Hooks
    PROVE  /\ h = HookOf(h.event, h.todo, h.given, h.req, h.secrets, h.libKey, h.own, h.deferred)
           /\ h.event \in HookEvents /\ h.todo \in Seq(Tasks) /\ h.given \in KeysOrNone
           /\ h.req \in Seq(Requests) /\ h.secrets \subseteq Secrets /\ h.libKey \in KeysOrNone
           /\ h.own \in Owns /\ h.deferred \in Seq(Deferrals)
BY DEF Hooks, HookOf

LEMMA IsHook ==
    ASSUME NEW e \in HookEvents, NEW t \in Seq(Tasks), NEW g \in KeysOrNone, NEW r \in Seq(Requests),
           NEW s \in SUBSET Secrets, NEW k \in KeysOrNone, NEW o \in Owns, NEW d \in Seq(Deferrals)
    PROVE  HookOf(e, t, g, r, s, k, o, d) \in Hooks
BY DEF Hooks, HookOf

LEMMA HookIsNot == \A h \in Hooks : h.event # "none" /\ h # NoHook
BY DEF Hooks, HookEvents, NoHook

LEMMA OwnFields ==
    \A o \in Owns : o.key \in KeysOrNone /\ o.cert \in Owned /\ o.age \in Ages
                    /\ o = [key |-> o.key, cert |-> o.cert, age |-> o.age]
BY DEF Owns

LEMMA Elements ==
    ASSUME NEW S, NEW q \in Seq(S)
    PROVE  /\ \A i \in DOMAIN q : q[i] \in S /\ q[i] \in ToSet(q)
           /\ \A x \in ToSet(q) : x \in S /\ \E i \in DOMAIN q : q[i] = x
           /\ ToSet(q) \subseteq S
BY DEF ToSet

\* The tasks after one has been taken and others were put before the rest.
Follows(next, new, todo) ==
    /\ Len(next) = Len(new) + Len(todo) - 1
    /\ \A i \in DOMAIN next :
          \/ i \in DOMAIN new /\ next[i] = new[i]
          \/ i > Len(new) /\ i - Len(new) + 1 \in DOMAIN todo /\ i - Len(new) + 1 > 1
             /\ next[i] = todo[i - Len(new) + 1]
    /\ \A j \in DOMAIN todo : j > 1 =>
          Len(new) + j - 1 \in DOMAIN next /\ next[Len(new) + j - 1] = todo[j]

LEMMA Pushed ==
    ASSUME NEW S, NEW todo \in Seq(S), todo # <<>>, NEW new \in Seq(S)
    PROVE  new \o Tail(todo) \in Seq(S) /\ Follows(new \o Tail(todo), new, todo)
<1> DEFINE next == new \o Tail(todo)
<1> HIDE DEF next
<1>0. next = new \o Tail(todo)  BY DEF next
<1>1. Tail(todo) \in Seq(S) /\ Len(Tail(todo)) = Len(todo) - 1 /\ Len(todo) \in Nat \ {0}
      /\ Len(new) \in Nat
  OBVIOUS
<1>2. \A i \in 1..(Len(todo) - 1) : Tail(todo)[i] = todo[i + 1]  BY <1>1
<1>3. next \in Seq(S) /\ Len(next) = Len(new) + Len(todo) - 1  BY <1>0, <1>1
<1>4. \A i \in 1..Len(next) : next[i] = IF i <= Len(new) THEN new[i] ELSE Tail(todo)[i - Len(new)]
  BY <1>0, <1>1, <1>3
<1>5. DOMAIN next = 1..Len(next) /\ DOMAIN new = 1..Len(new) /\ DOMAIN todo = 1..Len(todo)  BY <1>3
<1>6. ASSUME NEW i \in DOMAIN next
      PROVE  \/ i \in DOMAIN new /\ next[i] = new[i]
             \/ i > Len(new) /\ i - Len(new) + 1 \in DOMAIN todo /\ i - Len(new) + 1 > 1
                /\ next[i] = todo[i - Len(new) + 1]
  <2>1. i \in 1..Len(next) /\ i \in Nat  BY <1>3, <1>5, <1>1
  <2>2. CASE i <= Len(new)  BY <2>1, <2>2, <1>4, <1>5, <1>1
  <2>3. CASE i > Len(new)
    <3>1. i - Len(new) \in 1..(Len(todo) - 1)  BY <2>1, <2>3, <1>1, <1>3
    <3>4. ~(i <= Len(new))  BY <2>1, <2>3, <1>1
    <3>2. next[i] = Tail(todo)[i - Len(new)]  BY <2>1, <3>4, <1>4, Zenon
    <3>3. next[i] = todo[i - Len(new) + 1]  BY <3>1, <3>2, <1>2
    <3> QED  BY <3>1, <3>3, <2>3, <1>1, <1>5
  <2> QED  BY <2>1, <2>2, <2>3, <1>1
<1>7. ASSUME NEW j \in DOMAIN todo, j > 1
      PROVE  Len(new) + j - 1 \in DOMAIN next /\ next[Len(new) + j - 1] = todo[j]
  <2>1. j \in 2..Len(todo)  BY <1>1, <1>5, <1>7
  <2>2. Len(new) + j - 1 \in 1..Len(next) /\ Len(new) + j - 1 > Len(new)  BY <2>1, <1>1, <1>3
  <2>3. next[Len(new) + j - 1] = Tail(todo)[j - 1]
    <3> DEFINE i == Len(new) + j - 1
    <3>1. i \in 1..Len(next) /\ ~(i <= Len(new)) /\ i - Len(new) = j - 1  BY <2>1, <2>2, <1>1
    <3> HIDE DEF i
    <3>2. next[i] = Tail(todo)[i - Len(new)]  BY <3>1, <1>4, Zenon
    <3> QED  BY <3>1, <3>2 DEF i
  <2>4. j - 1 \in 1..(Len(todo) - 1) /\ j - 1 + 1 = j  BY <2>1, <1>1
  <2> QED  BY <2>2, <2>3, <2>4, <1>2, <1>5
<1> QED  BY <1>0, <1>3, <1>6, <1>7 DEF Follows

-----------------------------------------------------------------------------
(* What a step of a hook must do to keep HookInv                            *)

StepOk(new, h) ==
    /\ OneSecretEach(h.secrets)
    /\ PrivateKey(h) = PrivateKey(w) \/ PrivateKey(w) = NoKey
    /\ Clean(w) \/ Head(w.todo).do = "cleanup" => Clean(h)
    /\ \A i \in DOMAIN new :
          TaskInv(new[i], h) /\ (new[i].do \in {"find", "offer"} => Clean(h))
    /\ Head(w.todo).do \in {"config", "init"} =>
          /\ h.own.cert \in {w.own.cert, SelfSigned}
          /\ \A i \in DOMAIN new : new[i].do \in {"config", "init"}
    /\ OwnInv(h) /\ KeyInv(h.own) /\ (~installed => h.own.key = NoKey)
    /\ DeferredInv(h.deferred, h.own, h.libKey)
    /\ \A x \in ToSet(h.deferred) : x.do = "available" => ~installed /\ x.cert \in InHand

LEMMA StepKeeps ==
    ASSUME HookInv(w), w.todo # <<>>, Head(w.todo).do # "broken",
           NEW new \in Seq(Tasks), NEW r \in Seq(Requests), NEW s \in SUBSET Secrets,
           NEW k \in KeysOrNone, NEW o \in Owns, NEW d \in Seq(Deferrals), NEW h,
           h = HookOf(w.event, new \o Tail(w.todo), w.given, r, s, k, o, d),
           StepOk(new, h)
    PROVE  HookInv(h)
<1>1. /\ h.event = w.event /\ h.todo = new \o Tail(w.todo) /\ h.given = w.given /\ h.req = r
      /\ h.secrets = s /\ h.libKey = k /\ h.own = o /\ h.deferred = d
  BY Zenon DEF HookOf
<1>2. w \in Hooks /\ w.todo \in Seq(Tasks) /\ w.event \in HookEvents /\ w.given \in KeysOrNone
  BY HooksAre DEF HookInv
<1>3. /\ h.todo \in Seq(Tasks) /\ Len(h.todo) = Len(new) + Len(w.todo) - 1
      /\ \A i \in DOMAIN h.todo :
            \/ i \in DOMAIN new /\ h.todo[i] = new[i]
            \/ i > Len(new) /\ i - Len(new) + 1 \in DOMAIN w.todo /\ i - Len(new) + 1 > 1
               /\ h.todo[i] = w.todo[i - Len(new) + 1]
      /\ \A j \in DOMAIN w.todo : j > 1 =>
            Len(new) + j - 1 \in DOMAIN h.todo /\ h.todo[Len(new) + j - 1] = w.todo[j]
  <2>1. h.todo \in Seq(Tasks) /\ Follows(h.todo, new, w.todo)  BY <1>1, <1>2, Pushed
  <2> QED  BY <2>1 DEF Follows
<1>4. h \in Hooks
  <2>1. new \o Tail(w.todo) \in Seq(Tasks)  BY <1>1, <1>3
  <2> QED  BY <2>1, <1>2, IsHook
<1>5. ASSUME NEW i \in DOMAIN h.todo  PROVE  TaskInv(h.todo[i], h)
  <2>1. CASE i \in DOMAIN new /\ h.todo[i] = new[i]  BY <2>1 DEF StepOk
  <2>2. CASE \E j \in DOMAIN w.todo : h.todo[i] = w.todo[j]
    <3>1. PICK j \in DOMAIN w.todo : h.todo[i] = w.todo[j]  BY <2>2
    <3> DEFINE t == h.todo[i]
    <3>2. TaskInv(t, w)  BY <3>1 DEF HookInv
    <3>3. t \in Tasks  BY <1>3
    <3>4. ASSUME t.do \in {"available", "adopt"}
          PROVE  t.cert \in InHand /\ IsUsable(t.cert) /\ t.cert.csr.key = PrivateKey(h)
      <4>1. t.cert \in InHand /\ IsUsable(t.cert) /\ t.cert.csr.key = PrivateKey(w)
        BY <3>2, <3>4 DEF TaskInv
      <4>2. t.cert \in Certs  BY <3>3, <3>4, TaskFields
      <4>4. t.cert.csr.key \in Keys  BY <4>2, CertFields
      <4>3. PrivateKey(w) # NoKey  BY <4>1, <4>4, KeysAreKeys
      <4> QED  BY <4>1, <4>3 DEF StepOk
    <3> QED  BY <3>2, <3>4, <1>1 DEF TaskInv
  <2> QED  BY <2>1, <2>2, <1>3
<1>6. CleanFirst(h)
  <2> SUFFICES ASSUME NEW i \in DOMAIN h.todo, h.todo[i].do \in {"find", "offer"}, ~Clean(h)
               PROVE  \E j \in DOMAIN h.todo : j < i /\ h.todo[j].do = "cleanup"
    BY DEF CleanFirst
  <2>1. ~Clean(w) /\ Head(w.todo).do # "cleanup"  BY DEF StepOk
  <2>2. i \notin DOMAIN new \/ h.todo[i] # new[i]  BY DEF StepOk
  <2>3. i > Len(new) /\ i - Len(new) + 1 \in DOMAIN w.todo /\ h.todo[i] = w.todo[i - Len(new) + 1]
    BY <1>3, <2>2
  <2>4. PICK j \in DOMAIN w.todo : j < i - Len(new) + 1 /\ w.todo[j].do = "cleanup"
    BY <2>1, <2>3 DEF HookInv, CleanFirst
  <2>5. i \in Nat /\ j \in Nat /\ Len(new) \in Nat /\ j >= 1
    <3>1. DOMAIN h.todo = 1..Len(h.todo) /\ DOMAIN w.todo = 1..Len(w.todo)  BY <1>2, <1>3
    <3> QED  BY <3>1
  <2>6. j > 1
    <3>1. CASE j = 1
      <4>1. w.todo[1] = Head(w.todo)  BY <1>2
      <4> QED  BY <3>1, <4>1, <2>1, <2>4
    <3> QED  BY <3>1, <2>5
  <2>7. Len(new) + j - 1 \in DOMAIN h.todo /\ h.todo[Len(new) + j - 1].do = "cleanup"
    BY <2>4, <2>6, <1>3
  <2>8. Len(new) + j - 1 < i  BY <2>4, <2>5
  <2> QED  BY <2>7, <2>8
<1>7. BrokenInv(h)
  <2> SUFFICES ASSUME w.event = "broken"
               PROVE  \/ h.todo # <<>> /\ h.todo[Len(h.todo)].do = "broken"
                      \/ /\ h.own.cert \in {Nothing, SelfSigned}
                         /\ \A i \in DOMAIN h.todo : h.todo[i].do \in {"config", "init"}
    BY <1>1 DEF BrokenInv
  <2>1. w.todo[1] = Head(w.todo) /\ Len(w.todo) \in Nat \ {0} /\ DOMAIN w.todo = 1..Len(w.todo)
        /\ Len(new) \in Nat
    BY <1>2
  <2>2. CASE w.todo[Len(w.todo)].do = "broken"
    <3>1. Len(w.todo) > 1  BY <2>1, <2>2
    <3>2. Len(w.todo) \in DOMAIN w.todo /\ Len(h.todo) = Len(new) + Len(w.todo) - 1
      BY <2>1, <1>3
    <3>3. h.todo[Len(h.todo)] = w.todo[Len(w.todo)]  BY <3>1, <3>2, <1>3
    <3>4. Len(h.todo) > 0  BY <3>1, <3>2, <2>1
    <3>5. h.todo # <<>>  BY <3>4
    <3> QED  BY <3>3, <3>5, <2>2
  <2>3. CASE /\ w.own.cert \in {Nothing, SelfSigned}
             /\ \A i \in DOMAIN w.todo : w.todo[i].do \in {"config", "init"}
    <3>1. Head(w.todo).do \in {"config", "init"}
      <4>1. 1 \in DOMAIN w.todo  BY <2>1
      <4> QED  BY <4>1, <2>1, <2>3
    <3>2. o.cert \in {w.own.cert, SelfSigned} /\ \A i \in DOMAIN new : new[i].do \in {"config", "init"}
      BY <3>1, <1>1 DEF StepOk
    <3> QED  BY <3>2, <1>1, <1>3, <2>3
  <2> QED  BY <2>2, <2>3 DEF HookInv, BrokenInv
<1> QED
  <2>1. h.given = own.key /\ (h.event = "broken" => rel = "dying")  BY <1>1 DEF HookInv
  <2> QED  BY <1>1, <1>4, <1>5, <1>6, <1>7, <2>1 DEF HookInv, StepOk

-----------------------------------------------------------------------------
(* Each task keeps HookInv                                                  *)

\* A copy with one field changed.
WithTodo(h, x)     == [h EXCEPT !.todo = x]
WithReq(h, x)      == [h EXCEPT !.req = x]
WithSecrets(h, x)  == [h EXCEPT !.secrets = x]
WithLibKey(h, x)   == [h EXCEPT !.libKey = x]
WithOwn(h, x)      == [h EXCEPT !.own = x]
WithDeferred(h, x) == [h EXCEPT !.deferred = x]

LEMMA HookUpdates ==
    ASSUME NEW e, NEW t, NEW g, NEW r, NEW s, NEW k, NEW o, NEW d, NEW x
    PROVE  /\ WithTodo(HookOf(e, t, g, r, s, k, o, d), x) = HookOf(e, x, g, r, s, k, o, d)
           /\ WithReq(HookOf(e, t, g, r, s, k, o, d), x) = HookOf(e, t, g, x, s, k, o, d)
           /\ WithSecrets(HookOf(e, t, g, r, s, k, o, d), x) = HookOf(e, t, g, r, x, k, o, d)
           /\ WithLibKey(HookOf(e, t, g, r, s, k, o, d), x) = HookOf(e, t, g, r, s, x, o, d)
           /\ WithOwn(HookOf(e, t, g, r, s, k, o, d), x) = HookOf(e, t, g, r, s, k, x, d)
           /\ WithDeferred(HookOf(e, t, g, r, s, k, o, d), x) = HookOf(e, t, g, r, s, k, o, x)
BY DEF HookOf, WithTodo, WithReq, WithSecrets, WithLibKey, WithOwn, WithDeferred

\* The hook's copy without the task at hand.
Rest == [w EXCEPT !.todo = Tail(@)]
At(do) == HookInv(w) /\ w.todo # <<>> /\ Head(w.todo).do = do

LEMMA RestFields ==
    ASSUME NEW do, At(do)
    PROVE  /\ Rest = HookOf(w.event, Tail(w.todo), w.given, w.req, w.secrets, w.libKey, w.own,
                            w.deferred)
           /\ Rest.event = w.event /\ Rest.todo = Tail(w.todo) /\ Rest.given = w.given
           /\ Rest.req = w.req /\ Rest.secrets = w.secrets /\ Rest.libKey = w.libKey
           /\ Rest.own = w.own /\ Rest.deferred = w.deferred
           /\ Tail(w.todo) = <<>> \o Tail(w.todo)
           /\ PrivateKey(Rest) = PrivateKey(w)
<1>1. w \in Hooks /\ w.todo \in Seq(Tasks) /\ w.todo # <<>>  BY HooksAre DEF HookInv, At
<1>2. Rest = HookOf(w.event, Tail(w.todo), w.given, w.req, w.secrets, w.libKey, w.own, w.deferred)
  <2>1. w = HookOf(w.event, w.todo, w.given, w.req, w.secrets, w.libKey, w.own, w.deferred)
    BY <1>1, HooksAre
  <2>2. Rest = WithTodo(w, Tail(w.todo))  BY DEF Rest, WithTodo
  <2> QED  BY <2>1, <2>2, HookUpdates
<1>3. /\ Rest.event = w.event /\ Rest.todo = Tail(w.todo) /\ Rest.given = w.given
      /\ Rest.req = w.req /\ Rest.secrets = w.secrets /\ Rest.libKey = w.libKey
      /\ Rest.own = w.own /\ Rest.deferred = w.deferred
  BY <1>2, HookFields
<1>4. Tail(w.todo) = <<>> \o Tail(w.todo)
  <2>1. Tail(w.todo) \in Seq(Tasks)  BY <1>1
  <2> QED  BY <2>1
<1>5. PrivateKey(Rest) = PrivateKey(w)  BY <1>3, Zenon DEF PrivateKey
<1> QED  BY <1>2, <1>3, <1>4, <1>5

\* What the task at hand may rely on.
LEMMA AtHand ==
    ASSUME NEW do, At(do), Inv
    PROVE  /\ w \in Hooks /\ w.event \in HookEvents /\ w.todo \in Seq(Tasks)
           /\ w.given \in KeysOrNone /\ w.req \in Seq(Requests) /\ w.secrets \subseteq Secrets
           /\ w.libKey \in KeysOrNone /\ w.own \in Owns /\ w.deferred \in Seq(Deferrals)
           /\ Head(w.todo) \in Tasks /\ TaskInv(Head(w.todo), w)
           /\ do \in {"find", "offer"} => Clean(w)
           /\ w.given = own.key /\ (~installed => w.given = NoKey)
           /\ OneSecretEach(w.secrets) /\ OwnInv(w) /\ KeyInv(w.own)
           /\ ~installed => w.own.key = NoKey
           /\ DeferredInv(w.deferred, w.own, w.libKey)
           /\ \A x \in ToSet(w.deferred) : x.do = "available" => ~installed /\ x.cert \in InHand
           /\ <<>> \in Seq(Tasks) /\ (\A i \in DOMAIN <<>> : FALSE)
<1>1. w \in Hooks  BY DEF At, HookInv
<1>2. w.todo \in Seq(Tasks) /\ w.todo # <<>>  BY <1>1, HooksAre DEF At
<1>3. 1 \in DOMAIN w.todo /\ Head(w.todo) = w.todo[1] /\ Head(w.todo) \in Tasks
  BY <1>2
<1>4. TaskInv(Head(w.todo), w)  BY <1>3 DEF At, HookInv
<1>5. ASSUME do \in {"find", "offer"} PROVE Clean(w)
  <2>1. Clean(w) \/ \E j \in DOMAIN w.todo : j < 1 /\ w.todo[j].do = "cleanup"
    BY <1>3, <1>5 DEF At, HookInv, CleanFirst
  <2>2. \A j \in DOMAIN w.todo : ~(j < 1)  BY <1>2
  <2> QED  BY <2>1, <2>2
<1>6. w.given = own.key /\ (~installed => w.given = NoKey)
  BY DEF At, HookInv, Inv, StateInv
<1>7. <<>> \in Seq(Tasks) /\ (\A i \in DOMAIN <<>> : FALSE)  OBVIOUS
<1>8. /\ OneSecretEach(w.secrets) /\ OwnInv(w) /\ KeyInv(w.own)
      /\ ~installed => w.own.key = NoKey
      /\ DeferredInv(w.deferred, w.own, w.libKey)
      /\ \A x \in ToSet(w.deferred) : x.do = "available" => ~installed /\ x.cert \in InHand
  BY DEF At, HookInv
<1> QED  BY <1>1, <1>3, <1>4, <1>5, <1>6, <1>7, <1>8, HooksAre

LEMMA SameOwn ==
    ASSUME NEW do, At(do), Inv, NEW h, h.event = w.event, h.own = w.own
    PROVE  OwnInv(h) /\ KeyInv(h.own) /\ (~installed => h.own.key = NoKey)
BY AtHand DEF OwnInv

LEMMA EnsureKeeps ==
    ASSUME At("ensure"), Inv, NEW h, h = EnsurePrivateKey(Rest), InBounds(h)
    PROVE  HookInv(h)
<1> DEFINE k == IF w.given # NoKey THEN NoKey ELSE IF w.libKey # NoKey THEN w.libKey ELSE NewKey
<1>1. h = HookOf(w.event, <<>> \o Tail(w.todo), w.given, w.req, w.secrets, k, w.own, w.deferred)
  <2>1. h = WithLibKey(Rest, k)  BY RestFields, Zenon DEF EnsurePrivateKey, WithLibKey
  <2> HIDE DEF k
  <2> QED  BY <2>1, RestFields, HookUpdates
<1>2. /\ h.event = w.event /\ h.given = w.given /\ h.req = w.req /\ h.secrets = w.secrets
      /\ h.libKey = k /\ h.own = w.own /\ h.deferred = w.deferred
  <2> HIDE DEF k
  <2> QED  BY <1>1, HookFields
<1>3. k \in KeysOrNone
  <2> HIDE DEF k
  <2> QED  BY <1>2 DEF InBounds, KeysOrNone
<1>4. PrivateKey(h) = PrivateKey(w) \/ PrivateKey(w) = NoKey  BY <1>2 DEF PrivateKey
<1>5. ASSUME Clean(w) PROVE Clean(h)
  <2> SUFFICES ASSUME NEW r \in ToSet(h.req) PROVE r.key = PrivateKey(h)  BY DEF Clean
  <2>1. r.key = PrivateKey(w)  BY <1>2, <1>5 DEF Clean
  <2>2. r \in Requests  BY <1>2, AtHand, Elements
  <2>3. r.key \in Keys  BY <2>2, CertFields
  <2> QED  BY <2>1, <2>3, <1>4, KeysAreKeys
<1>6. DeferredInv(h.deferred, h.own, h.libKey)
  <2> SUFFICES ASSUME NEW x \in ToSet(w.deferred), x.do = "available"
               PROVE  IsUsable(x.cert) /\ w.own.key = NoKey /\ x.cert.csr.key = k
    BY <1>2 DEF DeferredInv
  <2>1. IsUsable(x.cert) /\ w.own.key = NoKey /\ x.cert.csr.key = w.libKey
    BY AtHand DEF DeferredInv
  <2>2. ~installed  BY AtHand
  <2>3. w.given = NoKey  BY <2>2, AtHand
  <2>4. x \in Deferrals  BY AtHand, Elements
  <2>5. x.cert.csr.key \in Keys  BY <2>4, CertFields
  <2>6. w.libKey # NoKey  BY <2>1, <2>5, KeysAreKeys
  <2> QED  BY <2>1, <2>3, <2>6
<1> HIDE DEF k
<1>7. StepOk(<<>>, h)
  <2>1. OwnInv(h) /\ KeyInv(h.own) /\ (~installed => h.own.key = NoKey)  BY <1>2, SameOwn
  <2> QED  BY <2>1, <1>2, <1>4, <1>5, <1>6, AtHand DEF StepOk, At
<1>8. Head(w.todo).do # "broken" /\ HookInv(w) /\ w.todo # <<>>  BY DEF At
<1> QED  BY <1>1, <1>3, <1>7, <1>8, AtHand, StepKeeps

LEMMA CleanupKeeps ==
    ASSUME At("cleanup"), Inv, NEW h, h = CleanupRequests(Rest)
    PROVE  HookInv(h)
<1> DEFINE S == {x \in ToSet(w.req) : MatchesAttributes(x) /\ x.key = PrivateKey(w)}
           r == Select(w.req, S)
<1>1. h = HookOf(w.event, <<>> \o Tail(w.todo), w.given, r, w.secrets, w.libKey, w.own, w.deferred)
  <2>1. h = WithReq(Rest, r)  BY RestFields, Zenon DEF CleanupRequests, WithReq
  <2> HIDE DEF r
  <2> QED  BY <2>1, RestFields, HookUpdates
<1>2. r \in Seq(Requests) /\ \A x \in ToSet(r) : x \in S  BY AtHand, SelectFrom
<1>3. \A x \in ToSet(r) : x.key = PrivateKey(w)  BY <1>2
<1> HIDE DEF r
<1>4. /\ h.event = w.event /\ h.given = w.given /\ h.req = r /\ h.secrets = w.secrets
      /\ h.libKey = w.libKey /\ h.own = w.own /\ h.deferred = w.deferred
  BY <1>1, HookFields
<1>5. PrivateKey(h) = PrivateKey(w)  BY <1>4 DEF PrivateKey
<1>6. Clean(h)  BY <1>3, <1>4, <1>5 DEF Clean
<1>7. StepOk(<<>>, h)
  <2>1. OwnInv(h) /\ KeyInv(h.own) /\ (~installed => h.own.key = NoKey)  BY <1>4, SameOwn
  <2> QED  BY <2>1, <1>4, <1>5, <1>6, AtHand DEF StepOk, At
<1>8. Head(w.todo).do # "broken" /\ HookInv(w) /\ w.todo # <<>>  BY DEF At
<1> QED  BY <1>1, <1>2, <1>7, <1>8, AtHand, StepKeeps

LEMMA SendKeeps ==
    ASSUME At("send"), Inv, NEW h, h = SendRequests(Rest), InBounds(h)
    PROVE  HookInv(h)
<1> DEFINE new == [id |-> NewRequestId, key |-> PrivateKey(w), san |-> address]
<1>1. PICK r : /\ h = HookOf(w.event, <<>> \o Tail(w.todo), w.given, r, w.secrets, w.libKey, w.own,
                             w.deferred)
               /\ r \in {w.req, Append(w.req, new)}
  <2>1. h = Rest \/ h = WithReq(Rest, Append(w.req, new))
    BY RestFields, Zenon DEF SendRequests, WithReq
  <2> HIDE DEF new
  <2>2. Rest = HookOf(w.event, <<>> \o Tail(w.todo), w.given, w.req, w.secrets, w.libKey, w.own,
                      w.deferred)
    BY RestFields
  <2>3. CASE h = Rest  BY <2>2, <2>3, Zenon
  <2>4. CASE h = WithReq(Rest, Append(w.req, new))
    <3>1. h = HookOf(w.event, <<>> \o Tail(w.todo), w.given, Append(w.req, new), w.secrets, w.libKey,
                     w.own, w.deferred)
      BY <2>2, <2>4, HookUpdates
    <3> QED  BY <3>1, Zenon
  <2> QED  BY <2>1, <2>3, <2>4
<1>2. /\ h.event = w.event /\ h.given = w.given /\ h.req = r /\ h.secrets = w.secrets
      /\ h.libKey = w.libKey /\ h.own = w.own /\ h.deferred = w.deferred
  BY <1>1, HookFields
<1>3. new.key = PrivateKey(w)  OBVIOUS
<1> HIDE DEF new
<1>4. ToSet(r) \subseteq Requests  BY <1>2 DEF InBounds
<1>5. w.req \in Seq(Requests)  BY AtHand
<1>6. r \in Seq(Requests) /\ \A x \in ToSet(r) : x \in ToSet(w.req) \/ x = new
  <2>1. CASE r = w.req  BY <2>1, <1>5
  <2>2. CASE r = Append(w.req, new)
    <3>1. r \in Seq(Requests \cup {new})  BY <2>2, <1>5
    <3>2. \A i \in DOMAIN r : r[i] \in Requests  BY <1>4 DEF ToSet
    <3>3. r \in Seq(Requests)  BY <3>1, <3>2
    <3>4. \A i \in DOMAIN r : r[i] = new \/ \E j \in DOMAIN w.req : r[i] = w.req[j]
      BY <2>2, <1>5
    <3> QED  BY <3>3, <3>4 DEF ToSet
  <2> QED  BY <2>1, <2>2, <1>1
<1>7. PrivateKey(h) = PrivateKey(w)  BY <1>2 DEF PrivateKey
<1>8. Clean(w) => Clean(h)  BY <1>2, <1>3, <1>6, <1>7 DEF Clean
<1>9. StepOk(<<>>, h)
  <2>1. OwnInv(h) /\ KeyInv(h.own) /\ (~installed => h.own.key = NoKey)  BY <1>2, SameOwn
  <2> QED  BY <2>1, <1>2, <1>7, <1>8, AtHand DEF StepOk, At
<1>10. Head(w.todo).do # "broken" /\ HookInv(w) /\ w.todo # <<>>  BY DEF At
<1> QED  BY <1>1, <1>6, <1>9, <1>10, AtHand, StepKeeps

LEMMA FindKeeps ==
    ASSUME At("find"), Inv, NEW h, h = FindAvailable(Rest)
    PROVE  HookInv(h)
<1> DEFINE new == [i \in DOMAIN prov |-> [do |-> "offer", offer |-> prov[i]]]
<1>1. h = HookOf(w.event, new \o Tail(w.todo), w.given, w.req, w.secrets, w.libKey, w.own, w.deferred)
  <2>1. h = WithTodo(Rest, new \o Tail(w.todo))
    BY RestFields, Zenon DEF FindAvailable, Then, WithTodo
  <2> HIDE DEF new
  <2> QED  BY <2>1, RestFields, HookUpdates
<1>2. prov \in Seq(Offers)  BY DEF Inv, TypeOK
<1>3. \A i \in DOMAIN prov : [do |-> "offer", offer |-> prov[i]] \in Tasks  BY <1>2, TaskValues
<1>4. new \in Seq(Tasks)  BY <1>2, <1>3
<1>5. /\ h.event = w.event /\ h.given = w.given /\ h.req = w.req /\ h.secrets = w.secrets
      /\ h.libKey = w.libKey /\ h.own = w.own /\ h.deferred = w.deferred
  <2> HIDE DEF new
  <2> QED  BY <1>1, HookFields
<1>6. PrivateKey(h) = PrivateKey(w)  BY <1>5 DEF PrivateKey
<1>7. Clean(h)  BY <1>5, <1>6, AtHand DEF Clean
<1>8. ASSUME NEW i \in DOMAIN new PROVE TaskInv(new[i], h)
  <2>1. prov[i] \in ToSet(prov)  BY DEF ToSet
  <2>2. new[i].do = "offer" /\ new[i].offer = prov[i]  OBVIOUS
  <2> HIDE DEF new
  <2> QED  BY <2>1, <2>2 DEF TaskInv
<1> HIDE DEF new
<1>9. StepOk(new, h)
  <2>1. OwnInv(h) /\ KeyInv(h.own) /\ (~installed => h.own.key = NoKey)  BY <1>5, SameOwn
  <2> QED  BY <2>1, <1>5, <1>6, <1>7, <1>8, AtHand DEF StepOk, At
<1>10. Head(w.todo).do # "broken" /\ HookInv(w) /\ w.todo # <<>>  BY DEF At
<1> QED  BY <1>1, <1>4, <1>9, <1>10, AtHand, StepKeeps

LEMMA AvailableKeeps ==
    ASSUME At("available"), Inv, NEW h, h = CertificateAvailable(Rest, Head(w.todo).cert)
    PROVE  HookInv(h)
<1> DEFINE c == Head(w.todo).cert
           x == [do |-> "available", cert |-> c]
           later == <<[do |-> "init"], [do |-> "adopt", cert |-> c], [do |-> "config"]>>
<1>1. c \in Certs /\ c \in InHand /\ IsUsable(c) /\ c.csr.key = PrivateKey(w)
  BY AtHand, TaskFields DEF TaskInv, At
<1>2. Head(w.todo).do # "broken" /\ HookInv(w) /\ w.todo # <<>>  BY DEF At
<1>3. CASE installed
  <2>1. h = HookOf(w.event, later \o Tail(w.todo), w.given, w.req, w.secrets, w.libKey, w.own,
                   w.deferred)
    <3>1. h = WithTodo(Rest, later \o Tail(w.todo))
      BY <1>3, RestFields, Zenon DEF CertificateAvailable, Then, WithTodo
    <3> HIDE DEF later
    <3> QED  BY <3>1, RestFields, HookUpdates
  <2>2. later \in Seq(Tasks)
    <3> HIDE DEF c
    <3>1. [do |-> "init"] \in Tasks /\ [do |-> "adopt", cert |-> c] \in Tasks /\ [do |-> "config"] \in Tasks
      BY <1>1, TaskValues
    <3> QED  BY <3>1
  <2>3. DOMAIN later = {1, 2, 3} /\ later[1].do = "init" /\ later[2].do = "adopt" /\ later[2].cert = c
        /\ later[3].do = "config"
    OBVIOUS
  <2> HIDE DEF later
  <2>4. /\ h.event = w.event /\ h.given = w.given /\ h.req = w.req /\ h.secrets = w.secrets
        /\ h.libKey = w.libKey /\ h.own = w.own /\ h.deferred = w.deferred
    BY <2>1, HookFields
  <2>5. PrivateKey(h) = PrivateKey(w)  BY <2>4 DEF PrivateKey
  <2>6. Clean(w) => Clean(h)  BY <2>4, <2>5 DEF Clean
  <2> HIDE DEF c
  <2>7. \A i \in DOMAIN later : TaskInv(later[i], h) /\ later[i].do \notin {"find", "offer"}
    BY <1>1, <2>3, <2>5 DEF TaskInv
  <2>8. StepOk(later, h)
    <3>1. OwnInv(h) /\ KeyInv(h.own) /\ (~installed => h.own.key = NoKey)  BY <2>4, SameOwn
    <3> QED  BY <3>1, <2>4, <2>5, <2>6, <2>7, AtHand DEF StepOk, At
  <2> QED  BY <2>1, <2>2, <2>8, <1>2, AtHand, StepKeeps
<1>4. CASE ~installed
  <2> DEFINE d == Append(w.deferred, x)
  <2>1. h = HookOf(w.event, <<>> \o Tail(w.todo), w.given, w.req, w.secrets, w.libKey, w.own, d)
    <3>1. h = WithDeferred(Rest, d)
      BY <1>4, RestFields, Zenon DEF CertificateAvailable, WithDeferred
    <3> HIDE DEF d
    <3> QED  BY <3>1, RestFields, HookUpdates
  <2>2. x.do = "available" /\ x.cert = c  OBVIOUS
  <2>3. x \in Deferrals
    <3> HIDE DEF c
    <3> QED  BY <1>1 DEF Deferrals
  <2> HIDE DEF x
  <2>4. d \in Seq(Deferrals) /\ \A y \in ToSet(d) : y \in ToSet(w.deferred) \/ y = x
    BY <2>3, AtHand DEF ToSet
  <2> HIDE DEF d, c
  <2>5. /\ h.event = w.event /\ h.given = w.given /\ h.req = w.req /\ h.secrets = w.secrets
        /\ h.libKey = w.libKey /\ h.own = w.own /\ h.deferred = d
    BY <2>1, HookFields
  <2>6. PrivateKey(h) = PrivateKey(w)  BY <2>5 DEF PrivateKey
  <2>7. Clean(w) => Clean(h)  BY <2>5, <2>6 DEF Clean
  <2>8. w.own.key = NoKey /\ PrivateKey(w) = w.libKey  BY <1>4, AtHand DEF PrivateKey
  <2>9. DeferredInv(d, w.own, w.libKey)
    BY <2>2, <2>4, <2>8, <1>1, AtHand DEF DeferredInv
  <2>10. \A y \in ToSet(d) : y.do = "available" => ~installed /\ y.cert \in InHand
    BY <2>2, <2>4, <1>1, <1>4, AtHand
  <2>11. StepOk(<<>>, h)
    <3>1. OwnInv(h) /\ KeyInv(h.own) /\ (~installed => h.own.key = NoKey)  BY <2>5, SameOwn
    <3> QED  BY <3>1, <2>5, <2>6, <2>7, <2>9, <2>10, AtHand DEF StepOk, At
  <2> QED  BY <2>1, <2>4, <2>11, <1>2, AtHand, StepKeeps
<1> QED  BY <1>3, <1>4

LEMMA PlainKeeps ==
    ASSUME NEW do, At(do), do \notin {"broken", "cleanup"}, Inv, NEW h, h = Rest
    PROVE  HookInv(h)
<1>1. h = HookOf(w.event, <<>> \o Tail(w.todo), w.given, w.req, w.secrets, w.libKey, w.own, w.deferred)
  BY RestFields
<1>2. /\ h.event = w.event /\ h.given = w.given /\ h.req = w.req /\ h.secrets = w.secrets
      /\ h.libKey = w.libKey /\ h.own = w.own /\ h.deferred = w.deferred
  BY <1>1, HookFields
<1>3. PrivateKey(h) = PrivateKey(w)  BY <1>2 DEF PrivateKey
<1>4. Clean(w) => Clean(h)  BY <1>2, <1>3 DEF Clean
<1>5. StepOk(<<>>, h)
  <2>1. OwnInv(h) /\ KeyInv(h.own) /\ (~installed => h.own.key = NoKey)  BY <1>2, SameOwn
  <2> QED  BY <2>1, <1>2, <1>3, <1>4, AtHand DEF StepOk, At
<1>6. Head(w.todo).do # "broken" /\ HookInv(w) /\ w.todo # <<>>  BY DEF At
<1> QED  BY <1>1, <1>5, <1>6, AtHand, StepKeeps

LEMMA ConfigKeeps ==
    ASSUME At("config"), Inv, NEW h, h = ConfigChanged(Rest)
    PROVE  HookInv(h)
<1>1. Head(w.todo).do # "broken" /\ HookInv(w) /\ w.todo # <<>>  BY DEF At
<1>2. CASE appReady
  <2> DEFINE new == <<[do |-> "init"]>>
  <2>1. h = HookOf(w.event, new \o Tail(w.todo), w.given, w.req, w.secrets, w.libKey, w.own,
                   w.deferred)
    <3>1. h = WithTodo(Rest, new \o Tail(w.todo))
      BY <1>2, RestFields, Zenon DEF ConfigChanged, Then, WithTodo
    <3> HIDE DEF new
    <3> QED  BY <3>1, RestFields, HookUpdates
  <2>2. new \in Seq(Tasks)
    <3>1. [do |-> "init"] \in Tasks  BY TaskValues
    <3> QED  BY <3>1
  <2>3. DOMAIN new = {1} /\ new[1].do = "init"  OBVIOUS
  <2> HIDE DEF new
  <2>4. /\ h.event = w.event /\ h.given = w.given /\ h.req = w.req /\ h.secrets = w.secrets
        /\ h.libKey = w.libKey /\ h.own = w.own /\ h.deferred = w.deferred
    BY <2>1, HookFields
  <2>5. PrivateKey(h) = PrivateKey(w)  BY <2>4 DEF PrivateKey
  <2>6. Clean(w) => Clean(h)  BY <2>4, <2>5 DEF Clean
  <2>7. \A i \in DOMAIN new : TaskInv(new[i], h) /\ new[i].do = "init"  BY <2>3 DEF TaskInv
  <2>8. StepOk(new, h)
    <3>1. OwnInv(h) /\ KeyInv(h.own) /\ (~installed => h.own.key = NoKey)  BY <2>4, SameOwn
    <3> QED  BY <3>1, <2>4, <2>5, <2>6, <2>7, AtHand DEF StepOk, At
  <2> QED  BY <2>1, <2>2, <2>8, <1>1, AtHand, StepKeeps
<1>3. CASE ~appReady
  <2> DEFINE x == [do |-> "config"]
             d == Append(w.deferred, x)
  <2>1. h = Rest \/ h = WithDeferred(Rest, d)
    BY <1>3, RestFields, Zenon DEF ConfigChanged, DeferConfig, WithDeferred
  <2>2. CASE h = Rest  BY <2>2, PlainKeeps
  <2>3. CASE h = WithDeferred(Rest, d)
    <3>1. x \in Deferrals /\ x.do # "available"  BY DEF Deferrals
    <3> HIDE DEF x
    <3>2. d \in Seq(Deferrals) /\ \A y \in ToSet(d) : y \in ToSet(w.deferred) \/ y = x
      BY <3>1, AtHand DEF ToSet
    <3> HIDE DEF d
    <3>3. h = HookOf(w.event, <<>> \o Tail(w.todo), w.given, w.req, w.secrets, w.libKey, w.own, d)
      BY <2>3, RestFields, HookUpdates
    <3>5. /\ h.event = w.event /\ h.given = w.given /\ h.req = w.req /\ h.secrets = w.secrets
          /\ h.libKey = w.libKey /\ h.own = w.own /\ h.deferred = d
      BY <3>3, HookFields
    <3>6. PrivateKey(h) = PrivateKey(w)  BY <3>5 DEF PrivateKey
    <3>7. Clean(w) => Clean(h)  BY <3>5, <3>6 DEF Clean
    <3>8. DeferredInv(d, w.own, w.libKey)  BY <3>1, <3>2, AtHand DEF DeferredInv
    <3>9. \A y \in ToSet(d) : y.do = "available" => ~installed /\ y.cert \in InHand
      BY <3>1, <3>2, AtHand
    <3>10. StepOk(<<>>, h)
      <4>1. OwnInv(h) /\ KeyInv(h.own) /\ (~installed => h.own.key = NoKey)  BY <3>5, SameOwn
      <4> QED  BY <4>1, <3>5, <3>6, <3>7, <3>8, <3>9, AtHand DEF StepOk, At
    <3> QED  BY <3>2, <3>3, <3>10, <1>1, AtHand, StepKeeps
  <2> QED  BY <2>1, <2>2, <2>3
<1> QED  BY <1>2, <1>3

LEMMA AgeOfIsAnAge ==
    ASSUME NEW s, s.secrets \subseteq Secrets, NEW c
    PROVE  AgeOf(s, c) \in Ages
<1>1. CASE \E t \in s.secrets : t.cert = c
  <2> DEFINE t == CHOOSE x \in s.secrets : x.cert = c
  <2>1. t \in s.secrets  BY <1>1
  <2>2. AgeOf(s, c) = t.age  BY <1>1, Zenon DEF AgeOf
  <2> HIDE DEF t
  <2>3. t \in Secrets  BY <2>1
  <2>4. t.age \in ToSet(Phases)  BY <2>3 DEF Secrets
  <2> QED  BY <2>2, <2>4, PhaseNames
<1>2. CASE ~\E t \in s.secrets : t.cert = c
  <2>1. AgeOf(s, c) = "due"  BY <1>2, Zenon DEF AgeOf
  <2> QED  BY <2>1 DEF Ages
<1> QED  BY <1>1, <1>2

LEMMA AdoptKeeps ==
    ASSUME At("adopt"), Inv, installed, NEW h, h = Adopt(Rest, Head(w.todo).cert)
    PROVE  HookInv(h)
<1> DEFINE c == Head(w.todo).cert
           o == [key |-> PrivateKey(w), cert |-> Issued(c), age |-> AgeOf(Rest, c)]
<1>1. c \in Certs /\ c \in InHand /\ IsUsable(c) /\ c.csr.key = PrivateKey(w)
  BY AtHand, TaskFields DEF TaskInv, At
<1>2. h = HookOf(w.event, <<>> \o Tail(w.todo), w.given, w.req, w.secrets, w.libKey, o, w.deferred)
  <2>1. h = WithOwn(Rest, o)  BY RestFields, Zenon DEF Adopt, WithOwn
  <2> HIDE DEF o
  <2> QED  BY <2>1, RestFields, HookUpdates
<1>3. o.key = PrivateKey(w) /\ o.cert = Issued(c)  OBVIOUS
<1>4. AgeOf(Rest, c) \in Ages
  <2>1. Rest.secrets \subseteq Secrets  BY RestFields, AtHand
  <2> QED  BY <2>1, AgeOfIsAnAge
<1>5. PrivateKey(w) \in Keys  BY <1>1, CertFields
<1>6. Issued(c) \in Owned  BY <1>1, OwnedFields
<1> HIDE DEF c
<1>7. o \in Owns  BY <1>4, <1>5, <1>6 DEF Owns, KeysOrNone
<1> HIDE DEF o
<1>8. /\ h.event = w.event /\ h.given = w.given /\ h.req = w.req /\ h.secrets = w.secrets
      /\ h.libKey = w.libKey /\ h.own = o /\ h.deferred = w.deferred
  BY <1>2, HookFields
<1>9. PrivateKey(h) = PrivateKey(w)  BY <1>8 DEF PrivateKey
<1>10. Clean(w) => Clean(h)  BY <1>8, <1>9 DEF Clean
<1>11. KeyInv(o)
  <2>1. o.cert.cert = c  BY <1>3, OwnedFields
  <2> QED  BY <2>1, <1>1, <1>3, <1>5, KeysAreKeys DEF KeyInv
<1>12. OwnInv(h)
  <2>1. h.own.key \in Keys  BY <1>3, <1>5, <1>8
  <2>2. IsUsable(c) /\ c \in InHand /\ h.own.cert = Issued(c) /\ h.own.key = c.csr.key
    BY <1>1, <1>3, <1>8
  <2> QED  BY <2>1, <2>2 DEF OwnInv
<1>13. DeferredInv(w.deferred, o, w.libKey)  BY AtHand DEF DeferredInv
<1>14. StepOk(<<>>, h)
  BY <1>8, <1>9, <1>10, <1>11, <1>12, <1>13, AtHand DEF StepOk, At
<1>15. Head(w.todo).do # "broken" /\ HookInv(w) /\ w.todo # <<>>  BY DEF At
<1> QED  BY <1>2, <1>7, <1>14, <1>15, AtHand, StepKeeps

LEMMA LiveCertsAreCerts ==
    ASSUME Inv
    PROVE  LiveCerts \subseteq Certs /\ OfferedCerts \subseteq Certs /\ Waiting \subseteq Certs
<1>1. prov \in Seq(Offers) /\ deferred \in Seq(Deferrals) /\ secrets \subseteq Secrets /\ own.cert \in Owned
  BY DEF Inv, TypeOK
<1>2. OfferedCerts \subseteq Certs
  <2>1. \A o \in ToSet(prov) : o \in Offers  BY <1>1, Elements
  <2> QED  BY <2>1, CertFields DEF OfferedCerts
<1>3. Waiting \subseteq Certs
  <2>1. \A d \in ToSet(deferred) : d \in Deferrals  BY <1>1, Elements
  <2> QED  BY <2>1, CertFields DEF Waiting
<1>4. OwnCerts \subseteq Certs
  <2>1. own.cert.by = "provider" => own.cert.cert \in Certs  BY <1>1, OwnedFields
  <2> QED  BY <2>1 DEF OwnCerts
<1>5. {s.cert : s \in secrets} \subseteq Certs  BY <1>1, CertFields
<1> QED  BY <1>2, <1>3, <1>4, <1>5 DEF LiveCerts

LEMMA LiveKeysAreKeys ==
    ASSUME Inv, HookInv(w)
    PROVE  LiveKeys \subseteq KeysOrNone
<1>1. w \in Hooks  BY DEF HookInv
<1>2. LiveRequests \subseteq Requests
  <2>1. ToSet(req) \subseteq Requests  BY Elements DEF Inv, TypeOK
  <2>2. {c.csr : c \in LiveCerts} \subseteq Requests  BY LiveCertsAreCerts, CertFields
  <2>3. ToSet(w.req) \subseteq Requests  BY <1>1, HooksAre, Elements
  <2> QED  BY <2>1, <2>2, <2>3 DEF LiveRequests
<1>3. {r.key : r \in LiveRequests} \subseteq Keys  BY <1>2, CertFields
<1>4. libKey \in KeysOrNone /\ own.key \in KeysOrNone  BY DEF Inv, TypeOK, KeysOrNone
<1>5. w.libKey \in KeysOrNone /\ w.own.key \in KeysOrNone  BY <1>1, HooksAre, OwnFields
<1> QED  BY <1>3, <1>4, <1>5 DEF LiveKeys, KeysOrNone

\* There is always a new key.
LEMMA NewKeyIsNew ==
    ASSUME Inv, HookInv(w)
    PROVE  NewKey \in Nat \ {0}
<1> DEFINE S == 1..(MaxKeys + 2) \ LiveKeys
<1>1. MaxKeys \in Nat  BY KeysAssumption
<1>2. MaxKeys + 1 \notin LiveKeys  BY <1>1, LiveKeysAreKeys DEF KeysOrNone, Keys, NoKey
<1>3. MaxKeys + 1 \in S  BY <1>1, <1>2
<1>4. S \subseteq Nat \ {0}  BY <1>1
<1> HIDE DEF S
<1>5. \E x \in S : \A y \in S : x <= y  BY <1>3, <1>4, LeastOf
<1>6. Smallest(S) \in S  BY <1>5, Zenon DEF Smallest
<1> QED  BY <1>4, <1>6 DEF NewKey, S

LEMMA InitKeeps ==
    ASSUME At("init"), Inv, NEW h, h = InitUnitTls(Rest), InBounds(h),
           NeedsKeytool(Head(w.todo)) => installed
    PROVE  HookInv(h)
<1> DEFINE o == [key |-> NewKey, cert |-> SelfSigned, age |-> "fresh"]
<1>1. h = Rest \/ (h = WithOwn(Rest, o) /\ (w.own.cert = Nothing \/ w.own.key = NoKey))
  BY RestFields, Zenon DEF InitUnitTls, WithOwn
<1>2. CASE h = Rest  BY <1>2, PlainKeeps
<1>3. CASE h = WithOwn(Rest, o) /\ (w.own.cert = Nothing \/ w.own.key = NoKey)
  <2>1. o.key = NewKey /\ o.cert = SelfSigned  OBVIOUS
  <2>2. installed  BY <1>3 DEF NeedsKeytool, At
  <2>3. w.own.cert = Nothing  BY <1>3, AtHand DEF KeyInv
  <2>4. h = HookOf(w.event, <<>> \o Tail(w.todo), w.given, w.req, w.secrets, w.libKey, o, w.deferred)
    <3> HIDE DEF o
    <3> QED  BY <1>3, RestFields, HookUpdates
  <2>5. /\ h.event = w.event /\ h.given = w.given /\ h.req = w.req /\ h.secrets = w.secrets
        /\ h.libKey = w.libKey /\ h.own = o /\ h.deferred = w.deferred
    <3> HIDE DEF o
    <3> QED  BY <2>4, HookFields
  <2>6. NewKey \in Keys
    <3>1. NewKey \in Keys \cup {NoKey}  BY <2>1, <2>5 DEF InBounds
    <3>2. NewKey # 0
      <4>1. HookInv(w)  BY DEF At
      <4> QED  BY <4>1, NewKeyIsNew
    <3> QED  BY <3>1, <3>2, KeysAreKeys
  <2>7. o \in Owns  BY <2>6, OwnedFields DEF Owns, KeysOrNone, Ages
  <2> HIDE DEF o
  <2>8. PrivateKey(h) = PrivateKey(w)  BY <2>5 DEF PrivateKey
  <2>9. Clean(w) => Clean(h)  BY <2>5, <2>8 DEF Clean
  <2>10. KeyInv(o)  BY <2>1, <2>6, KeysAreKeys, OwnedFields DEF KeyInv
  <2>11. OwnInv(h)
    <3>1. h.own.key \in Keys /\ h.own.cert = SelfSigned  BY <2>1, <2>5, <2>6
    <3>2. h.event # "broken" => own.cert = Nothing
      <4> SUFFICES ASSUME w.event # "broken" PROVE own.cert = Nothing  BY <2>5
      <4>1. OwnInv(w)  BY AtHand
      <4> QED  BY <4>1, <2>3, OwnedFields DEF OwnInv
    <3> QED  BY <3>1, <3>2 DEF OwnInv
  <2>12. DeferredInv(w.deferred, o, w.libKey)  BY <2>2, AtHand DEF DeferredInv
  <2>13. StepOk(<<>>, h)
    BY <2>1, <2>2, <2>5, <2>8, <2>9, <2>10, <2>11, <2>12, AtHand DEF StepOk, At
  <2>14. Head(w.todo).do # "broken" /\ HookInv(w) /\ w.todo # <<>>  BY DEF At
  <2> QED  BY <2>4, <2>7, <2>13, <2>14, AtHand, StepKeeps
<1> QED  BY <1>1, <1>2, <1>3

\* Copies with several fields changed.
WithSecretsReq(h, x, y) == [h EXCEPT !.secrets = x, !.req = y]
WithoutCert(h) == [h EXCEPT !.own.cert = Nothing, !.own.age = "fresh", !.req = <<>>]

LEMMA TwoFields ==
    ASSUME NEW e, NEW t, NEW g, NEW r, NEW s, NEW k, NEW o, NEW d, NEW x, NEW y
    PROVE  WithSecretsReq(HookOf(e, t, g, r, s, k, o, d), x, y) = HookOf(e, t, g, y, x, k, o, d)
<1> DEFINE h == HookOf(e, t, g, r, s, k, o, d)
           r1 == [h EXCEPT !.secrets = x]
           r2 == [r1 EXCEPT !.req = y]
<1>1. WithSecretsReq(h, x, y) = r2  BY DEF WithSecretsReq
<1>2. r1 = HookOf(e, t, g, r, x, k, o, d)
  <2>1. r1 = WithSecrets(h, x)  BY DEF WithSecrets
  <2> HIDE DEF r1
  <2> QED  BY <2>1, HookUpdates
<1> HIDE DEF r1
<1>3. r2 = HookOf(e, t, g, y, x, k, o, d)
  <2>1. r2 = WithReq(r1, y)  BY DEF WithReq
  <2> HIDE DEF r2
  <2> QED  BY <2>1, <1>2, HookUpdates
<1> QED  BY <1>1, <1>3

LEMMA ThreeFields ==
    ASSUME NEW e, NEW t, NEW g, NEW r, NEW s, NEW k, NEW o \in Owns, NEW d
    PROVE  WithoutCert(HookOf(e, t, g, r, s, k, o, d))
           = HookOf(e, t, g, <<>>, s, k, [key |-> o.key, cert |-> Nothing, age |-> "fresh"], d)
<1> DEFINE h == HookOf(e, t, g, r, s, k, o, d)
           r1 == [h EXCEPT !.own.cert = Nothing]
           r2 == [r1 EXCEPT !.own.age = "fresh"]
           r3 == [r2 EXCEPT !.req = <<>>]
           o1 == [key |-> o.key, cert |-> Nothing, age |-> o.age]
           o2 == [key |-> o.key, cert |-> Nothing, age |-> "fresh"]
<1>1. WithoutCert(h) = r3  BY DEF WithoutCert
<1>2. r1 = HookOf(e, t, g, r, s, k, o1, d)
  <2>1. o = [key |-> o.key, cert |-> o.cert, age |-> o.age]  BY OwnFields
  <2>2. h.own = o  BY HookFields
  <2>3. [o EXCEPT !.cert = Nothing] = o1  BY <2>1
  <2>4. r1 = [h EXCEPT !.own = [o EXCEPT !.cert = Nothing]]  BY <2>2
  <2> HIDE DEF o1
  <2>5. r1 = WithOwn(h, o1)  BY <2>3, <2>4, Zenon DEF WithOwn
  <2> QED  BY <2>5, HookUpdates
<1> HIDE DEF r1
<1>3. r2 = HookOf(e, t, g, r, s, k, o2, d)
  <2>2. r1.own = o1
    <3> HIDE DEF o1
    <3> QED  BY <1>2, HookFields
  <2>3. [o1 EXCEPT !.age = "fresh"] = o2  OBVIOUS
  <2>4. r2 = [r1 EXCEPT !.own = [o1 EXCEPT !.age = "fresh"]]  BY <2>2
  <2> HIDE DEF o1, o2
  <2>5. r2 = WithOwn(r1, o2)  BY <2>3, <2>4, Zenon DEF WithOwn
  <2> QED  BY <2>5, <1>2, HookUpdates
<1> HIDE DEF r2
<1>4. r3 = HookOf(e, t, g, <<>>, s, k, o2, d)
  <2> HIDE DEF o2
  <2>1. r3 = WithReq(r2, <<>>)  BY DEF WithReq
  <2> QED  BY <2>1, <1>3, HookUpdates
<1> QED  BY <1>1, <1>4

LEMMA ExpiredKeeps ==
    ASSUME At("expired"), Inv, NEW h, h = SecretExpired(Rest, Head(w.todo).cert)
    PROVE  HookInv(h)
<1> DEFINE c == Head(w.todo).cert
           s == {t \in w.secrets : t.cert # c}
           r == Select(w.req, ToSet(w.req) \ {c.csr})
           new == <<[do |-> "send"]>>
<1>1. h = Rest \/ h = WithTodo(WithSecretsReq(Rest, s, r), new \o WithSecretsReq(Rest, s, r).todo)
  BY RestFields, Zenon DEF SecretExpired, Then, WithTodo, WithSecretsReq
<1>2. CASE h = Rest  BY <1>2, PlainKeeps
<1>3. CASE h = WithTodo(WithSecretsReq(Rest, s, r), new \o WithSecretsReq(Rest, s, r).todo)
  <2>1. s \subseteq w.secrets  OBVIOUS
  <2>2. r \in Seq(Requests) /\ \A x \in ToSet(r) : x \in ToSet(w.req)  BY AtHand, SelectFrom
  <2>3. new \in Seq(Tasks)
    <3>1. [do |-> "send"] \in Tasks  BY TaskValues
    <3> QED  BY <3>1
  <2>4. DOMAIN new = {1} /\ new[1].do = "send"  OBVIOUS
  <2> HIDE DEF s, r, new
  <2>5. WithSecretsReq(Rest, s, r)
        = HookOf(w.event, Tail(w.todo), w.given, r, s, w.libKey, w.own, w.deferred)
    BY RestFields, TwoFields
  <2>6. h = HookOf(w.event, new \o Tail(w.todo), w.given, r, s, w.libKey, w.own, w.deferred)
    <3>1. WithSecretsReq(Rest, s, r).todo = Tail(w.todo)  BY <2>5, HookFields
    <3> QED  BY <3>1, <2>5, <1>3, HookUpdates
  <2>7. /\ h.event = w.event /\ h.given = w.given /\ h.req = r /\ h.secrets = s
        /\ h.libKey = w.libKey /\ h.own = w.own /\ h.deferred = w.deferred
    BY <2>6, HookFields
  <2>8. PrivateKey(h) = PrivateKey(w)  BY <2>7 DEF PrivateKey
  <2>9. Clean(w) => Clean(h)  BY <2>2, <2>7, <2>8 DEF Clean
  <2>10. s \in SUBSET Secrets  BY <2>1, AtHand
  <2>11. OneSecretEach(s)  BY <2>1, AtHand DEF OneSecretEach
  <2>12. \A i \in DOMAIN new : TaskInv(new[i], h) /\ new[i].do \notin {"find", "offer"}
    BY <2>4 DEF TaskInv
  <2>13. StepOk(new, h)
    <3>1. OwnInv(h) /\ KeyInv(h.own) /\ (~installed => h.own.key = NoKey)  BY <2>7, SameOwn
    <3> QED  BY <3>1, <2>7, <2>8, <2>9, <2>11, <2>12, AtHand DEF StepOk, At
  <2>14. Head(w.todo).do # "broken" /\ HookInv(w) /\ w.todo # <<>>  BY DEF At
  <2> QED  BY <2>2, <2>3, <2>6, <2>10, <2>13, <2>14, AtHand, StepKeeps
<1> QED  BY <1>1, <1>2, <1>3

LEMMA OfferKeeps ==
    ASSUME At("offer"), Inv, NEW h, h = TakeOffer(Rest, Head(w.todo).offer)
    PROVE  HookInv(h)
<1> DEFINE offer == Head(w.todo).offer
           c == offer.cert
           old == SecretOf(w, c.csr)
           put == [cert |-> c, age |-> "fresh", replaced |-> old # {},
                   expire |-> IF old = {} THEN "due" ELSE "expired"]
           s == (w.secrets \ old) \cup {put}
           new == <<[do |-> "available", cert |-> c]>>
<1>1. SecretOf(Rest, c.csr) = old  BY RestFields, Zenon DEF SecretOf
<1>2. \/ h = Rest
      \/ h = WithSecrets(Rest, w.secrets \ old)
      \/ /\ h = WithTodo(WithSecrets(Rest, s), new \o WithSecrets(Rest, s).todo)
         /\ c.csr \in ToSet(w.req) /\ ~c.ca
  <2>1. Rest.secrets = w.secrets /\ Rest.req = w.req  BY RestFields
  <2> QED  BY <1>1, <2>1, Zenon DEF TakeOffer, Then, WithTodo, WithSecrets
<1>3. Head(w.todo).do # "broken" /\ HookInv(w) /\ w.todo # <<>> /\ Head(w.todo).do = "offer"
  BY DEF At
<1>4. offer \in Offers /\ offer \in ToSet(prov)  BY <1>3, AtHand, TaskFields DEF TaskInv
<1>5. c \in Certs /\ c \in InHand
  BY <1>4, CertFields DEF InHand, OfferedCerts
<1>6. \A t \in w.secrets \ old : t \in w.secrets /\ t.cert.csr # c.csr  BY DEF SecretOf
<1>7. put.cert = c /\ put \in Secrets
  <2>1. PICK b \in BOOLEAN : b = (old # {})  BY Zenon
  <2>2. put = [cert |-> c, age |-> "fresh", replaced |-> b,
               expire |-> IF old = {} THEN "due" ELSE "expired"]
    BY <2>1, Zenon
  <2>3. "fresh" \in ToSet(Phases)  BY PhaseNames DEF Ages
  <2> HIDE DEF c, old, put
  <2> QED  BY <2>2, <2>3, <1>5 DEF Secrets
<1> HIDE DEF put
<1>8. CASE h = Rest  BY <1>8, PlainKeeps
<1>9. CASE h = WithSecrets(Rest, w.secrets \ old)
  <2> DEFINE s1 == w.secrets \ old
  <2>1. s1 \subseteq w.secrets  OBVIOUS
  <2> HIDE DEF old
  <2>2. h = WithSecrets(Rest, s1)  BY <1>9
  <2> HIDE DEF s1, c
  <2>3. h = HookOf(w.event, <<>> \o Tail(w.todo), w.given, w.req, s1, w.libKey, w.own, w.deferred)
    BY <2>2, RestFields, HookUpdates
  <2>4. /\ h.event = w.event /\ h.given = w.given /\ h.req = w.req /\ h.secrets = s1
        /\ h.libKey = w.libKey /\ h.own = w.own /\ h.deferred = w.deferred
    BY <2>3, HookFields
  <2>5. PrivateKey(h) = PrivateKey(w)  BY <2>4 DEF PrivateKey
  <2>6. Clean(w) => Clean(h)  BY <2>4, <2>5 DEF Clean
  <2>7. s1 \in SUBSET Secrets  BY <2>1, AtHand
  <2>8. OneSecretEach(s1)  BY <2>1, AtHand DEF OneSecretEach
  <2>9. StepOk(<<>>, h)
    <3>1. OwnInv(h) /\ KeyInv(h.own) /\ (~installed => h.own.key = NoKey)  BY <2>4, SameOwn
    <3> QED  BY <3>1, <2>4, <2>5, <2>6, <2>8, AtHand DEF StepOk, At
  <2> QED  BY <2>3, <2>7, <2>9, <1>3, AtHand, StepKeeps
<1>10. CASE /\ h = WithTodo(WithSecrets(Rest, s), new \o WithSecrets(Rest, s).todo)
            /\ c.csr \in ToSet(w.req) /\ ~c.ca
  <2>1. s \in SUBSET Secrets  BY <1>6, <1>7, AtHand
  <2>2. OneSecretEach(s)  BY <1>6, <1>7, AtHand DEF OneSecretEach
  <2>3. IsUsable(c)  BY <1>10 DEF IsUsable
  <2>4. c.csr.key = PrivateKey(w)
    <3>1. Clean(w)  BY AtHand
    <3> QED  BY <3>1, <1>10 DEF Clean
  <2> HIDE DEF s, c
  <2>5. new \in Seq(Tasks)
    <3>1. [do |-> "available", cert |-> c] \in Tasks  BY <1>5, TaskValues
    <3> QED  BY <3>1
  <2>6. DOMAIN new = {1} /\ new[1].do = "available" /\ new[1].cert = c  OBVIOUS
  <2> HIDE DEF new
  <2>7. WithSecrets(Rest, s)
        = HookOf(w.event, Tail(w.todo), w.given, w.req, s, w.libKey, w.own, w.deferred)
    BY RestFields, HookUpdates
  <2>8. h = HookOf(w.event, new \o Tail(w.todo), w.given, w.req, s, w.libKey, w.own, w.deferred)
    <3>1. WithSecrets(Rest, s).todo = Tail(w.todo)  BY <2>7, HookFields
    <3> QED  BY <3>1, <2>7, <1>10, HookUpdates
  <2>9. /\ h.event = w.event /\ h.given = w.given /\ h.req = w.req /\ h.secrets = s
        /\ h.libKey = w.libKey /\ h.own = w.own /\ h.deferred = w.deferred
    BY <2>8, HookFields
  <2>10. PrivateKey(h) = PrivateKey(w)  BY <2>9 DEF PrivateKey
  <2>11. Clean(w) => Clean(h)  BY <2>9, <2>10 DEF Clean
  <2>12. \A i \in DOMAIN new : TaskInv(new[i], h) /\ new[i].do \notin {"find", "offer"}
    BY <2>3, <2>4, <2>6, <2>10, <1>5 DEF TaskInv
  <2>13. StepOk(new, h)
    <3>1. OwnInv(h) /\ KeyInv(h.own) /\ (~installed => h.own.key = NoKey)  BY <2>9, SameOwn
    <3> QED  BY <3>1, <2>2, <2>9, <2>10, <2>11, <2>12, AtHand DEF StepOk, At
  <2> QED  BY <2>1, <2>5, <2>8, <2>13, <1>3, AtHand, StepKeeps
<1> QED  BY <1>2, <1>8, <1>9, <1>10

LEMMA BrokenKeeps ==
    ASSUME At("broken"), Inv, NEW h, h = Run(Head(w.todo), Rest)
    PROVE  HookInv(h)
<1> DEFINE o == [key |-> w.own.key, cert |-> Nothing, age |-> "fresh"]
           new == IF Head(w.todo).leads THEN <<[do |-> "config"]>> ELSE <<>>
<1>1. HookInv(w) /\ w.todo # <<>> /\ Head(w.todo).do = "broken"  BY DEF At
<1>2. w \in Hooks /\ w.todo \in Seq(Tasks) /\ w.own \in Owns /\ w.event \in HookEvents
  BY AtHand
<1>3. WithoutCert(Rest)
      = HookOf(w.event, Tail(w.todo), w.given, <<>>, w.secrets, w.libKey, o, w.deferred)
  <2> HIDE DEF o
  <2>1. o = [key |-> w.own.key, cert |-> Nothing, age |-> "fresh"]  BY DEF o
  <2> QED  BY <1>2, <2>1, RestFields, ThreeFields
<1>4. h = HookOf(w.event, new \o Tail(w.todo), w.given, <<>>, w.secrets, w.libKey, o, w.deferred)
  <2>1. h = WithTodo(WithoutCert(Rest), new \o WithoutCert(Rest).todo)
    <3>1. h = RelationBroken(Rest, Head(w.todo).leads)  BY <1>1, Zenon DEF Run
    <3> QED  BY <3>1, Zenon DEF RelationBroken, Then, WithTodo, WithoutCert
  <2> HIDE DEF o, new
  <2>2. WithoutCert(Rest).todo = Tail(w.todo)  BY <1>3, HookFields
  <2> QED  BY <2>1, <2>2, <1>3, HookUpdates
<1>5. new \in Seq(Tasks) /\ \A i \in DOMAIN new : new[i].do = "config"
  <2>1. [do |-> "config"] \in Tasks  BY TaskValues
  <2>2. <<[do |-> "config"]>> \in Seq(Tasks)  BY <2>1
  <2>3. \A i \in DOMAIN <<[do |-> "config"]>> : <<[do |-> "config"]>>[i].do = "config"  OBVIOUS
  <2> QED  BY <2>2, <2>3
<1>6. o \in Owns /\ o.key = w.own.key /\ o.cert = Nothing
  BY <1>2, OwnFields, OwnedFields DEF Owns, Ages
<1> HIDE DEF o, new
<1>7. /\ h.event = w.event /\ h.todo = new \o Tail(w.todo) /\ h.given = w.given /\ h.req = <<>>
      /\ h.secrets = w.secrets /\ h.libKey = w.libKey /\ h.own = o /\ h.deferred = w.deferred
  <2>1. PICK r, t : r = <<>> /\ t = new \o Tail(w.todo)  BY Zenon
  <2>2. h = HookOf(w.event, t, w.given, r, w.secrets, w.libKey, o, w.deferred)
    BY <1>4, <2>1
  <2>3. /\ h.event = w.event /\ h.todo = t /\ h.given = w.given /\ h.req = r
        /\ h.secrets = w.secrets /\ h.libKey = w.libKey /\ h.own = o /\ h.deferred = w.deferred
    BY <2>2, HookFields
  <2> QED  BY <2>1, <2>3
<1>8. h.todo \in Seq(Tasks) /\ Follows(h.todo, new, w.todo)  BY <1>1, <1>2, <1>5, <1>7, Pushed
<1>9. h \in Hooks
  <2>5. <<>> \in Seq(Requests)  OBVIOUS
  <2>1. PICK r \in Seq(Requests) : r = <<>>  BY <2>5, Zenon
  <2>2. PICK t \in Seq(Tasks) : t = new \o Tail(w.todo)  BY <1>7, <1>8
  <2>3. h = HookOf(w.event, t, w.given, r, w.secrets, w.libKey, o, w.deferred)
    BY <1>4, <2>1, <2>2, Zenon
  <2>4. /\ w.event \in HookEvents /\ w.given \in KeysOrNone /\ w.secrets \in SUBSET Secrets
        /\ w.libKey \in KeysOrNone /\ w.deferred \in Seq(Deferrals)
    BY AtHand
  <2> QED  BY <1>6, <2>3, <2>4, IsHook
<1>10. PrivateKey(h) = PrivateKey(w)  BY <1>7 DEF PrivateKey
<1>11. \A i \in DOMAIN h.todo : TaskInv(h.todo[i], h)
  <2> SUFFICES ASSUME NEW i \in DOMAIN h.todo PROVE TaskInv(h.todo[i], h)  OBVIOUS
  <2>1. CASE i \in DOMAIN new /\ h.todo[i] = new[i]
    <3>1. h.todo[i].do = "config"  BY <2>1, <1>5
    <3> QED  BY <3>1 DEF TaskInv
  <2>2. CASE \E j \in DOMAIN w.todo : h.todo[i] = w.todo[j]
    <3>1. TaskInv(h.todo[i], w)  BY <2>2, <1>1 DEF HookInv
    <3> QED  BY <3>1, <1>7, <1>10 DEF TaskInv
  <2> QED  BY <2>1, <2>2, <1>8 DEF Follows
<1>12. Clean(h)
  <2>1. ToSet(h.req) = {}  BY <1>7 DEF ToSet
  <2> QED  BY <2>1 DEF Clean
<1>13. CleanFirst(h)  BY <1>12 DEF CleanFirst
<1>14. BrokenInv(h)
  <2>1. w.todo[1] = Head(w.todo) /\ Len(w.todo) \in Nat \ {0} /\ DOMAIN w.todo = 1..Len(w.todo)
        /\ Len(new) \in Nat /\ DOMAIN h.todo = 1..Len(h.todo)
    BY <1>1, <1>2, <1>5, <1>8
  <2>2. Len(h.todo) = Len(new) + Len(w.todo) - 1  BY <1>8 DEF Follows
  <2>3. CASE Len(w.todo) = 1
    <3>1. \A i \in DOMAIN h.todo : h.todo[i].do \in {"config", "init"}
      <4> SUFFICES ASSUME NEW i \in DOMAIN h.todo PROVE h.todo[i].do \in {"config", "init"}  OBVIOUS
      <4>1. ~(i > Len(new))  BY <2>1, <2>2, <2>3
      <4>2. i \in DOMAIN new /\ h.todo[i] = new[i]  BY <1>8, <4>1 DEF Follows
      <4> QED  BY <4>2, <1>5
    <3> QED  BY <3>1, <1>6, <1>7 DEF BrokenInv
  <2>4. CASE Len(w.todo) > 1
    <3> SUFFICES ASSUME w.event = "broken" PROVE h.todo # <<>> /\ h.todo[Len(h.todo)].do = "broken"
      BY <1>7 DEF BrokenInv
    <3>1. ~\A i \in DOMAIN w.todo : w.todo[i].do \in {"config", "init"}
      <4>1. 1 \in DOMAIN w.todo  BY <2>1
      <4> QED  BY <4>1, <2>1, <1>1
    <3>2. w.todo[Len(w.todo)].do = "broken"  BY <3>1, <1>1 DEF HookInv, BrokenInv
    <3>3. h.todo[Len(h.todo)] = w.todo[Len(w.todo)]
      <4>1. Len(w.todo) \in DOMAIN w.todo  BY <2>1
      <4> QED  BY <4>1, <2>2, <2>4, <1>8 DEF Follows
    <3>4. Len(h.todo) > 0  BY <2>1, <2>2, <2>4
    <3> QED  BY <3>2, <3>3, <3>4
  <2>5. Len(w.todo) = 1 \/ Len(w.todo) > 1
    <3>1. Len(w.todo) \in Nat \ {0}  BY <2>1
    <3>2. \A n \in Nat \ {0} : n = 1 \/ n > 1  OBVIOUS
    <3> QED  BY <3>1, <3>2
  <2> QED  BY <2>3, <2>4, <2>5
<1>15. OwnInv(h) /\ KeyInv(h.own)
  <2>1. h.event = "broken"  BY <1>1, <1>7, AtHand DEF TaskInv
  <2>2. h.own.key = own.key \/ h.own.key \in Keys  BY <1>6, <1>7, AtHand DEF OwnInv
  <2> QED  BY <2>1, <2>2, <1>6, <1>7, OwnedFields DEF OwnInv, KeyInv
<1>16. DeferredInv(h.deferred, h.own, h.libKey)  BY <1>6, <1>7, AtHand DEF DeferredInv
<1>17. /\ \A x \in ToSet(h.deferred) : x.do = "available" => ~installed /\ x.cert \in InHand
       /\ ~installed => h.own.key = NoKey
       /\ OneSecretEach(h.secrets) /\ h.given = own.key
  BY <1>6, <1>7, AtHand
<1>18. h.event = "broken" => rel = "dying"  BY <1>1, <1>7 DEF HookInv
<1> QED  BY <1>9, <1>11, <1>13, <1>14, <1>15, <1>16, <1>17, <1>18 DEF HookInv

-----------------------------------------------------------------------------
(* The steps of the specification                                           *)

LEMMA StepInv ==
    ASSUME Inv, Step
    PROVE  Inv'
<1>1. HookInv(w) /\ w.todo # <<>>  BY DEF Inv, Step
<1>2. w' = Run(Head(w.todo), Rest) /\ InBounds(w')
      /\ (NeedsKeytool(Head(w.todo)) => installed)
  BY DEF Step, Rest
<1>3. UNCHANGED <<rel, req, prov, secrets, libKey, own, deferred, installed, appReady, address,
                  events, disturbed>>
  BY DEF Step, unitVars, envVars
<1>4. HookInv(w')
  <2> DEFINE t == Head(w.todo)
  <2>1. t \in Tasks
    <3>1. w.todo \in Seq(Tasks)  BY <1>1, HooksAre DEF HookInv
    <3> QED  BY <3>1, <1>1
  <2>2. t.do \in {"ensure", "cleanup", "send", "find", "config", "init", "available", "adopt",
                  "expired", "offer", "broken"}
    BY <2>1, TaskFields
  <2>3. At(t.do)  BY <1>1 DEF At
  <2> HIDE DEF t
  <2>4. w' = Run(t, Rest)  BY <1>2 DEF t
  <2>5. CASE t.do = "ensure"
    <3>1. w' = EnsurePrivateKey(Rest)  BY <2>4, <2>5, Zenon DEF Run
    <3> QED  BY <3>1, <2>3, <2>5, <1>2, EnsureKeeps
  <2>6. CASE t.do = "cleanup"
    <3>1. w' = CleanupRequests(Rest)  BY <2>4, <2>6 DEF Run
    <3> QED  BY <3>1, <2>3, <2>6, CleanupKeeps
  <2>7. CASE t.do = "send"
    <3>1. w' = SendRequests(Rest)  BY <2>4, <2>7 DEF Run
    <3> QED  BY <3>1, <2>3, <2>7, <1>2, SendKeeps
  <2>8. CASE t.do = "find"
    <3>1. w' = FindAvailable(Rest)  BY <2>4, <2>8 DEF Run
    <3> QED  BY <3>1, <2>3, <2>8, FindKeeps
  <2>9. CASE t.do = "offer"
    <3>1. w' = TakeOffer(Rest, t.offer)  BY <2>4, <2>9 DEF Run
    <3> QED  BY <3>1, <2>3, <2>9, OfferKeeps DEF t
  <2>10. CASE t.do = "available"
    <3>1. w' = CertificateAvailable(Rest, t.cert)  BY <2>4, <2>10 DEF Run
    <3> QED  BY <3>1, <2>3, <2>10, AvailableKeeps DEF t
  <2>11. CASE t.do = "adopt"
    <3>1. w' = Adopt(Rest, t.cert)  BY <2>4, <2>11 DEF Run
    <3>2. installed  BY <2>11, <1>2 DEF NeedsKeytool, t
    <3> QED  BY <3>1, <3>2, <2>3, <2>11, AdoptKeeps DEF t
  <2>12. CASE t.do = "config"
    <3>1. w' = ConfigChanged(Rest)  BY <2>4, <2>12 DEF Run
    <3> QED  BY <3>1, <2>3, <2>12, ConfigKeeps
  <2>13. CASE t.do = "init"
    <3>1. w' = InitUnitTls(Rest)  BY <2>4, <2>13 DEF Run
    <3> QED  BY <3>1, <2>3, <2>13, <1>2, InitKeeps
  <2>14. CASE t.do = "expired"
    <3>1. w' = SecretExpired(Rest, t.cert)  BY <2>4, <2>14 DEF Run
    <3> QED  BY <3>1, <2>3, <2>14, ExpiredKeeps DEF t
  <2>15. CASE t.do = "broken"
    BY <2>3, <2>4, <2>15, BrokenKeeps DEF t
  <2> QED  BY <2>2, <2>5, <2>6, <2>7, <2>8, <2>9, <2>10, <2>11, <2>12, <2>13, <2>14, <2>15
<1>5. HookInv(w)'
  BY <1>3, <1>4 DEF HookInv, OwnInv, TaskInv, InHand, OfferedCerts, Waiting
<1>6. TypeOK' /\ StateInv'  BY <1>3 DEF Inv, TypeOK, StateInv
<1> QED  BY <1>5, <1>6 DEF Inv

LEMMA Appended ==
    ASSUME NEW S, NEW a \in Seq(S), NEW b \in Seq(S)
    PROVE  /\ a \o b \in Seq(S) /\ Len(a \o b) = Len(a) + Len(b)
           /\ \A i \in DOMAIN (a \o b) :
                 \/ i \in DOMAIN a /\ (a \o b)[i] = a[i]
                 \/ i > Len(a) /\ i - Len(a) \in DOMAIN b /\ (a \o b)[i] = b[i - Len(a)]
           /\ \A j \in DOMAIN b : Len(a) + j \in DOMAIN (a \o b) /\ (a \o b)[Len(a) + j] = b[j]
<1>1. Len(a) \in Nat /\ Len(b) \in Nat /\ DOMAIN a = 1..Len(a) /\ DOMAIN b = 1..Len(b)  OBVIOUS
<1>2. a \o b \in Seq(S) /\ Len(a \o b) = Len(a) + Len(b)  OBVIOUS
<1>3. DOMAIN (a \o b) = 1..Len(a \o b)  BY <1>2
<1>4. \A i \in DOMAIN (a \o b) :
         \/ i \in DOMAIN a /\ (a \o b)[i] = a[i]
         \/ i > Len(a) /\ i - Len(a) \in DOMAIN b /\ (a \o b)[i] = b[i - Len(a)]
  BY <1>1
<1>5. \A j \in DOMAIN b : Len(a) + j \in DOMAIN (a \o b) /\ (a \o b)[Len(a) + j] = b[j]
  BY <1>1
<1> QED  BY <1>2, <1>4, <1>5

LEMMA BeginInv ==
    ASSUME Inv, NEW e \in HookEvents, NEW todo \in Seq(Tasks), Begin(e, todo),
           \A i \in DOMAIN todo :
               /\ todo[i].do \notin {"available", "adopt", "offer"}
               /\ todo[i].do = "broken" => e = "broken"
               /\ todo[i].do = "find" => \E j \in DOMAIN todo : j < i /\ todo[j].do = "cleanup",
           e = "broken" => rel = "dying" /\ todo # <<>> /\ todo[Len(todo)].do = "broken"
    PROVE  Inv'
<1> DEFINE all == deferred \o todo
<1>1. w' = HookOf(e, all, own.key, req, secrets, libKey, own, <<>>)
  BY Zenon DEF Begin, Copy, HookOf
<1>2. UNCHANGED <<rel, req, prov, secrets, libKey, own, deferred, installed, appReady, address,
                  events, disturbed>>
  BY DEF Begin, unitVars, envVars
<1>3. deferred \in Seq(Tasks) /\ deferred \in Seq(Deferrals)
  BY DeferralsAreTasks DEF Inv, TypeOK
<1>4. /\ all \in Seq(Tasks) /\ Len(all) = Len(deferred) + Len(todo)
      /\ \A i \in DOMAIN all :
            \/ i \in DOMAIN deferred /\ all[i] = deferred[i]
            \/ i > Len(deferred) /\ i - Len(deferred) \in DOMAIN todo
               /\ all[i] = todo[i - Len(deferred)]
      /\ \A j \in DOMAIN todo :
            Len(deferred) + j \in DOMAIN all /\ all[Len(deferred) + j] = todo[j]
  BY <1>3, Appended
<1> HIDE DEF all
<1>5. PICK q \in Seq(Deferrals) : q = <<>>
  <2>1. <<>> \in Seq(Deferrals)  OBVIOUS
  <2> QED  BY <2>1, Zenon
<1>6. w' = HookOf(e, all, own.key, req, secrets, libKey, own, q)  BY <1>1, <1>5, Zenon
<1>7. /\ w'.event = e /\ w'.todo = all /\ w'.given = own.key /\ w'.req = req
      /\ w'.secrets = secrets /\ w'.libKey = libKey /\ w'.own = own /\ w'.deferred = q
  BY <1>6, HookFields
<1>8. w' \in Hooks
  <2>1. own.key \in KeysOrNone /\ libKey \in KeysOrNone /\ own \in Owns /\ req \in Seq(Requests)
        /\ secrets \in SUBSET Secrets
    BY DEF Inv, TypeOK, StateInv, KeysOrNone
  <2> QED  BY <1>4, <1>6, <2>1, IsHook
<1>9. ASSUME NEW i \in DOMAIN w'.todo PROVE TaskInv(w'.todo[i], w')
  <2>1. CASE i \in DOMAIN deferred /\ all[i] = deferred[i]
    <3> DEFINE d == deferred[i]
    <3>1. d \in Deferrals /\ d \in ToSet(deferred)  BY <2>1, <1>3, Elements
    <3>2. d.do \in {"config", "available"}  BY <3>1, CertFields
    <3> HIDE DEF d
    <3>3. ASSUME d.do = "available"
          PROVE  d.cert \in InHand /\ IsUsable(d.cert) /\ d.cert.csr.key = PrivateKey(w')
      <4>1. d.cert \in Waiting  BY <3>1, <3>3 DEF Waiting
      <4>2. IsUsable(d.cert) /\ own.key = NoKey /\ d.cert.csr.key = libKey
        BY <3>1, <3>3 DEF Inv, StateInv, DeferredInv
      <4>3. PrivateKey(w') = libKey  BY <4>2, <1>7 DEF PrivateKey
      <4> QED  BY <4>1, <4>2, <4>3 DEF InHand
    <3>4. w'.todo[i] = d  BY <2>1, <1>7 DEF d
    <3> QED  BY <3>2, <3>3, <3>4 DEF TaskInv
  <2>2. CASE i - Len(deferred) \in DOMAIN todo /\ all[i] = todo[i - Len(deferred)]
    <3>1. w'.todo[i] = todo[i - Len(deferred)]  BY <2>2, <1>7
    <3> QED  BY <3>1, <2>2, <1>7 DEF TaskInv
  <2> QED  BY <2>1, <2>2, <1>4, <1>7
<1>10. CleanFirst(w')
  <2> SUFFICES ASSUME NEW i \in DOMAIN all, all[i].do \in {"find", "offer"}
               PROVE  \E j \in DOMAIN all : j < i /\ all[j].do = "cleanup"
    BY <1>7 DEF CleanFirst
  <2>1. i \notin DOMAIN deferred \/ all[i] # deferred[i]
    <3> SUFFICES ASSUME i \in DOMAIN deferred, all[i] = deferred[i] PROVE FALSE  OBVIOUS
    <3>1. deferred[i] \in Deferrals  BY <1>3, Elements
    <3>2. deferred[i].do \in {"config", "available"}  BY <3>1, CertFields
    <3> QED  BY <3>2
  <2>2. i > Len(deferred) /\ i - Len(deferred) \in DOMAIN todo /\ all[i] = todo[i - Len(deferred)]
    BY <2>1, <1>4
  <2>3. PICK j \in DOMAIN todo : j < i - Len(deferred) /\ todo[j].do = "cleanup"  BY <2>2
  <2>4. i \in Nat /\ j \in Nat /\ Len(deferred) \in Nat  BY <1>3, <1>4
  <2>5. Len(deferred) + j < i  BY <2>3, <2>4
  <2> QED  BY <2>3, <2>5, <1>4
<1>11. BrokenInv(w')
  <2> SUFFICES ASSUME e = "broken" PROVE all # <<>> /\ all[Len(all)].do = "broken"
    BY <1>7 DEF BrokenInv
  <2>1. Len(todo) \in DOMAIN todo /\ Len(todo) \in Nat \ {0}  OBVIOUS
  <2>2. all[Len(all)] = todo[Len(todo)]  BY <2>1, <1>4
  <2>3. Len(all) > 0  BY <2>1, <1>3, <1>4
  <2> QED  BY <2>2, <2>3
<1>12. DeferredInv(q, own, libKey) /\ \A x \in ToSet(q) : FALSE
  BY <1>5 DEF DeferredInv, ToSet
<1>13. HookInv(w)'
  <2>1. OneSecretEach(secrets)  BY DEF Inv, TypeOK, OneSecretEach
  <2>2. KeyInv(own) /\ (~installed => own.key = NoKey)  BY DEF Inv, StateInv
  <2>3. OwnInv(w)'  BY <1>2, <1>7 DEF OwnInv
  <2>4. (\A i \in DOMAIN w.todo : TaskInv(w.todo[i], w))'
    BY <1>2, <1>9 DEF TaskInv, InHand, OfferedCerts, Waiting
  <2> QED  BY <1>2, <1>7, <1>8, <1>10, <1>11, <1>12, <2>1, <2>2, <2>3, <2>4 DEF HookInv
<1>14. TypeOK' /\ StateInv'  BY <1>2 DEF Inv, TypeOK, StateInv
<1> QED  BY <1>13, <1>14 DEF Inv

LEMMA ToDoTypes ==
    /\ <<>> \in Seq(Tasks) /\ ConfigureTasks \in Seq(Tasks) /\ <<[do |-> "config"]>> \in Seq(Tasks)
    /\ \A b \in BOOLEAN : <<[do |-> "broken", leads |-> b]>> \in Seq(Tasks)
    /\ \A c \in Certs : <<[do |-> "expired", cert |-> c]>> \in Seq(Tasks)
<1>1. /\ [do |-> "config"] \in Tasks /\ [do |-> "ensure"] \in Tasks /\ [do |-> "cleanup"] \in Tasks
      /\ [do |-> "send"] \in Tasks /\ [do |-> "find"] \in Tasks
  BY TaskValues
<1>2. ConfigureTasks \in Seq(Tasks)  BY <1>1 DEF ConfigureTasks
<1>3. <<[do |-> "config"]>> \in Seq(Tasks) /\ <<>> \in Seq(Tasks)  BY <1>1
<1>4. ASSUME NEW b \in BOOLEAN PROVE <<[do |-> "broken", leads |-> b]>> \in Seq(Tasks)
  <2>1. PICK t \in Tasks : t = [do |-> "broken", leads |-> b]  BY TaskValues, Zenon
  <2>2. <<t>> \in Seq(Tasks)  OBVIOUS
  <2> QED  BY <2>1, <2>2, Zenon
<1>5. ASSUME NEW c \in Certs PROVE <<[do |-> "expired", cert |-> c]>> \in Seq(Tasks)
  <2>1. PICK t \in Tasks : t = [do |-> "expired", cert |-> c]  BY TaskValues, Zenon
  <2>2. <<t>> \in Seq(Tasks)  OBVIOUS
  <2> QED  BY <2>1, <2>2, Zenon
<1> QED  BY <1>2, <1>3, <1>4, <1>5

LEMMA HooksBegin ==
    ASSUME Inv, RelationHook \/ BrokenHook \/ ConfigHook \/ SecretHook \/ StatusHook
    PROVE  Inv'
<1>1. CASE RelationHook
  <2>1. PICK e \in {"created", "changed"} :
            Begin(e, IF rel = "none" THEN <<>> ELSE ConfigureTasks)
    BY <1>1 DEF RelationHook
  <2>2. e \in HookEvents /\ e # "broken"  BY DEF HookEvents
  <2>3. CASE rel = "none"
    <3>1. Begin(e, <<>>)  BY <2>1, <2>3
    <3>2. \A i \in DOMAIN <<>> : FALSE  OBVIOUS
    <3> QED  BY <2>2, <3>1, <3>2, ToDoTypes, BeginInv
  <2>4. CASE rel # "none"
    <3>1. Begin(e, ConfigureTasks)  BY <2>1, <2>4
    <3>2. /\ DOMAIN ConfigureTasks = {1, 2, 3, 4} /\ ConfigureTasks[1].do = "ensure"
          /\ ConfigureTasks[2].do = "cleanup" /\ ConfigureTasks[3].do = "send"
          /\ ConfigureTasks[4].do = "find"
      BY DEF ConfigureTasks
    <3>3. \A i \in DOMAIN ConfigureTasks :
             /\ ConfigureTasks[i].do \notin {"available", "adopt", "offer"}
             /\ ConfigureTasks[i].do = "broken" => e = "broken"
             /\ ConfigureTasks[i].do = "find" =>
                   \E j \in DOMAIN ConfigureTasks : j < i /\ ConfigureTasks[j].do = "cleanup"
      <4>1. 2 \in DOMAIN ConfigureTasks /\ 2 < 4  BY <3>2
      <4> QED  BY <3>2, <4>1
    <3> QED  BY <2>2, <3>1, <3>3, ToDoTypes, BeginInv
  <2> QED  BY <2>3, <2>4
<1>2. CASE BrokenHook
  <2>1. PICK b \in BOOLEAN : Begin("broken", <<[do |-> "broken", leads |-> b]>>)
    BY <1>2 DEF BrokenHook
  <2>2. PICK t : t = [do |-> "broken", leads |-> b] /\ t.do = "broken"
    <3>1. [do |-> "broken", leads |-> b].do = "broken"  OBVIOUS
    <3> QED  BY <3>1, Zenon
  <2>3. <<t>> \in Seq(Tasks) /\ Begin("broken", <<t>>)  BY <2>1, <2>2, ToDoTypes, Zenon
  <2>4. DOMAIN <<t>> = {1} /\ <<t>>[1] = t /\ Len(<<t>>) = 1 /\ <<t>> # <<>>  OBVIOUS
  <2>5. rel = "dying"  BY <1>2 DEF BrokenHook, Inv, StateInv
  <2>6. "broken" \in HookEvents  BY DEF HookEvents
  <2>7. \A i \in DOMAIN <<t>> : <<t>>[i].do = "broken"  BY <2>2, <2>4
  <2>8. <<t>>[Len(<<t>>)].do = "broken"  BY <2>2, <2>4
  <2> QED  BY <2>3, <2>4, <2>5, <2>6, <2>7, <2>8, BeginInv
<1>3. CASE ConfigHook \/ StatusHook
  <2>1. PICK e \in {"config", "status"} : Begin(e, <<[do |-> "config"]>>)
    BY <1>3 DEF ConfigHook, StatusHook
  <2>2. PICK t : t = [do |-> "config"] /\ t.do = "config"
    <3>1. [do |-> "config"].do = "config"  OBVIOUS
    <3> QED  BY <3>1, Zenon
  <2>3. <<t>> \in Seq(Tasks) /\ Begin(e, <<t>>)  BY <2>1, <2>2, ToDoTypes, Zenon
  <2>4. \A i \in DOMAIN <<t>> : <<t>>[i].do = "config"  BY <2>2
  <2>5. e \in HookEvents /\ e # "broken"  BY DEF HookEvents
  <2> QED  BY <2>3, <2>4, <2>5, BeginInv
<1>4. CASE SecretHook
  <2>1. PICK s \in secrets : Begin("secret", <<[do |-> "expired", cert |-> s.cert]>>)
    BY <1>4 DEF SecretHook
  <2>2. s.cert \in Certs  BY CertFields DEF Inv, TypeOK
  <2>3. PICK t : t = [do |-> "expired", cert |-> s.cert] /\ t.do = "expired"
    <3>1. [do |-> "expired", cert |-> s.cert].do = "expired"  OBVIOUS
    <3> QED  BY <3>1, Zenon
  <2>4. <<t>> \in Seq(Tasks) /\ Begin("secret", <<t>>)  BY <2>1, <2>2, <2>3, ToDoTypes, Zenon
  <2>5. \A i \in DOMAIN <<t>> : <<t>>[i].do = "expired"  BY <2>3
  <2>6. "secret" \in HookEvents  BY DEF HookEvents
  <2> QED  BY <2>4, <2>5, <2>6, BeginInv
<1> QED  BY <1>1, <1>2, <1>3, <1>4

LEMMA FailInv ==
    ASSUME Inv, Fail
    PROVE  Inv'
BY DEF Inv, Fail, unitVars, envVars, TypeOK, StateInv, Idle, OwnedFields

\* What a hook leaves when it ends.
LEMMA CommitInv ==
    ASSUME Inv, Commit
    PROVE  Inv'
<1>1. HookInv(w) /\ w.todo = <<>> /\ w' = NoHook  BY DEF Inv, Commit
<1>2. /\ req' = w.req /\ secrets' = w.secrets /\ libKey' = w.libKey /\ own' = w.own
      /\ deferred' = w.deferred
      /\ UNCHANGED <<installed, appReady, address, disturbed>>
  BY DEF Commit, envVars
<1>3. \/ w.event = "broken" /\ rel' = "none" /\ prov' = <<>>
         /\ events' = events \ {"broken", "created", "changed"}
      \/ w.event # "broken" /\ events' = events \ {w.event} /\ UNCHANGED <<rel, prov>>
  BY DEF Commit
<1>4. /\ w.req \in Seq(Requests) /\ w.secrets \subseteq Secrets /\ w.libKey \in KeysOrNone
      /\ w.own \in Owns /\ w.deferred \in Seq(Deferrals) /\ w.event \in HookEvents
  BY <1>1, HooksAre DEF HookInv
<1>5. prov' \in Seq(Offers) /\ rel' \in {"none", "up", "dying"}
      /\ events' \subseteq {"created", "changed", "broken", "config"}
  <2>1. prov \in Seq(Offers) /\ rel \in {"none", "up", "dying"}
        /\ events \subseteq {"created", "changed", "broken", "config"}
    BY DEF Inv, TypeOK
  <2>2. <<>> \in Seq(Offers)  OBVIOUS
  <2>3. prov' \in Seq(Offers)  BY <1>3, <2>1, <2>2
  <2>4. rel' \in {"none", "up", "dying"}  BY <1>3, <2>1
  <2>5. events' \subseteq events  BY <1>3
  <2> QED  BY <2>1, <2>3, <2>4, <2>5
<1>6. \A s, t \in secrets' : s.cert.csr = t.cert.csr => s = t
  BY <1>1, <1>2 DEF HookInv, OneSecretEach
<1>7. own'.key \in Keys \cup {NoKey} /\ own'.cert \in Owned /\ own'.age \in ToSet(Phases)
  BY <1>2, <1>4, OwnFields, PhaseNames DEF KeysOrNone
<1>8. TypeOK'
  <2>1. installed \in BOOLEAN /\ appReady \in BOOLEAN /\ address \in Addresses
        /\ disturbed \in 0..MaxDisturbed
    BY DEF Inv, TypeOK
  <2>2. libKey' \in Keys \cup {NoKey} /\ req' \in Seq(Requests) /\ secrets' \subseteq Secrets
        /\ deferred' \in Seq(Deferrals)
    BY <1>2, <1>4 DEF KeysOrNone
  <2> QED  BY <1>2, <1>5, <1>6, <1>7, <2>1, <2>2 DEF TypeOK
<1>9. StateInv'
  <2>1. own' \in Owns /\ KeyInv(own') /\ DeferredInv(deferred', own', libKey')
        /\ (~installed' => own'.key = NoKey)
    BY <1>1, <1>2, <1>4 DEF HookInv
  <2>2. "broken" \in events' => rel' = "dying"  BY <1>3 DEF Inv, StateInv
  <2> QED  BY <2>1, <2>2 DEF StateInv, KeyInv, DeferredInv
<1>10. Idle'  BY <1>1 DEF Idle, NoHook
<1> QED  BY <1>8, <1>9, <1>10 DEF Inv

\* Steps that leave the unit's own data alone keep what is said of them.
LEMMA OutsideInv ==
    ASSUME Inv, Idle, w' = w, UNCHANGED unitVars,
           rel' \in {"none", "up", "dying"}, prov' \in Seq(Offers),
           installed' \in BOOLEAN, appReady' \in BOOLEAN, address' \in Addresses,
           installed => installed',
           events' \subseteq {"created", "changed", "broken", "config"},
           "broken" \in events' => rel' = "dying",
           disturbed' \in 0..MaxDisturbed
    PROVE  Inv'
<1>1. UNCHANGED <<req, secrets, libKey, own, deferred, w>>  BY DEF unitVars
<1>2. TypeOK'  BY <1>1 DEF Inv, TypeOK
<1>3. StateInv'  BY <1>1 DEF Inv, StateInv, KeyInv, DeferredInv
<1>4. Idle'  BY <1>1 DEF Idle, NoHook
<1> QED  BY <1>2, <1>3, <1>4 DEF Inv

LEMMA TidiedIs ==
    ASSUME Inv
    PROVE  Tidied \in Seq(Offers) /\ ToSet(Tidied) \subseteq ToSet(prov)
<1>1. prov \in Seq(Offers)  BY DEF Inv, TypeOK
<1> QED  BY <1>1, SelectFrom DEF Tidied

LEMMA OfferInv ==
    ASSUME Inv, NEW new \in Seq(Offers), Offer(new), disturbed' \in 0..MaxDisturbed
    PROVE  Inv'
<1>1. prov' \in Seq(Offers) /\ Idle /\ UNCHANGED <<rel, installed, appReady, address, w>>
      /\ UNCHANGED unitVars /\ events' = events \cup {"changed"}
  BY DEF Offer, envVars
<1>2. /\ rel \in {"none", "up", "dying"} /\ installed \in BOOLEAN /\ appReady \in BOOLEAN
      /\ address \in Addresses /\ events \subseteq {"created", "changed", "broken", "config"}
      /\ "broken" \in events => rel = "dying"
  BY DEF Inv, TypeOK, StateInv
<1> QED  BY <1>1, <1>2, OutsideInv

LEMMA SetCertificateInv ==
    ASSUME Inv, NEW csr \in ToSet(req), NEW isCa \in BOOLEAN, SetRelationCertificate(csr, isCa),
           disturbed' \in 0..MaxDisturbed
    PROVE  Inv'
<1> DEFINE free == {n \in 1..MaxSerials : \A c \in LiveCerts : c.csr = csr => c.serial # n}
           kept == Select(Tidied, {o \in ToSet(Tidied) : o.cert.csr # csr})
           cert == [csr |-> csr, serial |-> Smallest(free), ca |-> isCa]
           offer == [cert |-> cert, revoked |-> FALSE]
<1>1. free # {} /\ Offer(Append(kept, offer))  BY DEF SetRelationCertificate
<1>2. Smallest(free) \in 1..MaxSerials
  <2>1. free \subseteq Nat /\ free \subseteq 1..MaxSerials  BY KeysAssumption
  <2> HIDE DEF free
  <2>2. \E x \in free : \A y \in free : x <= y  BY <1>1, <2>1, LeastOf
  <2>3. Smallest(free) \in free  BY <2>2, Zenon DEF Smallest
  <2> QED  BY <2>1, <2>3
<1> HIDE DEF free
<1>3. csr \in Requests  BY Elements DEF Inv, TypeOK
<1>4. cert \in Certs  BY <1>2, <1>3 DEF Certs
<1> HIDE DEF cert
<1>5. offer \in Offers
  <2>1. PICK no \in BOOLEAN : no = FALSE  BY Zenon
  <2>2. offer = [cert |-> cert, revoked |-> no]  BY <2>1, Zenon
  <2> HIDE DEF offer
  <2> QED  BY <2>2, <1>4 DEF Offers
<1>6. kept \in Seq(Offers)  BY TidiedIs, SelectFrom
<1> HIDE DEF offer, kept
<1>7. Append(kept, offer) \in Seq(Offers)  BY <1>5, <1>6
<1> QED  BY <1>1, <1>7, OfferInv

LEMMA DisturbIs ==
    ASSUME Inv, NEW kind, Disturb(kind)
    PROVE  disturbed' \in 0..MaxDisturbed
BY NamesAssumption DEF Inv, TypeOK, Disturb

LEMMA ProviderInv ==
    ASSUME Inv, Provider \/ ProviderReplaces \/ RevokeAllCertificates
    PROVE  Inv'
<1>0. disturbed \in 0..MaxDisturbed  BY DEF Inv, TypeOK
<1>1. CASE ProviderTidies
  <2>1. Offer(Tidied) /\ disturbed' \in 0..MaxDisturbed  BY <1>0, <1>1 DEF ProviderTidies
  <2> QED  BY <2>1, TidiedIs, OfferInv
<1>2. CASE ProviderIssues
  <2>1. PICK csr \in ToSet(req) : SetRelationCertificate(csr, FALSE)  BY <1>2 DEF ProviderIssues
  <2>2. disturbed' \in 0..MaxDisturbed  BY <1>0, <1>2 DEF ProviderIssues
  <2>3. FALSE \in BOOLEAN  BY Zenon
  <2> QED  BY <2>1, <2>2, <2>3, SetCertificateInv
<1>3. CASE ProviderReplaces
  <2>1. PICK csr \in ToSet(req), isCa \in BOOLEAN :
            /\ Disturb(IF isCa THEN "mistake" ELSE "replace")
            /\ SetRelationCertificate(csr, isCa)
    BY <1>3, Zenon DEF ProviderReplaces
  <2>2. PICK kind : Disturb(kind)  BY <2>1, Zenon
  <2>3. disturbed' \in 0..MaxDisturbed  BY <2>2, DisturbIs
  <2> QED  BY <2>1, <2>3, SetCertificateInv
<1>4. CASE RevokeAllCertificates
  <2> DEFINE new == [i \in DOMAIN prov |-> [prov[i] EXCEPT !.revoked = TRUE]]
  <2>1. Offer(new) /\ Disturb("revoke")  BY <1>4, Zenon DEF RevokeAllCertificates
  <2>2. prov \in Seq(Offers)  BY DEF Inv, TypeOK
  <2>3. ASSUME NEW o \in Offers PROVE [o EXCEPT !.revoked = TRUE] \in Offers
    <3>1. PICK yes \in BOOLEAN : yes = TRUE  BY Zenon
    <3>2. [o EXCEPT !.revoked = yes] \in Offers  BY DEF Offers
    <3> QED  BY <3>1, <3>2, Zenon
  <2>4. \A i \in DOMAIN prov : [prov[i] EXCEPT !.revoked = TRUE] \in Offers  BY <2>2, <2>3
  <2>5. new \in Seq(Offers)
    <3>1. Len(prov) \in Nat /\ DOMAIN prov = 1..Len(prov)  BY <2>2
    <3>2. new \in [1..Len(prov) -> Offers]  BY <2>4, <3>1
    <3> HIDE DEF new
    <3> QED  BY <3>1, <3>2
  <2> HIDE DEF new
  <2>6. disturbed' \in 0..MaxDisturbed  BY <2>1, DisturbIs
  <2> QED  BY <2>1, <2>5, <2>6, OfferInv
<1> QED  BY <1>1, <1>2, <1>3, <1>4 DEF Provider

LEMMA OperatorInv ==
    ASSUME Inv, Relate \/ Unrelate \/ Move \/ GetReady
    PROVE  Inv'
<1>1. /\ rel \in {"none", "up", "dying"} /\ prov \in Seq(Offers)
      /\ installed \in BOOLEAN /\ appReady \in BOOLEAN
      /\ address \in Addresses /\ events \subseteq {"created", "changed", "broken", "config"}
      /\ ("broken" \in events => rel = "dying") /\ disturbed \in 0..MaxDisturbed
  BY DEF Inv, TypeOK, StateInv
<1>2. CASE Relate
  <2>1. rel' = "up" /\ events' = events \cup {"created", "changed"} /\ "broken" \notin events
        /\ Idle /\ w' = w /\ UNCHANGED unitVars
        /\ UNCHANGED <<prov, installed, appReady, address, disturbed>>
    BY <1>2 DEF Relate, envVars
  <2> QED  BY <1>1, <2>1, OutsideInv
<1>3. CASE Unrelate
  <2>1. rel' = "dying" /\ events' = events \cup {"broken"} /\ Disturb("unrelate")
        /\ Idle /\ w' = w /\ UNCHANGED unitVars
        /\ UNCHANGED <<prov, installed, appReady, address>>
    BY <1>3 DEF Unrelate, envVars
  <2>2. disturbed' \in 0..MaxDisturbed  BY <2>1, DisturbIs
  <2> QED  BY <1>1, <2>1, <2>2, OutsideInv
<1>4. CASE Move
  <2>1. address' \in Addresses /\ events' = events \cup {"config"} /\ Disturb("move")
        /\ Idle /\ w' = w /\ UNCHANGED unitVars
        /\ UNCHANGED <<rel, prov, installed, appReady>>
    BY <1>4 DEF Move
  <2>2. disturbed' \in 0..MaxDisturbed  BY <2>1, DisturbIs
  <2> QED  BY <1>1, <2>1, <2>2, OutsideInv
<1>5. CASE GetReady
  <2>1. Idle /\ w' = w /\ UNCHANGED unitVars
        /\ UNCHANGED <<rel, prov, address, events, disturbed>>
    BY <1>5 DEF GetReady
  <2>2. installed' \in BOOLEAN /\ appReady' \in BOOLEAN /\ (installed => installed')
    <3>1. CASE installed' = TRUE /\ UNCHANGED appReady
      BY <1>1, <3>1, Zenon
    <3>2. CASE appReady' = TRUE /\ UNCHANGED installed
      BY <1>1, <3>2, Zenon
    <3> QED  BY <1>5, <3>1, <3>2, Zenon DEF GetReady
  <2> QED  BY <1>1, <2>1, <2>2, OutsideInv
<1> QED  BY <1>2, <1>3, <1>4, <1>5

LEMMA LaterIsAnAge == \A a : Later(a) \in Ages
BY DEF Later, Ages

LEMMA AgeInv ==
    ASSUME Inv, Age
    PROVE  Inv'
<1>1. PICK c :
         /\ secrets' = {IF s.cert = c THEN [s EXCEPT !.age = Later(s.age)] ELSE s : s \in secrets}
         /\ own' = IF own.cert = Issued(c) THEN [own EXCEPT !.age = Later(own.age)] ELSE own
  BY Zenon DEF Age
<1>2. Idle /\ UNCHANGED <<w, rel, req, prov, libKey, installed, appReady, address, events, deferred,
                          disturbed>>
  BY DEF Age, envVars
<1>3. secrets \subseteq Secrets /\ own \in Owns /\ OneSecretEach(secrets)
  BY DEF Inv, TypeOK, StateInv, OneSecretEach
<1>4. ASSUME NEW s \in Secrets, NEW a \in Ages
      PROVE  [s EXCEPT !.age = a] \in Secrets /\ [s EXCEPT !.age = a].cert = s.cert
  <2>1. a \in ToSet(Phases)  BY PhaseNames
  <2> QED  BY <2>1 DEF Secrets
<1>5. secrets' \subseteq Secrets /\ \A x \in secrets' : \E s \in secrets : x.cert = s.cert
      /\ x = IF s.cert = c THEN [s EXCEPT !.age = Later(s.age)] ELSE s
  <2> SUFFICES ASSUME NEW x \in secrets'
               PROVE  /\ x \in Secrets
                      /\ \E s \in secrets : x.cert = s.cert
                         /\ x = IF s.cert = c THEN [s EXCEPT !.age = Later(s.age)] ELSE s
    BY Zenon
  <2>1. PICK s \in secrets : x = IF s.cert = c THEN [s EXCEPT !.age = Later(s.age)] ELSE s
    BY <1>1, Zenon
  <2>2. s \in Secrets /\ Later(s.age) \in Ages  BY <1>3, LaterIsAnAge
  <2> DEFINE later == [s EXCEPT !.age = Later(s.age)]
  <2>3. later \in Secrets /\ later.cert = s.cert  BY <2>2, <1>4
  <2>4. x = IF s.cert = c THEN later ELSE s  BY <2>1
  <2> HIDE DEF later
  <2>5. x \in Secrets /\ x.cert = s.cert  BY <2>2, <2>3, <2>4
  <2> QED  BY <2>1, <2>5, Zenon
<1>6. \A s, t \in secrets' : s.cert.csr = t.cert.csr => s = t
  <2> SUFFICES ASSUME NEW x \in secrets', NEW y \in secrets', x.cert.csr = y.cert.csr
               PROVE  x = y
    OBVIOUS
  <2>1. PICK s \in secrets : x.cert = s.cert
            /\ x = IF s.cert = c THEN [s EXCEPT !.age = Later(s.age)] ELSE s
    BY <1>5
  <2>2. PICK t \in secrets : y.cert = t.cert
            /\ y = IF t.cert = c THEN [t EXCEPT !.age = Later(t.age)] ELSE t
    BY <1>5
  <2>3. s = t  BY <2>1, <2>2, <1>3 DEF OneSecretEach
  <2> QED  BY <2>1, <2>2, <2>3, Zenon
<1>7. own' \in Owns /\ own'.key = own.key /\ own'.cert = own.cert
  <2>1. ASSUME NEW a \in Ages
        PROVE  [own EXCEPT !.age = a] \in Owns /\ [own EXCEPT !.age = a].key = own.key
               /\ [own EXCEPT !.age = a].cert = own.cert
    BY <1>3 DEF Owns
  <2>2. Later(own.age) \in Ages  BY LaterIsAnAge
  <2> DEFINE later == [own EXCEPT !.age = Later(own.age)]
  <2>3. own' = later \/ own' = own  BY <1>1, Zenon
  <2>4. later \in Owns /\ later.key = own.key /\ later.cert = own.cert  BY <2>1, <2>2
  <2> HIDE DEF later
  <2> QED  BY <2>3, <2>4, <1>3
<1>8. TypeOK'
  <2>1. own'.key \in Keys \cup {NoKey} /\ own'.cert \in Owned /\ own'.age \in ToSet(Phases)
    BY <1>7, OwnFields, PhaseNames DEF KeysOrNone
  <2> QED  BY <1>2, <1>5, <1>6, <2>1 DEF Inv, TypeOK
<1>9. StateInv'
  <2>1. KeyInv(own)' /\ DeferredInv(deferred, own, libKey)'
    BY <1>2, <1>7 DEF Inv, StateInv, KeyInv, DeferredInv
  <2> QED  BY <1>2, <1>7, <2>1 DEF Inv, StateInv
<1>10. Idle'  BY <1>2 DEF Idle, NoHook
<1> QED  BY <1>8, <1>9, <1>10 DEF Inv

LEMMA InitInv ==
    ASSUME Init
    PROVE  Inv
<1>1. own = [key |-> NoKey, cert |-> Nothing, age |-> "fresh"]  BY DEF Init
<1>2. own \in Owns /\ own.key = NoKey /\ own.cert = Nothing /\ own.age = "fresh"
  BY <1>1, OwnedFields DEF Owns, KeysOrNone, Ages
<1>3. TypeOK
  <2>1. "fresh" \in ToSet(Phases)  BY PhaseNames DEF Ages
  <2>2. own.key \in Keys \cup {NoKey} /\ own.cert \in Owned /\ own.age \in ToSet(Phases)
    BY <1>2, <2>1, OwnedFields
  <2>3. rel \in {"none", "up", "dying"} /\ req \in Seq(Requests) /\ prov \in Seq(Offers)
        /\ secrets = {} /\ libKey \in Keys \cup {NoKey}
    BY DEF Init
  <2>4. installed \in BOOLEAN /\ appReady \in BOOLEAN /\ address \in Addresses
        /\ events \subseteq {"created", "changed", "broken", "config"}
        /\ deferred \in Seq(Deferrals) /\ disturbed \in 0..MaxDisturbed
    BY NamesAssumption DEF Init
  <2> QED  BY <2>2, <2>3, <2>4 DEF TypeOK
<1>4. StateInv
  <2>1. KeyInv(own)  BY <1>2, OwnedFields DEF KeyInv
  <2>2. DeferredInv(deferred, own, libKey)
    <3>1. ToSet(deferred) = {}  BY DEF Init, ToSet
    <3> QED  BY <3>1 DEF DeferredInv
  <2>3. "broken" \notin events  BY DEF Init
  <2> QED  BY <1>2, <2>1, <2>2, <2>3 DEF StateInv
<1>5. Idle  BY DEF Init, Idle
<1> QED  BY <1>3, <1>4, <1>5 DEF Inv

LEMMA StutterInv ==
    ASSUME Inv, UNCHANGED vars
    PROVE  Inv'
<1>1. UNCHANGED <<rel, req, prov, secrets, libKey, own, installed, appReady, address, events,
                  deferred, w, disturbed>>
  BY DEF vars, unitVars, envVars
<1>2. TypeOK'  BY <1>1 DEF Inv, TypeOK
<1>3. StateInv'  BY <1>1 DEF Inv, StateInv, KeyInv, DeferredInv
<1>4. CASE Idle
  <2>1. Idle'  BY <1>1, <1>4 DEF Idle, NoHook
  <2> QED  BY <1>2, <1>3, <2>1 DEF Inv
<1>5. CASE HookInv(w)
  <2>1. InHand' = InHand  BY <1>1 DEF InHand, OfferedCerts, Waiting
  <2>2. (\A i \in DOMAIN w.todo : TaskInv(w.todo[i], w))'
    BY <1>1, <1>5, <2>1 DEF HookInv, TaskInv, PrivateKey
  <2>3. OwnInv(w)'  BY <1>1, <1>5, <2>1 DEF HookInv, OwnInv
  <2>4. CleanFirst(w)' /\ BrokenInv(w)' /\ KeyInv(w.own)' /\ DeferredInv(w.deferred, w.own, w.libKey)'
    BY <1>1, <1>5 DEF HookInv, CleanFirst, Clean, PrivateKey, BrokenInv, KeyInv, DeferredInv
  <2>5. HookInv(w)'  BY <1>1, <1>5, <2>1, <2>2, <2>3, <2>4 DEF HookInv
  <2> QED  BY <1>2, <1>3, <2>5 DEF Inv
<1> QED  BY <1>4, <1>5 DEF Inv

LEMMA NextInv ==
    ASSUME Inv, [Next]_vars
    PROVE  Inv'
BY StepInv, HooksBegin, FailInv, CommitInv, ProviderInv, OperatorInv, AgeInv, StutterInv
   DEF Next, UnitHooks

THEOREM Inductive == Spec => []Inv
<1>1. Init => Inv  BY InitInv
<1>2. Inv /\ [Next]_vars => Inv'  BY NextInv
<1> QED  BY <1>1, <1>2, PTL DEF Spec

\* Databags, secrets, requests and deferred events keep their types, and no request
\* has two secrets, whatever the provider, the operator and time do.
THEOREM TypeCorrect == Spec => []TypeOK
<1>1. Inv => TypeOK  BY DEF Inv
<1> QED  BY <1>1, Inductive, PTL

\* A certificate in the unit's databag was asked for with the key beside it, for any
\* number of keys, requests and certificates and any course of events.
THEOREM CertificateHasItsKey == Spec => []IdentityMatches
<1>1. Inv => IdentityMatches  BY DEF Inv, StateInv, KeyInv, IdentityMatches
<1> QED  BY <1>1, Inductive, PTL

-----------------------------------------------------------------------------
(* What UnitIdentity promises                                               *)

\* The identities a unit could take over, as UnitIdentity sees them.
InOffer == {Issued(c) : c \in OfferedCerts \cup Waiting}

LEMMA InHandAreCerts ==
    ASSUME TypeOK
    PROVE  InHand \subseteq Certs
<1>1. OfferedCerts \subseteq Certs
  <2>1. ToSet(prov) \subseteq Offers  BY Elements DEF TypeOK
  <2> QED  BY <2>1, CertFields DEF OfferedCerts
<1>2. Waiting \subseteq Certs
  <2>1. ToSet(deferred) \subseteq Deferrals  BY Elements DEF TypeOK
  <2> QED  BY <2>1, CertFields DEF Waiting
<1> QED  BY <1>1, <1>2 DEF InHand

LEMMA InitIdentity ==
    ASSUME Init
    PROVE  Identity!Init
<1>1. own = [key |-> NoKey, cert |-> Nothing, age |-> "fresh"]  BY DEF Init
<1>2. own.key \notin Keys /\ own.cert = Nothing  BY <1>1, KeysAreKeys
<1>3. OfferedCerts = {} /\ Waiting = {}
  <2>1. ToSet(prov) = {} /\ ToSet(deferred) = {}  BY DEF Init, ToSet
  <2> QED  BY <2>1 DEF OfferedCerts, Waiting
<1>4. (rel # "none") = FALSE  BY DEF Init
<1> QED  BY <1>2, <1>3, <1>4 DEF Identity!Init

\* Steps that concern neither the relation, the key nor the certificate.
LEMMA NoEffect ==
    ASSUME UNCHANGED rel, own'.key = own.key, own'.cert = own.cert, InOffer' \subseteq InOffer
    PROVE  Identity!Next
BY DEF Identity!Next, InOffer

LEMMA NothingNew ==
    ASSUME UNCHANGED <<prov, deferred>>
    PROVE  InOffer' \subseteq InOffer
BY DEF InOffer, OfferedCerts, Waiting

\* A hook that ends leaves no certificate in a deferred event but those it began with.
LEMMA CommitOffers ==
    ASSUME Inv, Commit
    PROVE  InOffer' \subseteq InOffer
<1>1. HookInv(w)  BY DEF Inv, Commit
<1>2. deferred' = w.deferred  BY DEF Commit
<1>3. prov' = prov \/ prov' = <<>>  BY DEF Commit
<1>4. OfferedCerts' \subseteq OfferedCerts  BY <1>3 DEF OfferedCerts, ToSet
<1>5. Waiting' \subseteq InHand  BY <1>1, <1>2 DEF HookInv, Waiting
<1> QED  BY <1>4, <1>5 DEF InOffer, InHand

\* A hook that ends changes the identity as UnitIdentity allows.
LEMMA CommitIdentity ==
    ASSUME Inv, Commit
    PROVE  Identity!Next
<1>1. HookInv(w) /\ w.todo = <<>>  BY DEF Inv, Commit
<1>2. InOffer' \subseteq InOffer  BY CommitOffers
<1>3. own' = w.own  BY DEF Commit
<1>4. OwnInv(w) /\ BrokenInv(w) /\ (w.event = "broken" => rel = "dying")  BY <1>1 DEF HookInv
<1>5. CASE w.event = "broken"
  <2>1. own'.cert \in {Nothing, SelfSigned}  BY <1>1, <1>3, <1>4, <1>5 DEF BrokenInv
  <2>2. own'.key = own.key \/ own'.key \in Keys  BY <1>3, <1>4 DEF OwnInv
  <2>3. rel # "none" /\ ~(rel' # "none")  BY <1>4, <1>5 DEF Commit
  <2>4. Identity!Unrelate  BY <1>2, <2>1, <2>2, <2>3 DEF Identity!Unrelate, InOffer
  <2> QED  BY <2>4 DEF Identity!Next
<1>6. CASE w.event # "broken"
  <2>1. UNCHANGED rel  BY <1>6 DEF Commit
  <2>2. CASE w.own.cert = own.cert /\ w.own.key = own.key
    BY <1>2, <1>3, <2>1, <2>2, NoEffect
  <2>3. CASE own.cert = Nothing /\ w.own.cert = SelfSigned /\ w.own.key \in Keys
    <3>1. Identity!SelfSign  BY <1>2, <1>3, <2>1, <2>3 DEF Identity!SelfSign, InOffer
    <3> QED  BY <3>1 DEF Identity!Next
  <2>4. CASE \E c \in InHand : IsUsable(c) /\ w.own.cert = Issued(c) /\ w.own.key = c.csr.key
    <3>1. PICK c \in InHand : IsUsable(c) /\ w.own.cert = Issued(c) /\ w.own.key = c.csr.key
      BY <2>4
    <3>2. Issued(c).cert = c /\ Issued(c) \in InOffer  BY <3>1, OwnedFields DEF InOffer, InHand
    <3>3. Identity!TakeOver(Issued(c))
      BY <1>2, <1>3, <2>1, <3>1, <3>2 DEF Identity!TakeOver, InOffer, IsUsable
    <3> QED  BY <3>2, <3>3 DEF Identity!Next, InOffer
  <2> QED  BY <1>4, <1>6, <2>2, <2>3, <2>4 DEF OwnInv
<1> QED  BY <1>5, <1>6

\* The provider, while it is related, may offer what it likes.
LEMMA ProviderIdentity ==
    ASSUME Inv, Inv', Provider \/ ProviderReplaces \/ RevokeAllCertificates
    PROVE  Identity!Next
<1>1. rel = "up" /\ UNCHANGED <<rel, own>>
  BY DEF Provider, ProviderTidies, ProviderIssues, ProviderReplaces, RevokeAllCertificates,
         SetRelationCertificate, Offer, unitVars
<1>2. InHand' \subseteq Certs
  <2>1. TypeOK'  BY DEF Inv
  <2>2. (TypeOK => InHand \subseteq Certs)'  BY InHandAreCerts, PTL
  <2> QED  BY <2>1, <2>2
<1>3. InOffer' \subseteq {Issued(c) : c \in Certs}  BY <1>2 DEF InOffer, InHand
<1>4. Identity!Issue  BY <1>1, <1>3 DEF Identity!Issue, InOffer
<1> QED  BY <1>4 DEF Identity!Next

LEMMA OthersIdentity ==
    ASSUME Inv, Relate \/ Unrelate \/ Move \/ GetReady \/ Age
    PROVE  Identity!Next
<1>1. UNCHANGED <<prov, deferred>>
  BY DEF Relate, Unrelate, Move, GetReady, Age, unitVars
<1>2. InOffer' \subseteq InOffer  BY <1>1, NothingNew
<1>3. CASE Relate
  <2>1. rel = "none" /\ rel' = "up" /\ UNCHANGED own  BY <1>3 DEF Relate, unitVars
  <2>2. InOffer' = InOffer  BY <1>1 DEF InOffer, OfferedCerts, Waiting
  <2>3. Identity!Relate  BY <2>1, <2>2 DEF Identity!Relate, InOffer
  <2> QED  BY <2>3 DEF Identity!Next
<1>4. CASE Unrelate
  <2>1. (rel # "none") = TRUE /\ (rel' # "none") = TRUE /\ UNCHANGED own
    BY <1>4 DEF Unrelate, unitVars
  <2> QED  BY <1>2, <2>1 DEF Identity!Next, InOffer
<1>5. CASE Move \/ GetReady
  <2>1. UNCHANGED <<rel, own>>  BY <1>5 DEF Move, GetReady, unitVars
  <2> QED  BY <1>2, <2>1, NoEffect
<1>6. CASE Age
  <2>1. UNCHANGED rel  BY <1>6 DEF Age
  <2>2. own \in Owns  BY DEF Inv, StateInv
  <2>3. own' = own \/ own' = [own EXCEPT !.age = Later(own.age)]  BY <1>6, Zenon DEF Age
  <2>4. [own EXCEPT !.age = Later(own.age)].key = own.key
        /\ [own EXCEPT !.age = Later(own.age)].cert = own.cert
    BY <2>2 DEF Owns
  <2>5. own'.key = own.key /\ own'.cert = own.cert  BY <2>3, <2>4, Zenon
  <2> QED  BY <1>2, <2>1, <2>5, NoEffect
<1> QED  BY <1>3, <1>4, <1>5, <1>6

LEMMA NextIdentity ==
    ASSUME Inv, Inv', [Next]_vars
    PROVE  [Identity!Next]_(Identity!vars)
<1>1. CASE RelationHook \/ BrokenHook \/ ConfigHook \/ SecretHook \/ StatusHook \/ Step \/ Fail
  <2>1. UNCHANGED <<rel, prov, own, deferred>>
    BY <1>1 DEF RelationHook, BrokenHook, ConfigHook, SecretHook, StatusHook, Begin, Step, Fail,
                unitVars
  <2> QED  BY <2>1, NothingNew, NoEffect
<1>2. CASE UNCHANGED vars
  <2>1. UNCHANGED <<rel, prov, own, deferred>>  BY <1>2 DEF vars
  <2> QED  BY <2>1, NothingNew, NoEffect
<1> QED
  BY <1>1, <1>2, CommitIdentity, ProviderIdentity, OthersIdentity DEF Next, UnitHooks

\* The unit's key and certificate change only as UnitIdentity allows: no certificate
\* without its key, none that was not offered to this unit, none but a server's, and
\* none lost but with the relation, whatever was deferred, revoked, replaced or ran out.
THEOREM ImplementsUnitIdentity == Spec => IdentitySpec
<1>1. Init => Identity!Init  BY InitIdentity
<1>2. Inv /\ Inv' /\ [Next]_vars => [Identity!Next]_(Identity!vars)  BY NextIdentity
<1> QED  BY <1>1, <1>2, Inductive, PTL DEF Spec, IdentitySpec, Identity!Spec

-----------------------------------------------------------------------------
(* Renewal: what keeps the certificate in use from running out unnoticed   *)

\* The tasks, and deferred events, that bring the unit a certificate; the last one
\* decides.
Brings(t) == t.do \in {"available", "adopt"}
BringsNone(q) == \A i \in DOMAIN q : ~Brings(q[i])
BringsLast(q, c) ==
    \E i \in DOMAIN q :
        /\ Brings(q[i]) /\ q[i].cert = c
        /\ \A j \in DOMAIN q : j > i => ~Brings(q[j])

\* With requests r, secrets S and the offers P still to be looked at, c needs no
\* renewal, or its secret will ask for it, or another certificate is on its way.
\* A: the ages that the unit may take c to have.
Covered(c, A, r, S, P) ==
    \/ c.csr \notin ToSet(r)
    \/ \E o \in ToSet(prov) : (o.revoked \/ o.cert.ca) /\ o.cert.csr = c.csr
    \/ \E s \in S : s.cert = c /\ s.replaced
    \/ \E s \in S : s.cert = c /\ s.expire = "due" /\ s.age \in A /\ s.age # "expired"
    \/ \E o \in P : /\ ~o.revoked /\ ~o.cert.ca /\ o.cert.csr = c.csr
                    /\ \A s \in S : s.cert # o.cert

\* Offers that the relation-changed hook will look at, and those a hook leaves to it
\* or is going to look at itself.
Unseen == IF "changed" \in events THEN ToSet(prov) ELSE {}
Finds(h) == h.event # "changed" \/ \E i \in DOMAIN h.todo : h.todo[i].do = "find"
UnseenBy(h) ==
    {o \in Unseen : Finds(h) \/ \E i \in DOMAIN h.todo : h.todo[i].do = "offer" /\ h.todo[i].offer = o}

\* The certificate that will be in use when all has been handled is covered.
HeirCovered(q, d, o, r, S, P) ==
    /\ \A c \in Certs : BringsLast(q, c) => Covered(c, Ages, r, S, P)
    /\ BringsNone(q) =>
          /\ \A c \in Certs : BringsLast(d, c) => Covered(c, Ages, r, S, P)
          /\ o.cert.by = "provider" => Covered(o.cert.cert, {o.age}, r, S, P)

\* Offers are looked at after the requests for other addresses were dropped,
\* and nothing that was on its way before comes after them.
AddressFirst(h) ==
    \A i \in DOMAIN h.todo : h.todo[i].do \in {"find", "offer"} =>
        \/ \A r \in ToSet(h.req) : MatchesAttributes(r)
        \/ \E j \in DOMAIN h.todo : j < i /\ h.todo[j].do = "cleanup"
OffersLast(h) ==
    \A i, j \in DOMAIN h.todo : i < j /\ h.todo[i].do \in {"find", "offer"} => ~Brings(h.todo[j])

RequestsDropped(h) ==
    h.event = "broken" =>
        \/ h.todo # <<>> /\ h.todo[Len(h.todo)].do = "broken"
        \/ h.req = <<>> /\ \A i \in DOMAIN h.todo : h.todo[i].do \in {"config", "init"}

RenewHook(h) ==
    /\ AddressFirst(h) /\ OffersLast(h) /\ RequestsDropped(h)
    /\ h.own.cert.by = "provider" => h.own.cert.cert \in InHand \cup OwnCerts
    /\ HeirCovered(h.todo, h.deferred, h.own, h.req, h.secrets, UnseenBy(h))

RenewState ==
    /\ rel = "none" => prov = <<>>
    /\ HeirCovered(<<>>, deferred, own, req, secrets, Unseen)

RenewInv == RenewState /\ (Idle \/ RenewHook(w))

-----------------------------------------------------------------------------
(* What brings the next certificate, after a task                          *)

\* No later task of a list brings a certificate if none does that was put before
\* the rest, but the one that stands for the task that was taken.
LEMMA BringsAfter ==
    ASSUME NEW todo \in Seq(Tasks), todo # <<>>, NEW new \in Seq(Tasks), NEW next,
           next = new \o Tail(todo),
           \A i \in DOMAIN new :
               Brings(new[i]) => Brings(Head(todo)) /\ new[i].cert = Head(todo).cert
    PROVE  /\ \A x : BringsLast(next, x) => BringsLast(todo, x)
           /\ BringsNone(next) =>
                 \/ Brings(Head(todo)) /\ BringsLast(todo, Head(todo).cert)
                 \/ ~Brings(Head(todo)) /\ BringsNone(todo)
<1>1. next \in Seq(Tasks) /\ Follows(next, new, todo)  BY Pushed
<1>2. /\ Len(todo) \in Nat \ {0} /\ Len(new) \in Nat /\ DOMAIN todo = 1..Len(todo)
      /\ DOMAIN new = 1..Len(new) /\ DOMAIN next = 1..Len(next) /\ Head(todo) = todo[1]
  BY <1>1
<1>3. ASSUME NEW j \in DOMAIN todo, j > 1
      PROVE  Len(new) + j - 1 \in DOMAIN next /\ next[Len(new) + j - 1] = todo[j]
  BY <1>1, <1>3 DEF Follows
<1>4. ASSUME NEW x, BringsLast(next, x) PROVE BringsLast(todo, x)
  <2>1. PICK i \in DOMAIN next :
            Brings(next[i]) /\ next[i].cert = x /\ \A j \in DOMAIN next : j > i => ~Brings(next[j])
    BY <1>4 DEF BringsLast
  <2>2. CASE i \in DOMAIN new /\ next[i] = new[i]
    <3>1. Brings(todo[1]) /\ todo[1].cert = x  BY <1>2, <2>1, <2>2
    <3>2. ASSUME NEW j \in DOMAIN todo, j > 1 PROVE ~Brings(todo[j])
      <4>1. Len(new) + j - 1 > i  BY <1>2, <2>2, <3>2
      <4> QED  BY <4>1, <1>3, <2>1, <3>2
    <3> QED  BY <1>2, <3>1, <3>2 DEF BringsLast
  <2>3. CASE /\ i > Len(new) /\ i - Len(new) + 1 \in DOMAIN todo /\ i - Len(new) + 1 > 1
             /\ next[i] = todo[i - Len(new) + 1]
    <3> DEFINE k == i - Len(new) + 1
    <3>1. k \in DOMAIN todo /\ Brings(todo[k]) /\ todo[k].cert = x  BY <2>1, <2>3
    <3>2. ASSUME NEW j \in DOMAIN todo, j > k PROVE ~Brings(todo[j])
      <4>1. i \in Nat /\ j \in Nat /\ Len(new) + j - 1 > i /\ j > 1  BY <1>2, <2>3, <3>2
      <4> QED  BY <4>1, <1>3, <2>1
    <3> HIDE DEF k
    <3> QED  BY <3>1, <3>2 DEF BringsLast
  <2> QED  BY <2>1, <2>2, <2>3, <1>1 DEF Follows
<1>5. ASSUME BringsNone(next)
      PROVE  \/ Brings(Head(todo)) /\ BringsLast(todo, Head(todo).cert)
             \/ ~Brings(Head(todo)) /\ BringsNone(todo)
  <2>1. \A j \in DOMAIN todo : j > 1 => ~Brings(todo[j])  BY <1>3, <1>5 DEF BringsNone
  <2>2. CASE Brings(todo[1])
    <3>1. BringsLast(todo, todo[1].cert)  BY <1>2, <2>1, <2>2 DEF BringsLast
    <3> QED  BY <3>1, <1>2, <2>2
  <2>3. CASE ~Brings(todo[1])
    <3>1. \A j \in DOMAIN todo : j = 1 \/ j > 1  BY <1>2
    <3> QED  BY <3>1, <1>2, <2>1, <2>3 DEF BringsNone
  <2> QED  BY <2>2, <2>3
<1> QED  BY <1>4, <1>5

\* A certificate that is on its way is on offer or waits, or is in use.
LEMMA HeirsLive ==
    ASSUME Inv, HookInv(w), RenewHook(w)
    PROVE  /\ \A c \in Certs : BringsLast(w.todo, c) \/ BringsLast(w.deferred, c) => c \in InHand
           /\ w.own.cert.by = "provider" =>
                 w.own.cert.cert \in Certs /\ w.own.cert.cert \in InHand \cup OwnCerts
<1>1. ASSUME NEW c \in Certs, BringsLast(w.todo, c) PROVE c \in InHand
  <2>1. PICK i \in DOMAIN w.todo : Brings(w.todo[i]) /\ w.todo[i].cert = c
    BY <1>1 DEF BringsLast
  <2>2. TaskInv(w.todo[i], w)  BY DEF HookInv
  <2> QED  BY <2>1, <2>2 DEF TaskInv, Brings
<1>2. ASSUME NEW c \in Certs, BringsLast(w.deferred, c) PROVE c \in InHand
  <2>1. PICK i \in DOMAIN w.deferred : Brings(w.deferred[i]) /\ w.deferred[i].cert = c
    BY <1>2 DEF BringsLast
  <2>2. w.deferred \in Seq(Deferrals)  BY HooksAre DEF HookInv
  <2>3. w.deferred[i] \in Deferrals /\ w.deferred[i] \in ToSet(w.deferred)  BY <2>2, Elements
  <2>4. w.deferred[i].do = "available"  BY <2>1, <2>3, CertFields DEF Brings
  <2> QED  BY <2>1, <2>3, <2>4 DEF HookInv
<1>3. w.own \in Owns  BY HooksAre DEF HookInv
<1>4. w.own.cert.by = "provider" => w.own.cert.cert \in Certs  BY <1>3, OwnFields, OwnedFields
<1> QED  BY <1>1, <1>2, <1>4 DEF RenewHook

\* What a hook has still to look at, it has after every task but these two.
LEMMA UnseenKept ==
    ASSUME NEW do, At(do), do \notin {"find", "offer"}, NEW h, h.event = w.event,
           NEW new \in Seq(Tasks), h.todo = new \o Tail(w.todo)
    PROVE  UnseenBy(w) \subseteq UnseenBy(h)
<1>1. w.todo \in Seq(Tasks) /\ w.todo # <<>> /\ Head(w.todo).do = do
  BY HooksAre DEF At, HookInv
<1>2. Follows(h.todo, new, w.todo)  BY <1>1, Pushed
<1>3. ASSUME NEW j \in DOMAIN w.todo, w.todo[j].do \in {"find", "offer"}
      PROVE  \E i \in DOMAIN h.todo : h.todo[i] = w.todo[j]
  <2>1. j \in Nat /\ j # 1 /\ j >= 1  BY <1>1, <1>3
  <2>2. j > 1  BY <2>1
  <2> QED  BY <1>2, <2>2 DEF Follows
<1>4. Finds(w) => Finds(h)  BY <1>3 DEF Finds
<1>5. ASSUME NEW o, NEW j \in DOMAIN w.todo, w.todo[j].do = "offer", w.todo[j].offer = o
      PROVE  \E i \in DOMAIN h.todo : h.todo[i].do = "offer" /\ h.todo[i].offer = o
  BY <1>3, <1>5
<1> QED  BY <1>4, <1>5 DEF UnseenBy

\* Every offer that was to be looked at now is.
LEMMA FindLooks ==
    ASSUME At("find"), Inv, NEW new \in Seq(Tasks), DOMAIN new = DOMAIN prov,
           \A i \in DOMAIN new : new[i].do = "offer" /\ new[i].offer = prov[i],
           NEW h, h.todo = new \o Tail(w.todo)
    PROVE  UnseenBy(w) \subseteq UnseenBy(h)
<1>1. w.todo \in Seq(Tasks) /\ w.todo # <<>>  BY AtHand DEF At
<1>2. Follows(h.todo, new, w.todo) /\ h.todo \in Seq(Tasks)  BY <1>1, Pushed
<1>3. ASSUME NEW o \in Unseen PROVE o \in UnseenBy(h)
  <2>1. PICK i \in DOMAIN prov : o = prov[i]  BY <1>3 DEF Unseen, ToSet
  <2>2. i \in DOMAIN new /\ Len(new) \in Nat /\ DOMAIN new = 1..Len(new)  BY <2>1
  <2>3. i \in DOMAIN h.todo
    <3>1. Len(h.todo) >= Len(new)
      <4>1. Len(w.todo) \in Nat \ {0}  BY <1>1
      <4> QED  BY <1>2, <2>2, <4>1 DEF Follows
    <3>2. DOMAIN h.todo = 1..Len(h.todo)  BY <1>2
    <3> QED  BY <1>2, <2>2, <3>1, <3>2
  <2>4. ~(i > Len(new))  BY <2>2
  <2>5. h.todo[i] = new[i]  BY <1>2, <2>3, <2>4 DEF Follows
  <2> QED  BY <1>3, <2>1, <2>2, <2>3, <2>5 DEF UnseenBy
<1> QED  BY <1>3 DEF UnseenBy

\* The offer that is looked at now is the only one that is not still to be looked at.
LEMMA OfferLooks ==
    ASSUME At("offer"), Inv, NEW new \in Seq(Tasks),
           NEW h, h.event = w.event, h.todo = new \o Tail(w.todo)
    PROVE  UnseenBy(w) \subseteq UnseenBy(h) \cup {Head(w.todo).offer}
<1> DEFINE offer == Head(w.todo).offer
<1>1. w.todo \in Seq(Tasks) /\ w.todo # <<>> /\ Head(w.todo).do = "offer"  BY AtHand DEF At
<1>2. Follows(h.todo, new, w.todo)  BY <1>1, Pushed
<1>3. 1 \in DOMAIN w.todo /\ Head(w.todo) = w.todo[1] /\ (\A j \in DOMAIN w.todo : j = 1 \/ j > 1)
  BY <1>1
<1>4. ASSUME NEW j \in DOMAIN w.todo, j # 1 PROVE \E i \in DOMAIN h.todo : h.todo[i] = w.todo[j]
  BY <1>2, <1>3, <1>4 DEF Follows
<1>5. Finds(w) => Finds(h)  BY <1>1, <1>3, <1>4 DEF Finds
<1>6. ASSUME NEW o, o # offer, NEW j \in DOMAIN w.todo, w.todo[j].do = "offer", w.todo[j].offer = o
      PROVE  \E i \in DOMAIN h.todo : h.todo[i].do = "offer" /\ h.todo[i].offer = o
  <2>1. j # 1  BY <1>3, <1>6
  <2> QED  BY <1>4, <1>6, <2>1
<1> HIDE DEF offer
<1>7. UnseenBy(w) \subseteq UnseenBy(h) \cup {offer}  BY <1>5, <1>6 DEF UnseenBy
<1> QED  BY <1>7 DEF offer

-----------------------------------------------------------------------------
(* What a task must do to keep RenewHook                                   *)

\* What a task leaves of the hook's copy w: tasks new before the rest.
Becomes(h, new, r, s, o, d) ==
    /\ new \in Seq(Tasks) /\ h.event = w.event /\ h.todo = new \o Tail(w.todo)
    /\ h.req = r /\ h.secrets = s /\ h.own = o /\ h.deferred = d

\* The tasks it puts there, and the requests, are in order.
InOrder(new, r) ==
    LET do == Head(w.todo).do
        allMatch(q) == \A x \in ToSet(q) : MatchesAttributes(x)
    IN  /\ allMatch(w.req) \/ do = "cleanup" => allMatch(r)
        /\ \A i \in DOMAIN new : new[i].do \in {"find", "offer"} =>
              do \in {"find", "offer"} /\ BringsNone(new) /\ allMatch(r)
        /\ do \in {"config", "init"} =>
              r = w.req /\ \A i \in DOMAIN new : new[i].do \in {"config", "init"}
        /\ do = "broken" => r = <<>> /\ \A i \in DOMAIN new : new[i].do \in {"config", "init"}

LEMMA OrderKeeps ==
    ASSUME HookInv(w), w.todo # <<>>, RenewHook(w), NEW h,
           NEW new, NEW r, NEW s, NEW o, NEW d, Becomes(h, new, r, s, o, d), InOrder(new, r)
    PROVE  AddressFirst(h) /\ OffersLast(h) /\ RequestsDropped(h)
<1>1. w.todo \in Seq(Tasks) /\ new \in Seq(Tasks) /\ h.todo = new \o Tail(w.todo)
      /\ h.req = r /\ h.event = w.event
  BY HooksAre DEF HookInv, Becomes
<1>2. h.todo \in Seq(Tasks) /\ Follows(h.todo, new, w.todo)  BY <1>1, Pushed
<1>3. /\ Len(w.todo) \in Nat \ {0} /\ Len(new) \in Nat /\ DOMAIN w.todo = 1..Len(w.todo)
      /\ DOMAIN new = 1..Len(new) /\ DOMAIN h.todo = 1..Len(h.todo) /\ Head(w.todo) = w.todo[1]
      /\ Len(h.todo) = Len(new) + Len(w.todo) - 1
  BY <1>1, <1>2 DEF Follows
<1>4. ASSUME NEW i \in DOMAIN h.todo
      PROVE  \/ i \in DOMAIN new /\ h.todo[i] = new[i]
             \/ \E k \in DOMAIN w.todo :
                   k > 1 /\ i = Len(new) + k - 1 /\ h.todo[i] = w.todo[k]
  <2>1. CASE i \in DOMAIN new /\ h.todo[i] = new[i]  BY <2>1
  <2>2. CASE /\ i > Len(new) /\ i - Len(new) + 1 \in DOMAIN w.todo /\ i - Len(new) + 1 > 1
             /\ h.todo[i] = w.todo[i - Len(new) + 1]
    <3>1. i = Len(new) + (i - Len(new) + 1) - 1  BY <1>3
    <3> QED  BY <2>2, <3>1
  <2> QED  BY <2>1, <2>2, <1>2 DEF Follows
<1>5. \A j \in DOMAIN w.todo : j > 1 =>
         Len(new) + j - 1 \in DOMAIN h.todo /\ h.todo[Len(new) + j - 1] = w.todo[j]
  BY <1>2 DEF Follows
<1> DEFINE matching(q) == \A x \in ToSet(q) : MatchesAttributes(x)
<1>6. AddressFirst(h)
  <2> SUFFICES ASSUME NEW i \in DOMAIN h.todo, h.todo[i].do \in {"find", "offer"},
                      ~matching(r)
               PROVE  \E j \in DOMAIN h.todo : j < i /\ h.todo[j].do = "cleanup"
    BY <1>1 DEF AddressFirst
  <2>1. ~matching(w.req) /\ Head(w.todo).do # "cleanup"  BY DEF InOrder
  <2>2. ~(i \in DOMAIN new /\ h.todo[i] = new[i])  BY DEF InOrder
  <2>3. PICK k \in DOMAIN w.todo : k > 1 /\ i = Len(new) + k - 1 /\ h.todo[i] = w.todo[k]
    BY <1>4, <2>2
  <2>4. PICK j \in DOMAIN w.todo : j < k /\ w.todo[j].do = "cleanup"
    BY <2>1, <2>3 DEF RenewHook, AddressFirst
  <2>5. j > 1
    <3>1. j # 1  BY <1>3, <2>1, <2>4
    <3> QED  BY <1>3, <3>1
  <2>6. Len(new) + j - 1 < i  BY <1>3, <2>3, <2>4
  <2> QED  BY <1>5, <2>4, <2>5, <2>6
<1>7. OffersLast(h)
  <2> SUFFICES ASSUME NEW i \in DOMAIN h.todo, NEW j \in DOMAIN h.todo, i < j,
                      h.todo[i].do \in {"find", "offer"}
               PROVE  ~Brings(h.todo[j])
    BY DEF OffersLast
  <2>1. CASE i \in DOMAIN new /\ h.todo[i] = new[i]
    <3>1. Head(w.todo).do \in {"find", "offer"} /\ BringsNone(new)  BY <2>1 DEF InOrder
    <3>2. CASE j \in DOMAIN new /\ h.todo[j] = new[j]  BY <3>1, <3>2 DEF BringsNone
    <3>3. CASE \E k \in DOMAIN w.todo : k > 1 /\ h.todo[j] = w.todo[k]
      <4>1. 1 \in DOMAIN w.todo /\ w.todo[1].do \in {"find", "offer"}  BY <1>3, <3>1
      <4> QED  BY <3>3, <4>1 DEF RenewHook, OffersLast
    <3> QED  BY <1>4, <3>2, <3>3
  <2>2. CASE \E k \in DOMAIN w.todo : k > 1 /\ i = Len(new) + k - 1 /\ h.todo[i] = w.todo[k]
    <3>1. PICK k \in DOMAIN w.todo : k > 1 /\ i = Len(new) + k - 1 /\ h.todo[i] = w.todo[k]
      BY <2>2
    <3>2. ~(j \in DOMAIN new)  BY <1>3, <3>1
    <3>3. PICK m \in DOMAIN w.todo : m > 1 /\ j = Len(new) + m - 1 /\ h.todo[j] = w.todo[m]
      BY <1>4, <3>2
    <3>4. k < m  BY <1>3, <3>1, <3>3
    <3> QED  BY <3>1, <3>3, <3>4 DEF RenewHook, OffersLast
  <2> QED  BY <1>4, <2>1, <2>2
<1>8. RequestsDropped(h)
  <2> SUFFICES ASSUME w.event = "broken"
               PROVE  \/ h.todo # <<>> /\ h.todo[Len(h.todo)].do = "broken"
                      \/ r = <<>> /\ \A i \in DOMAIN h.todo : h.todo[i].do \in {"config", "init"}
    BY <1>1 DEF RequestsDropped
  <2>1. CASE w.todo[Len(w.todo)].do = "broken" /\ Len(w.todo) > 1
    <3>1. Len(w.todo) \in DOMAIN w.todo  BY <1>3
    <3>2. h.todo[Len(h.todo)] = w.todo[Len(w.todo)]  BY <1>3, <1>5, <2>1, <3>1
    <3>3. Len(h.todo) > 0  BY <1>3, <2>1
    <3> QED  BY <2>1, <3>2, <3>3
  <2>2. CASE w.todo[Len(w.todo)].do = "broken" /\ Len(w.todo) = 1
    <3>1. r = <<>> /\ \A i \in DOMAIN new : new[i].do \in {"config", "init"}
      BY <1>3, <2>2 DEF InOrder
    <3>2. \A k \in DOMAIN w.todo : ~(k > 1)  BY <1>3, <2>2
    <3> QED  BY <1>4, <3>1, <3>2
  <2>3. CASE w.req = <<>> /\ \A i \in DOMAIN w.todo : w.todo[i].do \in {"config", "init"}
    <3>1. Head(w.todo).do \in {"config", "init"}
      <4>1. 1 \in DOMAIN w.todo  BY <1>3
      <4> QED  BY <1>3, <2>3, <4>1
    <3>2. r = <<>> /\ \A i \in DOMAIN new : new[i].do \in {"config", "init"}
      BY <2>3, <3>1 DEF InOrder
    <3> QED  BY <1>4, <2>3, <3>2
  <2>4. Len(w.todo) > 1 \/ Len(w.todo) = 1
    <3>1. \A n \in Nat \ {0} : n = 1 \/ n > 1  OBVIOUS
    <3> QED  BY <1>3, <3>1
  <2> QED  BY <2>1, <2>2, <2>3, <2>4 DEF RenewHook, RequestsDropped
<1> QED  BY <1>6, <1>7, <1>8

\* Its certificates stay covered, and the unit takes none that is not.
LEMMA CoverKeeps ==
    ASSUME Inv, HookInv(w), w.todo # <<>>, RenewHook(w), NEW h,
           NEW new, NEW r, NEW s, NEW o, NEW d, Becomes(h, new, r, s, o, d),
           \A i \in DOMAIN new :
               Brings(new[i]) => Brings(Head(w.todo)) /\ new[i].cert = Head(w.todo).cert,
           \A c \in Certs, A \in SUBSET Ages :
               /\ c \in InHand \cup OwnCerts
               /\ Covered(c, A, w.req, w.secrets, UnseenBy(w))
               => Covered(c, A, r, s, UnseenBy(h)),
           Brings(Head(w.todo)) => Head(w.todo).cert \in Certs,
           BringsNone(h.todo) => \A c \in Certs : BringsLast(d, c) =>
               \/ Brings(Head(w.todo)) /\ c = Head(w.todo).cert
               \/ ~Brings(Head(w.todo)) /\ BringsLast(w.deferred, c),
           BringsNone(h.todo) /\ o.cert.by = "provider" =>
               \/ Covered(o.cert.cert, {o.age}, r, s, UnseenBy(h))
               \/ ~Brings(Head(w.todo)) /\ o = w.own
    PROVE  HeirCovered(h.todo, d, o, r, s, UnseenBy(h))
<1> DEFINE U == UnseenBy(w)
           V == UnseenBy(h)
<1>1. w.todo \in Seq(Tasks) /\ new \in Seq(Tasks) /\ h.todo = new \o Tail(w.todo) /\ w.own \in Owns
  BY HooksAre DEF HookInv, Becomes
<1>2. /\ \A x : BringsLast(h.todo, x) => BringsLast(w.todo, x)
      /\ BringsNone(h.todo) =>
            \/ Brings(Head(w.todo)) /\ BringsLast(w.todo, Head(w.todo).cert)
            \/ ~Brings(Head(w.todo)) /\ BringsNone(w.todo)
  BY <1>1, BringsAfter
<1>3. HeirCovered(w.todo, w.deferred, w.own, w.req, w.secrets, U)  BY DEF RenewHook
<1> HIDE DEF U, V
<1>4. \A c \in Certs, A \in SUBSET Ages :
         c \in InHand \cup OwnCerts /\ Covered(c, A, w.req, w.secrets, U) => Covered(c, A, r, s, V)
  BY DEF U, V
<1>5. ASSUME NEW c \in Certs, BringsLast(w.todo, c) PROVE Covered(c, Ages, r, s, V)
  <2>1. Covered(c, Ages, w.req, w.secrets, U)  BY <1>3, <1>5 DEF HeirCovered
  <2> QED  BY <1>4, <1>5, <2>1, HeirsLive
<1>6. ASSUME BringsNone(h.todo), NEW c \in Certs, BringsLast(d, c) PROVE Covered(c, Ages, r, s, V)
  <2>1. CASE Brings(Head(w.todo)) /\ c = Head(w.todo).cert
    <3>1. BringsLast(w.todo, c)  BY <1>2, <1>6, <2>1
    <3> QED  BY <1>5, <3>1
  <2>2. CASE ~Brings(Head(w.todo)) /\ BringsLast(w.deferred, c)
    <3>1. BringsNone(w.todo)  BY <1>2, <1>6, <2>2
    <3>2. Covered(c, Ages, w.req, w.secrets, U)  BY <1>3, <2>2, <3>1 DEF HeirCovered
    <3> QED  BY <1>4, <2>2, <3>2, HeirsLive
  <2> QED  BY <1>6, <2>1, <2>2
<1>7. ASSUME BringsNone(h.todo), o.cert.by = "provider" PROVE Covered(o.cert.cert, {o.age}, r, s, V)
  <2>1. CASE ~Brings(Head(w.todo)) /\ o = w.own
    <3>1. BringsNone(w.todo)  BY <1>2, <1>7, <2>1
    <3>2. Covered(o.cert.cert, {o.age}, w.req, w.secrets, U)  BY <1>3, <1>7, <2>1, <3>1 DEF HeirCovered
    <3>3. o.cert.cert \in Certs /\ o.cert.cert \in InHand \cup OwnCerts  BY <1>7, <2>1, HeirsLive
    <3>4. {o.age} \in SUBSET Ages  BY <1>1, <2>1, OwnFields
    <3> QED  BY <1>4, <3>2, <3>3, <3>4
  <2> QED  BY <1>7, <2>1 DEF V
<1>8. HeirCovered(h.todo, d, o, r, s, V)  BY <1>2, <1>5, <1>6, <1>7 DEF HeirCovered
<1> QED  BY <1>8 DEF V

LEMMA RenewKeeps ==
    ASSUME HookInv(w), w.todo # <<>>, RenewHook(w), NEW h,
           NEW new, NEW r, NEW s, NEW o, NEW d, Becomes(h, new, r, s, o, d), InOrder(new, r),
           o.cert.by = "provider" => o.cert.cert \in InHand \cup OwnCerts,
           HeirCovered(h.todo, d, o, r, s, UnseenBy(h))
    PROVE  RenewHook(h)
<1>1. AddressFirst(h) /\ OffersLast(h) /\ RequestsDropped(h)  BY OrderKeeps
<1>2. h.req = r /\ h.secrets = s /\ h.own = o /\ h.deferred = d  BY DEF Becomes
<1> QED  BY <1>1, <1>2 DEF RenewHook

\* Requests that only go, and secrets that stay, keep what they cover.
LEMMA SameCover ==
    ASSUME NEW c, NEW A, NEW r0, NEW r, NEW S, NEW P, NEW Q, P \subseteq Q,
           c.csr \in ToSet(r) => c.csr \in ToSet(r0), Covered(c, A, r0, S, P)
    PROVE  Covered(c, A, r, S, Q)
BY DEF Covered

-----------------------------------------------------------------------------
(* Each task keeps RenewHook                                               *)

\* A request made now is answered by no certificate there is.
LEMMA NoneAnswersIt ==
    ASSUME Inv, HookInv(w), NEW c \in LiveCerts
    PROVE  NewRequestId # c.csr.id
<1> DEFINE S == 1..(MaxRequests + 1) \ {r.id : r \in LiveRequests}
<1>1. MaxRequests \in Nat  BY KeysAssumption
<1>2. LiveRequests \subseteq Requests
  <2>1. ToSet(req) \subseteq Requests  BY Elements DEF Inv, TypeOK
  <2>2. {x.csr : x \in LiveCerts} \subseteq Requests  BY LiveCertsAreCerts, CertFields
  <2>3. ToSet(w.req) \subseteq Requests  BY HooksAre, Elements DEF HookInv
  <2> QED  BY <2>1, <2>2, <2>3 DEF LiveRequests
<1>3. {r.id : r \in LiveRequests} \subseteq 1..MaxRequests  BY <1>2 DEF Requests
<1>4. MaxRequests + 1 \in S  BY <1>1, <1>3
<1>5. S \subseteq Nat  BY <1>1
<1> HIDE DEF S
<1>6. \E x \in S : \A y \in S : x <= y  BY <1>4, <1>5, LeastOf
<1>7. Smallest(S) \in S  BY <1>6, Zenon DEF Smallest
<1>8. c.csr \in LiveRequests  BY DEF LiveRequests
<1>9. c.csr.id \notin S  BY <1>8 DEF S
<1> QED  BY <1>7, <1>9 DEF NewRequestId, S

LEMMA NewRequestIsNew ==
    ASSUME Inv, HookInv(w), NEW c \in InHand \cup OwnCerts
    PROVE  NewRequestId # c.csr.id
BY NoneAnswersIt DEF LiveCerts, InHand

\* A task that leaves secrets and offers alone, and makes no request that a
\* certificate of interest answers.
LEMMA QuietRenews ==
    ASSUME NEW do, At(do), do \notin {"find", "offer"}, Inv, RenewHook(w), NEW h,
           NEW new, NEW r, NEW o, NEW d, Becomes(h, new, r, w.secrets, o, d), InOrder(new, r),
           \A i \in DOMAIN new :
               Brings(new[i]) => Brings(Head(w.todo)) /\ new[i].cert = Head(w.todo).cert,
           \A c \in InHand \cup OwnCerts : c.csr \in ToSet(r) => c.csr \in ToSet(w.req),
           BringsNone(h.todo) => \A c \in Certs : BringsLast(d, c) =>
               \/ Brings(Head(w.todo)) /\ c = Head(w.todo).cert
               \/ ~Brings(Head(w.todo)) /\ BringsLast(w.deferred, c),
           BringsNone(h.todo) /\ o.cert.by = "provider" =>
               \/ Covered(o.cert.cert, {o.age}, r, w.secrets, UnseenBy(h))
               \/ ~Brings(Head(w.todo)) /\ o = w.own,
           o.cert.by = "provider" => o.cert.cert \in InHand \cup OwnCerts
    PROVE  RenewHook(h)
<1>1. HookInv(w) /\ w.todo # <<>>  BY DEF At
<1>2. UnseenBy(w) \subseteq UnseenBy(h)  BY UnseenKept DEF Becomes
<1>3. \A c \in Certs, A \in SUBSET Ages :
          /\ c \in InHand \cup OwnCerts
          /\ Covered(c, A, w.req, w.secrets, UnseenBy(w))
          => Covered(c, A, r, w.secrets, UnseenBy(h))
  BY <1>2, SameCover
<1>4. Brings(Head(w.todo)) => Head(w.todo).cert \in Certs
  <2>1. Head(w.todo) \in Tasks  BY AtHand
  <2> QED  BY <2>1, TaskFields DEF Brings
<1>5. HeirCovered(h.todo, d, o, r, w.secrets, UnseenBy(h))
  BY <1>1, <1>3, <1>4, CoverKeeps
<1> QED  BY <1>1, <1>5, RenewKeeps

\* The certificate in use, as long as it is the same.
LEMMA OwnIsLive ==
    ASSUME RenewHook(w)
    PROVE  w.own.cert.by = "provider" => w.own.cert.cert \in InHand \cup OwnCerts
BY DEF RenewHook

LEMMA BecomesHookOf ==
    ASSUME NEW new \in Seq(Tasks), NEW g, NEW r, NEW s, NEW k, NEW o, NEW d, NEW h,
           h = HookOf(w.event, new \o Tail(w.todo), g, r, s, k, o, d)
    PROVE  Becomes(h, new, r, s, o, d)
<1> DEFINE t == new \o Tail(w.todo)
<1> HIDE DEF t
<1>1. h = HookOf(w.event, t, g, r, s, k, o, d)  BY DEF t
<1>2. h.event = w.event /\ h.todo = t /\ h.req = r /\ h.secrets = s /\ h.own = o /\ h.deferred = d
  BY <1>1, HookFields
<1> QED  BY <1>2 DEF Becomes, t

LEMMA PlainRenews ==
    ASSUME NEW do, At(do), do \notin {"find", "offer", "cleanup", "broken", "available", "adopt"},
           Inv, RenewHook(w), NEW h, h = Rest
    PROVE  RenewHook(h)
<1>1. <<>> \in Seq(Tasks) /\ (\A i \in DOMAIN <<>> : FALSE) /\ Head(w.todo).do = do
  BY AtHand DEF At
<1>2. h = HookOf(w.event, <<>> \o Tail(w.todo), w.given, w.req, w.secrets, w.libKey, w.own, w.deferred)
  BY RestFields
<1>3. Becomes(h, <<>>, w.req, w.secrets, w.own, w.deferred)  BY <1>1, <1>2, BecomesHookOf
<1>4. InOrder(<<>>, w.req)  BY <1>1 DEF InOrder
<1>5. ~Brings(Head(w.todo))  BY <1>1 DEF Brings
<1> QED  BY <1>1, <1>3, <1>4, <1>5, OwnIsLive, QuietRenews

LEMMA EnsureRenews ==
    ASSUME At("ensure"), Inv, RenewHook(w), NEW h, h = EnsurePrivateKey(Rest)
    PROVE  RenewHook(h)
<1> DEFINE k == IF w.given # NoKey THEN NoKey ELSE IF w.libKey # NoKey THEN w.libKey ELSE NewKey
<1>1. <<>> \in Seq(Tasks) /\ (\A i \in DOMAIN <<>> : FALSE) /\ Head(w.todo).do = "ensure"
  BY AtHand DEF At
<1>2. h = HookOf(w.event, <<>> \o Tail(w.todo), w.given, w.req, w.secrets, k, w.own, w.deferred)
  <2>1. h = WithLibKey(Rest, k)  BY RestFields, Zenon DEF EnsurePrivateKey, WithLibKey
  <2> HIDE DEF k
  <2> QED  BY <2>1, RestFields, HookUpdates
<1> HIDE DEF k
<1>3. Becomes(h, <<>>, w.req, w.secrets, w.own, w.deferred)  BY <1>1, <1>2, BecomesHookOf
<1>4. InOrder(<<>>, w.req)  BY <1>1 DEF InOrder
<1>5. ~Brings(Head(w.todo))  BY <1>1 DEF Brings
<1> QED  BY <1>1, <1>3, <1>4, <1>5, OwnIsLive, QuietRenews

LEMMA CleanupRenews ==
    ASSUME At("cleanup"), Inv, RenewHook(w), NEW h, h = CleanupRequests(Rest)
    PROVE  RenewHook(h)
<1> DEFINE S == {x \in ToSet(w.req) : MatchesAttributes(x) /\ x.key = PrivateKey(w)}
           r == Select(w.req, S)
<1>1. <<>> \in Seq(Tasks) /\ (\A i \in DOMAIN <<>> : FALSE) /\ Head(w.todo).do = "cleanup"
  BY AtHand DEF At
<1>2. h = HookOf(w.event, <<>> \o Tail(w.todo), w.given, r, w.secrets, w.libKey, w.own, w.deferred)
  <2>1. h = WithReq(Rest, r)  BY RestFields, Zenon DEF CleanupRequests, WithReq
  <2> HIDE DEF r
  <2> QED  BY <2>1, RestFields, HookUpdates
<1>3. \A x \in ToSet(r) : x \in ToSet(w.req) /\ MatchesAttributes(x)  BY AtHand, SelectFrom
<1> HIDE DEF r
<1>4. Becomes(h, <<>>, r, w.secrets, w.own, w.deferred)  BY <1>1, <1>2, BecomesHookOf
<1>5. InOrder(<<>>, r)  BY <1>1, <1>3 DEF InOrder
<1>6. ~Brings(Head(w.todo))  BY <1>1 DEF Brings
<1> QED  BY <1>1, <1>3, <1>4, <1>5, <1>6, OwnIsLive, QuietRenews

LEMMA SendRenews ==
    ASSUME At("send"), Inv, RenewHook(w), NEW h, h = SendRequests(Rest)
    PROVE  RenewHook(h)
<1> DEFINE put == [id |-> NewRequestId, key |-> PrivateKey(w), san |-> address]
<1>1. <<>> \in Seq(Tasks) /\ (\A i \in DOMAIN <<>> : FALSE) /\ Head(w.todo).do = "send"
  BY AtHand DEF At
<1>2. h = Rest \/ h = WithReq(Rest, Append(w.req, put))
  BY RestFields, Zenon DEF SendRequests, WithReq
<1>3. CASE h = Rest  BY <1>3, PlainRenews
<1>4. CASE h = WithReq(Rest, Append(w.req, put))
  <2>1. put.id = NewRequestId /\ put.san = address  OBVIOUS
  <2> HIDE DEF put
  <2> DEFINE r == Append(w.req, put)
  <2>2. \A x \in ToSet(r) : x \in ToSet(w.req) \/ x = put
    <3>1. w.req \in Seq(Requests)  BY AtHand
    <3> QED  BY <3>1 DEF ToSet
  <2> HIDE DEF r
  <2>3. h = HookOf(w.event, <<>> \o Tail(w.todo), w.given, r, w.secrets, w.libKey, w.own, w.deferred)
    BY <1>4, RestFields, HookUpdates DEF r
  <2>4. Becomes(h, <<>>, r, w.secrets, w.own, w.deferred)  BY <1>1, <2>3, BecomesHookOf
  <2>5. InOrder(<<>>, r)  BY <1>1, <2>1, <2>2 DEF InOrder, MatchesAttributes
  <2>6. ~Brings(Head(w.todo))  BY <1>1 DEF Brings
  <2>7. ASSUME NEW c \in InHand \cup OwnCerts, c.csr \in ToSet(r) PROVE c.csr \in ToSet(w.req)
    <3>1. HookInv(w)  BY DEF At
    <3>2. c.csr # put  BY <2>1, <3>1, NewRequestIsNew
    <3> QED  BY <2>2, <2>7, <3>2
  <2> QED  BY <1>1, <2>4, <2>5, <2>6, <2>7, OwnIsLive, QuietRenews
<1> QED  BY <1>2, <1>3, <1>4

LEMMA ConfigRenews ==
    ASSUME At("config"), Inv, RenewHook(w), NEW h, h = ConfigChanged(Rest)
    PROVE  RenewHook(h)
<1>1. <<>> \in Seq(Tasks) /\ (\A i \in DOMAIN <<>> : FALSE) /\ Head(w.todo).do = "config"
  BY AtHand DEF At
<1>2. ~Brings(Head(w.todo))  BY <1>1 DEF Brings
<1>3. CASE appReady
  <2> DEFINE new == <<[do |-> "init"]>>
  <2>1. h = HookOf(w.event, new \o Tail(w.todo), w.given, w.req, w.secrets, w.libKey, w.own,
                   w.deferred)
    <3>1. h = WithTodo(Rest, new \o Tail(w.todo))
      BY <1>3, RestFields, Zenon DEF ConfigChanged, Then, WithTodo
    <3> HIDE DEF new
    <3> QED  BY <3>1, RestFields, HookUpdates
  <2>2. new \in Seq(Tasks)
    <3>1. [do |-> "init"] \in Tasks  BY TaskValues
    <3> QED  BY <3>1
  <2>3. \A i \in DOMAIN new : new[i].do = "init"  OBVIOUS
  <2> HIDE DEF new
  <2>4. Becomes(h, new, w.req, w.secrets, w.own, w.deferred)  BY <2>1, <2>2, BecomesHookOf
  <2>5. InOrder(new, w.req)  BY <1>1, <2>3 DEF InOrder
  <2>6. \A i \in DOMAIN new : ~Brings(new[i])  BY <2>3 DEF Brings
  <2> QED  BY <1>2, <2>4, <2>5, <2>6, OwnIsLive, QuietRenews
<1>4. CASE ~appReady
  <2> DEFINE x == [do |-> "config"]
             d == Append(w.deferred, x)
  <2>1. h = Rest \/ h = WithDeferred(Rest, d)
    BY <1>4, RestFields, Zenon DEF ConfigChanged, DeferConfig, WithDeferred
  <2>2. CASE h = Rest  BY <2>2, PlainRenews
  <2>3. CASE h = WithDeferred(Rest, d)
    <3>1. ~Brings(x)  BY DEF Brings
    <3> HIDE DEF x
    <3>2. \A c : BringsLast(d, c) => BringsLast(w.deferred, c)
      <4>1. w.deferred \in Seq(Deferrals)  BY AtHand
      <4>2. /\ DOMAIN w.deferred = 1..Len(w.deferred) /\ DOMAIN d = 1..(Len(w.deferred) + 1)
            /\ Len(w.deferred) \in Nat /\ d[Len(w.deferred) + 1] = x
            /\ \A i \in DOMAIN w.deferred : d[i] = w.deferred[i]
        BY <4>1
      <4> HIDE DEF d
      <4>3. \A i \in DOMAIN d : i \in DOMAIN w.deferred \/ i = Len(w.deferred) + 1  BY <4>2
      <4>4. DOMAIN w.deferred \subseteq DOMAIN d  BY <4>2
      <4> QED  BY <3>1, <4>2, <4>3, <4>4, Zenon DEF BringsLast
    <3> HIDE DEF d
    <3>3. h = HookOf(w.event, <<>> \o Tail(w.todo), w.given, w.req, w.secrets, w.libKey, w.own, d)
      BY <2>3, RestFields, HookUpdates
    <3>4. Becomes(h, <<>>, w.req, w.secrets, w.own, d)  BY <1>1, <3>3, BecomesHookOf
    <3>5. InOrder(<<>>, w.req)  BY <1>1 DEF InOrder
    <3> QED  BY <1>1, <1>2, <3>2, <3>4, <3>5, OwnIsLive, QuietRenews
  <2> QED  BY <2>1, <2>2, <2>3
<1> QED  BY <1>3, <1>4

LEMMA InitRenews ==
    ASSUME At("init"), Inv, RenewHook(w), NEW h, h = InitUnitTls(Rest)
    PROVE  RenewHook(h)
<1> DEFINE o == [key |-> NewKey, cert |-> SelfSigned, age |-> "fresh"]
<1>1. h = Rest \/ h = WithOwn(Rest, o)  BY RestFields, Zenon DEF InitUnitTls, WithOwn
<1>2. CASE h = Rest  BY <1>2, PlainRenews
<1>3. CASE h = WithOwn(Rest, o)
  <2>1. o.cert.by # "provider"  BY OwnedFields
  <2> HIDE DEF o
  <2>2. <<>> \in Seq(Tasks) /\ (\A i \in DOMAIN <<>> : FALSE) /\ Head(w.todo).do = "init"
    BY AtHand DEF At
  <2>3. h = HookOf(w.event, <<>> \o Tail(w.todo), w.given, w.req, w.secrets, w.libKey, o, w.deferred)
    BY <1>3, RestFields, HookUpdates
  <2>4. Becomes(h, <<>>, w.req, w.secrets, o, w.deferred)  BY <2>2, <2>3, BecomesHookOf
  <2>5. InOrder(<<>>, w.req)  BY <2>2 DEF InOrder
  <2>6. ~Brings(Head(w.todo))  BY <2>2 DEF Brings
  <2> QED  BY <2>1, <2>2, <2>4, <2>5, <2>6, QuietRenews
<1> QED  BY <1>1, <1>2, <1>3

LEMMA BrokenRenews ==
    ASSUME At("broken"), Inv, RenewHook(w), NEW h, h = Run(Head(w.todo), Rest)
    PROVE  RenewHook(h)
<1> DEFINE o == [key |-> w.own.key, cert |-> Nothing, age |-> "fresh"]
           new == IF Head(w.todo).leads THEN <<[do |-> "config"]>> ELSE <<>>
<1>1. Head(w.todo).do = "broken" /\ w.own \in Owns  BY AtHand DEF At
<1>2. h = HookOf(w.event, new \o Tail(w.todo), w.given, <<>>, w.secrets, w.libKey, o, w.deferred)
  <2>1. WithoutCert(Rest)
        = HookOf(w.event, Tail(w.todo), w.given, <<>>, w.secrets, w.libKey, o, w.deferred)
    <3> HIDE DEF o
    <3>1. o = [key |-> w.own.key, cert |-> Nothing, age |-> "fresh"]  BY DEF o
    <3> QED  BY <1>1, <3>1, RestFields, ThreeFields
  <2>2. h = WithTodo(WithoutCert(Rest), new \o WithoutCert(Rest).todo)
    <3>1. h = RelationBroken(Rest, Head(w.todo).leads)  BY <1>1, Zenon DEF Run
    <3> QED  BY <3>1, Zenon DEF RelationBroken, Then, WithTodo, WithoutCert
  <2> HIDE DEF o, new
  <2>3. WithoutCert(Rest).todo = Tail(w.todo)  BY <2>1, HookFields
  <2> QED  BY <2>1, <2>2, <2>3, HookUpdates
<1>3. new \in Seq(Tasks) /\ \A i \in DOMAIN new : new[i].do = "config"
  <2>1. [do |-> "config"] \in Tasks  BY TaskValues
  <2>2. <<[do |-> "config"]>> \in Seq(Tasks)  BY <2>1
  <2>3. \A i \in DOMAIN <<[do |-> "config"]>> : <<[do |-> "config"]>>[i].do = "config"  OBVIOUS
  <2> QED  BY <2>2, <2>3
<1>4. o.cert.by # "provider"  BY OwnedFields
<1> HIDE DEF o, new
<1>5. PICK r : r = <<>>  BY Zenon
<1>6. ToSet(r) = {}  BY <1>5 DEF ToSet
<1>7. Becomes(h, new, r, w.secrets, o, w.deferred)
  <2>1. h = HookOf(w.event, new \o Tail(w.todo), w.given, r, w.secrets, w.libKey, o, w.deferred)
    BY <1>2, <1>5
  <2> QED  BY <1>3, <2>1, BecomesHookOf
<1>8. InOrder(new, r)  BY <1>1, <1>3, <1>5, <1>6 DEF InOrder
<1>9. ~Brings(Head(w.todo)) /\ \A i \in DOMAIN new : ~Brings(new[i])  BY <1>1, <1>3 DEF Brings
<1> QED  BY <1>4, <1>6, <1>7, <1>8, <1>9, QuietRenews

LEMMA FindRenews ==
    ASSUME At("find"), Inv, RenewHook(w), NEW h, h = FindAvailable(Rest)
    PROVE  RenewHook(h)
<1> DEFINE new == [i \in DOMAIN prov |-> [do |-> "offer", offer |-> prov[i]]]
<1>1. h = HookOf(w.event, new \o Tail(w.todo), w.given, w.req, w.secrets, w.libKey, w.own, w.deferred)
  <2>1. h = WithTodo(Rest, new \o Tail(w.todo))
    BY RestFields, Zenon DEF FindAvailable, Then, WithTodo
  <2> HIDE DEF new
  <2> QED  BY <2>1, RestFields, HookUpdates
<1>2. prov \in Seq(Offers)  BY DEF Inv, TypeOK
<1>3. \A i \in DOMAIN prov : [do |-> "offer", offer |-> prov[i]] \in Tasks  BY <1>2, TaskValues
<1>4. new \in Seq(Tasks)  BY <1>2, <1>3
<1>5. DOMAIN new = DOMAIN prov /\ \A i \in DOMAIN new : new[i].do = "offer" /\ new[i].offer = prov[i]
  OBVIOUS
<1> HIDE DEF new
<1>6. Becomes(h, new, w.req, w.secrets, w.own, w.deferred)  BY <1>1, <1>4, BecomesHookOf
<1>7. HookInv(w) /\ w.todo # <<>> /\ Head(w.todo).do = "find" /\ w.todo \in Seq(Tasks)
  BY AtHand DEF At
<1>8. \A r \in ToSet(w.req) : MatchesAttributes(r)
  <2>1. 1 \in DOMAIN w.todo /\ Head(w.todo) = w.todo[1] /\ \A j \in DOMAIN w.todo : ~(j < 1)
    BY <1>7
  <2> QED  BY <1>7, <2>1 DEF RenewHook, AddressFirst
<1>9. ~Brings(Head(w.todo)) /\ \A i \in DOMAIN new : ~Brings(new[i])  BY <1>5, <1>7 DEF Brings
<1>10. InOrder(new, w.req)  BY <1>5, <1>7, <1>8, <1>9 DEF InOrder, BringsNone
<1>11. UnseenBy(w) \subseteq UnseenBy(h)  BY <1>4, <1>5, <1>6, FindLooks DEF Becomes
<1>12. \A c \in Certs, A \in SUBSET Ages :
          /\ c \in InHand \cup OwnCerts
          /\ Covered(c, A, w.req, w.secrets, UnseenBy(w))
          => Covered(c, A, w.req, w.secrets, UnseenBy(h))
  BY <1>11, SameCover
<1>13. HeirCovered(h.todo, w.deferred, w.own, w.req, w.secrets, UnseenBy(h))
  BY <1>6, <1>7, <1>9, <1>12, CoverKeeps
<1> QED  BY <1>6, <1>7, <1>10, <1>13, OwnIsLive, RenewKeeps

LEMMA AvailableRenews ==
    ASSUME At("available"), Inv, RenewHook(w), NEW h, h = CertificateAvailable(Rest, Head(w.todo).cert)
    PROVE  RenewHook(h)
<1> DEFINE c == Head(w.todo).cert
           x == [do |-> "available", cert |-> c]
           later == <<[do |-> "init"], [do |-> "adopt", cert |-> c], [do |-> "config"]>>
<1>1. c \in Certs /\ Head(w.todo).do = "available"  BY AtHand, TaskFields DEF At
<1>2. Brings(Head(w.todo))  BY <1>1 DEF Brings
<1>3. CASE installed
  <2>1. h = HookOf(w.event, later \o Tail(w.todo), w.given, w.req, w.secrets, w.libKey, w.own,
                   w.deferred)
    <3>1. h = WithTodo(Rest, later \o Tail(w.todo))
      BY <1>3, RestFields, Zenon DEF CertificateAvailable, Then, WithTodo
    <3> HIDE DEF later
    <3> QED  BY <3>1, RestFields, HookUpdates
  <2>2. later \in Seq(Tasks)
    <3> HIDE DEF c
    <3>1. [do |-> "init"] \in Tasks /\ [do |-> "adopt", cert |-> c] \in Tasks /\ [do |-> "config"] \in Tasks
      BY <1>1, TaskValues
    <3> QED  BY <3>1
  <2>3. DOMAIN later = {1, 2, 3} /\ later[1].do = "init" /\ later[2].do = "adopt" /\ later[2].cert = c
        /\ later[3].do = "config"
    OBVIOUS
  <2> HIDE DEF later
  <2>4. Becomes(h, later, w.req, w.secrets, w.own, w.deferred)  BY <2>1, <2>2, BecomesHookOf
  <2>5. InOrder(later, w.req)  BY <1>1, <2>3 DEF InOrder
  <2>6. \A i \in DOMAIN later : Brings(later[i]) => later[i].cert = c  BY <2>3 DEF Brings
  <2>7. ~BringsNone(h.todo)
    <3>1. Follows(h.todo, later, w.todo) /\ Len(w.todo) \in Nat \ {0} /\ h.todo \in Seq(Tasks)
      <4>1. w.todo \in Seq(Tasks) /\ w.todo # <<>>  BY AtHand DEF At
      <4>2. Len(w.todo) \in Nat \ {0}  BY <4>1
      <4>3. h.todo = later \o Tail(w.todo)  BY <2>4 DEF Becomes
      <4> QED  BY <2>2, <4>1, <4>2, <4>3, Pushed
    <3>2. Len(later) = 3  BY <2>2, <2>3
    <3>3. 2 \in DOMAIN h.todo /\ ~(2 > Len(later))
      <4>1. Len(h.todo) >= 3  BY <3>1, <3>2 DEF Follows
      <4>2. DOMAIN h.todo = 1..Len(h.todo)  BY <3>1
      <4> QED  BY <3>1, <3>2, <4>1, <4>2
    <3>4. h.todo[2] = later[2]  BY <3>1, <3>3 DEF Follows
    <3> QED  BY <2>3, <3>3, <3>4 DEF BringsNone, Brings
  <2> QED  BY <1>1, <1>2, <2>4, <2>5, <2>6, <2>7, OwnIsLive, QuietRenews
<1>4. CASE ~installed
  <2> DEFINE d == Append(w.deferred, x)
  <2>1. h = HookOf(w.event, <<>> \o Tail(w.todo), w.given, w.req, w.secrets, w.libKey, w.own, d)
    <3>1. h = WithDeferred(Rest, d)
      BY <1>4, RestFields, Zenon DEF CertificateAvailable, WithDeferred
    <3> HIDE DEF d
    <3> QED  BY <3>1, RestFields, HookUpdates
  <2>2. Brings(x) /\ x.cert = c  BY DEF Brings
  <2> HIDE DEF x, c
  <2>3. \A y : BringsLast(d, y) => y = c
    <3>1. w.deferred \in Seq(Deferrals)  BY AtHand
    <3>2. /\ DOMAIN d = 1..(Len(w.deferred) + 1) /\ Len(w.deferred) \in Nat
          /\ d[Len(w.deferred) + 1] = x
      BY <3>1
    <3> HIDE DEF d
    <3>3. Len(w.deferred) + 1 \in DOMAIN d
          /\ \A i \in DOMAIN d : i = Len(w.deferred) + 1 \/ Len(w.deferred) + 1 > i
      BY <3>2
    <3> QED  BY <2>2, <3>2, <3>3 DEF BringsLast
  <2> HIDE DEF d
  <2>4. w.own.cert.by # "provider"
    <3>1. w.own.cert = Nothing  BY <1>4, AtHand DEF KeyInv
    <3> QED  BY <3>1, OwnedFields
  <2>5. <<>> \in Seq(Tasks) /\ (\A i \in DOMAIN <<>> : FALSE)  BY AtHand
  <2>6. Becomes(h, <<>>, w.req, w.secrets, w.own, d)  BY <2>1, <2>5, BecomesHookOf
  <2>7. InOrder(<<>>, w.req)  BY <1>1, <2>5 DEF InOrder
  <2> QED  BY <1>2, <2>3, <2>4, <2>5, <2>6, <2>7, QuietRenews DEF c
<1> QED  BY <1>3, <1>4

LEMMA AdoptRenews ==
    ASSUME At("adopt"), Inv, RenewHook(w), installed, NEW h, h = Adopt(Rest, Head(w.todo).cert)
    PROVE  RenewHook(h)
<1> DEFINE c == Head(w.todo).cert
           o == [key |-> PrivateKey(w), cert |-> Issued(c), age |-> AgeOf(Rest, c)]
<1>1. c \in Certs /\ c \in InHand /\ Head(w.todo).do = "adopt"
  BY AtHand, TaskFields DEF TaskInv, At
<1>2. h = HookOf(w.event, <<>> \o Tail(w.todo), w.given, w.req, w.secrets, w.libKey, o, w.deferred)
  <2>1. h = WithOwn(Rest, o)  BY RestFields, Zenon DEF Adopt, WithOwn
  <2> HIDE DEF o
  <2> QED  BY <2>1, RestFields, HookUpdates
<1>3. o.cert.by = "provider" /\ o.cert.cert = c /\ o.age = AgeOf(Rest, c)  BY OwnedFields
<1> HIDE DEF o
<1>4. <<>> \in Seq(Tasks) /\ (\A i \in DOMAIN <<>> : FALSE) /\ w.todo # <<>> /\ w.todo \in Seq(Tasks)
      /\ HookInv(w)
  BY AtHand DEF At
<1>5. Becomes(h, <<>>, w.req, w.secrets, o, w.deferred)  BY <1>2, <1>4, BecomesHookOf
<1>6. InOrder(<<>>, w.req)  BY <1>1, <1>4 DEF InOrder
<1>7. Brings(Head(w.todo))  BY <1>1 DEF Brings
<1>8. \A x \in Certs : ~BringsLast(w.deferred, x)
  <2>1. \A i \in DOMAIN w.deferred : w.deferred[i] \in ToSet(w.deferred) /\ w.deferred[i] \in Deferrals
    BY AtHand, Elements
  <2>2. \A i \in DOMAIN w.deferred : w.deferred[i].do # "available"  BY <1>3, <2>1, AtHand, installed
  <2> QED  BY <2>1, <2>2, CertFields DEF BringsLast, Brings
<1>9. ASSUME BringsNone(h.todo) PROVE Covered(c, {o.age}, w.req, w.secrets, UnseenBy(h))
  <2>1. BringsLast(w.todo, c)
    <3>1. BringsLast(w.todo, Head(w.todo).cert)  BY <1>4, <1>5, <1>7, <1>9, BringsAfter DEF Becomes
    <3> QED  BY <3>1
  <2>2. Covered(c, Ages, w.req, w.secrets, UnseenBy(w))
    BY <1>1, <2>1 DEF RenewHook, HeirCovered
  <2>3. UnseenBy(w) \subseteq UnseenBy(h)  BY <1>4, <1>5, UnseenKept DEF Becomes
  <2>4. ASSUME NEW s \in w.secrets, s.cert = c PROVE s.age = o.age
    <3>1. \A t \in w.secrets : t.cert = c => t = s  BY <2>4, AtHand DEF OneSecretEach
    <3>2. Rest.secrets = w.secrets  BY RestFields
    <3>3. AgeOf(Rest, c) = (CHOOSE t \in w.secrets : t.cert = c).age  BY <2>4, <3>2, Zenon DEF AgeOf
    <3>4. (CHOOSE t \in w.secrets : t.cert = c) = s  BY <2>4, <3>1, Zenon
    <3> QED  BY <1>3, <3>3, <3>4
  <2> HIDE DEF c
  <2> QED  BY <2>2, <2>3, <2>4 DEF Covered
<1> QED  BY <1>1, <1>3, <1>4, <1>5, <1>6, <1>7, <1>8, <1>9, QuietRenews

LEMMA ExpiredRenews ==
    ASSUME At("expired"), Inv, RenewHook(w), NEW h, h = SecretExpired(Rest, Head(w.todo).cert)
    PROVE  RenewHook(h)
<1> DEFINE c == Head(w.todo).cert
           s == {t \in w.secrets : t.cert # c}
           r == Select(w.req, ToSet(w.req) \ {c.csr})
           new == <<[do |-> "send"]>>
<1>1. h = Rest \/ h = WithTodo(WithSecretsReq(Rest, s, r), new \o WithSecretsReq(Rest, s, r).todo)
  BY RestFields, Zenon DEF SecretExpired, Then, WithTodo, WithSecretsReq
<1>2. CASE h = Rest  BY <1>2, PlainRenews
<1>3. CASE h = WithTodo(WithSecretsReq(Rest, s, r), new \o WithSecretsReq(Rest, s, r).todo)
  <2>1. \A x \in ToSet(r) : x \in ToSet(w.req) /\ x # c.csr  BY AtHand, SelectFrom
  <2>2. new \in Seq(Tasks)
    <3>1. [do |-> "send"] \in Tasks  BY TaskValues
    <3> QED  BY <3>1
  <2>3. DOMAIN new = {1} /\ new[1].do = "send"  OBVIOUS
  <2> HIDE DEF r, new
  <2>4. h = HookOf(w.event, new \o Tail(w.todo), w.given, r, s, w.libKey, w.own, w.deferred)
    <3> HIDE DEF s
    <3>1. WithSecretsReq(Rest, s, r)
          = HookOf(w.event, Tail(w.todo), w.given, r, s, w.libKey, w.own, w.deferred)
      BY RestFields, TwoFields
    <3>2. WithSecretsReq(Rest, s, r).todo = Tail(w.todo)  BY <3>1, HookFields
    <3> QED  BY <1>3, <3>1, <3>2, HookUpdates
  <2>5. Becomes(h, new, r, s, w.own, w.deferred)
    <3> HIDE DEF s
    <3> QED  BY <2>2, <2>4, BecomesHookOf
  <2>6. HookInv(w) /\ w.todo # <<>> /\ Head(w.todo).do = "expired"  BY DEF At
  <2>7. InOrder(new, r)  BY <2>1, <2>3, <2>6 DEF InOrder
  <2>8. ~Brings(Head(w.todo)) /\ \A i \in DOMAIN new : ~Brings(new[i])  BY <2>3, <2>6 DEF Brings
  <2>9. UnseenBy(w) \subseteq UnseenBy(h)  BY <2>5, UnseenKept DEF Becomes
  <2>10. ASSUME NEW x \in Certs, NEW A, Covered(x, A, w.req, w.secrets, UnseenBy(w))
         PROVE  Covered(x, A, r, s, UnseenBy(h))
    <3>1. CASE x = c  BY <2>1, <3>1 DEF Covered
    <3>2. CASE x # c
      <4>1. \A t \in w.secrets : t.cert = x => t \in s  BY <3>2
      <4>2. s \subseteq w.secrets  OBVIOUS
      <4> HIDE DEF s
      <4> QED  BY <2>1, <2>9, <2>10, <4>1, <4>2 DEF Covered
    <3> QED  BY <3>1, <3>2
  <2> HIDE DEF s
  <2>11. HeirCovered(h.todo, w.deferred, w.own, r, s, UnseenBy(h))
    BY <2>5, <2>6, <2>8, <2>10, CoverKeeps
  <2> QED  BY <2>5, <2>6, <2>7, <2>11, OwnIsLive, RenewKeeps
<1> QED  BY <1>1, <1>2, <1>3

LEMMA OfferRenews ==
    ASSUME At("offer"), Inv, RenewHook(w), NEW h, h = TakeOffer(Rest, Head(w.todo).offer)
    PROVE  RenewHook(h)
<1> DEFINE offer == Head(w.todo).offer
           c == offer.cert
           old == SecretOf(w, c.csr)
           put == [cert |-> c, age |-> "fresh", replaced |-> old # {},
                   expire |-> IF old = {} THEN "due" ELSE "expired"]
           s == (w.secrets \ old) \cup {put}
           new == <<[do |-> "available", cert |-> c]>>
<1>1. SecretOf(Rest, c.csr) = old  BY RestFields, Zenon DEF SecretOf
<1>2. \/ h = Rest /\ c.csr \notin ToSet(w.req)
      \/ h = Rest /\ (c.ca \/ ~MatchesAttributes(c.csr) \/ \E t \in old : t.cert = c)
         /\ c.csr \in ToSet(w.req)
      \/ h = WithSecrets(Rest, w.secrets \ old) /\ offer.revoked
      \/ h = WithTodo(WithSecrets(Rest, s), new \o WithSecrets(Rest, s).todo)
  <2>1. Rest.secrets = w.secrets /\ Rest.req = w.req  BY RestFields
  <2> QED  BY <1>1, <2>1, Zenon DEF TakeOffer, Then, WithTodo, WithSecrets
<1>3. HookInv(w) /\ w.todo # <<>> /\ Head(w.todo).do = "offer" /\ w.todo \in Seq(Tasks)
  BY AtHand DEF At
<1>4. offer \in Offers /\ offer \in ToSet(prov)  BY <1>3, AtHand, TaskFields DEF TaskInv
<1>5. c \in Certs  BY <1>4, CertFields
<1>6. 1 \in DOMAIN w.todo /\ Head(w.todo) = w.todo[1] /\ (\A j \in DOMAIN w.todo : j = 1 \/ j > 1)
  BY <1>3
<1>7. \A r \in ToSet(w.req) : MatchesAttributes(r)
  <2>1. \A j \in DOMAIN w.todo : ~(j < 1)  BY <1>3
  <2> QED  BY <1>3, <1>6, <2>1 DEF RenewHook, AddressFirst
<1>8. <<>> \in Seq(Tasks) /\ (\A i \in DOMAIN <<>> : FALSE)  OBVIOUS
<1>9. ~Brings(Head(w.todo))  BY <1>3 DEF Brings
<1>10. ASSUME NEW q, NEW t, Becomes(h, q, w.req, t, w.own, w.deferred)
       PROVE  UnseenBy(w) \subseteq UnseenBy(h) \cup {offer}
  BY <1>10, OfferLooks DEF Becomes
<1>11. ASSUME NEW t, Becomes(h, <<>>, w.req, t, w.own, w.deferred),
              \A x \in Certs, A \in SUBSET Ages :
                  /\ x \in InHand \cup OwnCerts
                  /\ Covered(x, A, w.req, w.secrets, UnseenBy(w))
                  => Covered(x, A, w.req, t, UnseenBy(h))
       PROVE  RenewHook(h)
  <2>1. InOrder(<<>>, w.req)  BY <1>3, <1>8 DEF InOrder
  <2>2. HeirCovered(h.todo, w.deferred, w.own, w.req, t, UnseenBy(h))
    BY <1>3, <1>8, <1>9, <1>11, CoverKeeps
  <2> QED  BY <1>3, <1>11, <2>1, <2>2, OwnIsLive, RenewKeeps
<1>12. CASE h = Rest /\ (\/ c.csr \notin ToSet(w.req)
                         \/ c.ca
                         \/ ~MatchesAttributes(c.csr) /\ c.csr \in ToSet(w.req)
                         \/ \E t \in old : t.cert = c)
  <2>1. Becomes(h, <<>>, w.req, w.secrets, w.own, w.deferred)
    <3>1. h = HookOf(w.event, <<>> \o Tail(w.todo), w.given, w.req, w.secrets, w.libKey, w.own, w.deferred)
      BY <1>12, RestFields
    <3> QED  BY <1>8, <3>1, BecomesHookOf
  <2>2. UnseenBy(w) \subseteq UnseenBy(h) \cup {offer}  BY <1>10, <2>1
  <2>3. c.csr \notin ToSet(w.req) \/ c.ca \/ \E t \in w.secrets : t.cert = c
    BY <1>7, <1>12 DEF SecretOf
  <2>4. ASSUME NEW x \in Certs, NEW A, Covered(x, A, w.req, w.secrets, UnseenBy(w))
        PROVE  Covered(x, A, w.req, w.secrets, UnseenBy(h))
    <3> HIDE DEF offer
    <3> QED  BY <2>2, <2>3, <2>4 DEF Covered
  <2> QED  BY <1>11, <2>1, <2>4
<1>13. CASE h = WithSecrets(Rest, w.secrets \ old) /\ offer.revoked
  <2> DEFINE t == w.secrets \ old
  <2>1. \A y \in w.secrets : y.cert.csr # c.csr => y \in t  BY DEF SecretOf
  <2>2. t \subseteq w.secrets  OBVIOUS
  <2>3. h = WithSecrets(Rest, t)  BY <1>13
  <2> HIDE DEF t, old
  <2>4. Becomes(h, <<>>, w.req, t, w.own, w.deferred)
    <3>1. h = HookOf(w.event, <<>> \o Tail(w.todo), w.given, w.req, t, w.libKey, w.own, w.deferred)
      <4> HIDE DEF c, offer
      <4> QED  BY <2>3, RestFields, HookUpdates
    <3> QED  BY <1>8, <3>1, BecomesHookOf
  <2>5. UnseenBy(w) \subseteq UnseenBy(h) \cup {offer}  BY <1>10, <2>4
  <2>6. ASSUME NEW x \in Certs, NEW A, Covered(x, A, w.req, w.secrets, UnseenBy(w))
        PROVE  Covered(x, A, w.req, t, UnseenBy(h))
    <3>1. CASE x.csr = c.csr  BY <1>4, <1>13, <3>1 DEF Covered
    <3>2. CASE x.csr # c.csr
      <4>1. \A y \in w.secrets : y.cert = x => y \in t  BY <2>1, <3>2
      <4>2. \A o \in UnseenBy(w) : ~o.revoked => o \in UnseenBy(h)  BY <1>13, <2>5
      <4> HIDE DEF c, offer
      <4> QED  BY <2>2, <2>6, <4>1, <4>2 DEF Covered
    <3> QED  BY <3>1, <3>2
  <2> QED  BY <1>11, <2>4, <2>6
<1>14. CASE h = WithTodo(WithSecrets(Rest, s), new \o WithSecrets(Rest, s).todo)
  <2>1. put \in s /\ put.cert = c /\ put.age = "fresh"
        /\ (put.replaced \/ put.expire = "due")
    <3>1. put \in s /\ put.cert = c /\ put.age = "fresh"  OBVIOUS
    <3>2. PICK b \in BOOLEAN : b = (old # {})  BY Zenon
    <3>3. put = [cert |-> c, age |-> "fresh", replaced |-> b,
                 expire |-> IF old = {} THEN "due" ELSE "expired"]
      BY <3>2, Zenon
    <3>4. put.replaced = b /\ put.expire = IF old = {} THEN "due" ELSE "expired"
      <4> HIDE DEF old, c, put
      <4> QED  BY <3>3
    <3> HIDE DEF put, old
    <3> QED  BY <3>1, <3>2, <3>4, Zenon
  <2>2. new \in Seq(Tasks)
    <3> HIDE DEF c
    <3>1. [do |-> "available", cert |-> c] \in Tasks  BY <1>5, TaskValues
    <3> QED  BY <3>1
  <2>3. DOMAIN new = {1} /\ new[1].do = "available" /\ new[1].cert = c  OBVIOUS
  <2> HIDE DEF s, c, new, put
  <2>4. h = HookOf(w.event, new \o Tail(w.todo), w.given, w.req, s, w.libKey, w.own, w.deferred)
    <3>1. WithSecrets(Rest, s)
          = HookOf(w.event, Tail(w.todo), w.given, w.req, s, w.libKey, w.own, w.deferred)
      BY RestFields, HookUpdates
    <3>2. WithSecrets(Rest, s).todo = Tail(w.todo)  BY <3>1, HookFields
    <3> QED  BY <1>14, <3>1, <3>2, HookUpdates
  <2>5. Becomes(h, new, w.req, s, w.own, w.deferred)  BY <2>2, <2>4, BecomesHookOf
  <2>6. InOrder(new, w.req)  BY <1>3, <2>3 DEF InOrder
  <2>7. Covered(c, Ages, w.req, s, UnseenBy(h))  BY <2>1 DEF Covered, Ages
  <2>8. Follows(h.todo, new, w.todo) /\ h.todo \in Seq(Tasks)  BY <1>3, <2>5, Pushed DEF Becomes
  <2>9. ASSUME NEW i \in DOMAIN h.todo PROVE ~Brings(h.todo[i]) \/ h.todo[i].cert = c
    <3>1. CASE i \in DOMAIN new /\ h.todo[i] = new[i]  BY <2>3, <3>1
    <3>2. CASE \E j \in DOMAIN w.todo : j > 1 /\ h.todo[i] = w.todo[j]
      BY <1>3, <1>6, <3>2 DEF RenewHook, OffersLast
    <3> QED  BY <2>8, <3>1, <3>2 DEF Follows
  <2>10. ~BringsNone(h.todo)
    <3>1. Len(new) = 1  BY <2>2, <2>3
    <3>2. 1 \in DOMAIN h.todo /\ ~(1 > Len(new))
      <4>1. Len(w.todo) \in Nat \ {0}  BY <1>3
      <4>2. Len(h.todo) >= 1  BY <2>8, <3>1, <4>1 DEF Follows
      <4> QED  BY <2>8, <3>1, <4>2
    <3>3. h.todo[1] = new[1]  BY <2>8, <3>2 DEF Follows
    <3> QED  BY <2>3, <3>2, <3>3 DEF BringsNone, Brings
  <2>11. HeirCovered(h.todo, w.deferred, w.own, w.req, s, UnseenBy(h))
    <3>1. \A x \in Certs : BringsLast(h.todo, x) => x = c  BY <2>9 DEF BringsLast
    <3> QED  BY <2>7, <2>10, <3>1 DEF HeirCovered
  <2> QED  BY <1>3, <2>5, <2>6, <2>11, OwnIsLive, RenewKeeps
<1> QED  BY <1>2, <1>12, <1>13, <1>14

-----------------------------------------------------------------------------
(* The steps of the specification keep RenewInv                            *)

LEMMA StepRenews ==
    ASSUME Inv, RenewInv, Step
    PROVE  RenewInv'
<1>1. HookInv(w) /\ w.todo # <<>> /\ RenewHook(w)  BY DEF Inv, RenewInv, Step
<1>2. w' = Run(Head(w.todo), Rest) /\ (NeedsKeytool(Head(w.todo)) => installed)
  BY DEF Step, Rest
<1>3. UNCHANGED <<rel, req, prov, secrets, own, deferred, address, events>>
  BY DEF Step, unitVars, envVars
<1>4. RenewHook(w')
  <2> DEFINE t == Head(w.todo)
  <2>1. t \in Tasks
    <3>1. w.todo \in Seq(Tasks)  BY <1>1, HooksAre DEF HookInv
    <3> QED  BY <3>1, <1>1
  <2>2. t.do \in {"ensure", "cleanup", "send", "find", "config", "init", "available", "adopt",
                  "expired", "offer", "broken"}
    BY <2>1, TaskFields
  <2>3. At(t.do)  BY <1>1 DEF At
  <2> HIDE DEF t
  <2>4. w' = Run(t, Rest)  BY <1>2 DEF t
  <2>5. CASE t.do = "ensure"
    <3>1. w' = EnsurePrivateKey(Rest)  BY <2>4, <2>5, Zenon DEF Run
    <3> QED  BY <3>1, <2>3, <2>5, <1>1, EnsureRenews
  <2>6. CASE t.do = "cleanup"
    <3>1. w' = CleanupRequests(Rest)  BY <2>4, <2>6 DEF Run
    <3> QED  BY <3>1, <2>3, <2>6, <1>1, CleanupRenews
  <2>7. CASE t.do = "send"
    <3>1. w' = SendRequests(Rest)  BY <2>4, <2>7 DEF Run
    <3> QED  BY <3>1, <2>3, <2>7, <1>1, SendRenews
  <2>8. CASE t.do = "find"
    <3>1. w' = FindAvailable(Rest)  BY <2>4, <2>8 DEF Run
    <3> QED  BY <3>1, <2>3, <2>8, <1>1, FindRenews
  <2>9. CASE t.do = "offer"
    <3>1. w' = TakeOffer(Rest, t.offer)  BY <2>4, <2>9 DEF Run
    <3> QED  BY <3>1, <2>3, <2>9, <1>1, OfferRenews DEF t
  <2>10. CASE t.do = "available"
    <3>1. w' = CertificateAvailable(Rest, t.cert)  BY <2>4, <2>10 DEF Run
    <3> QED  BY <3>1, <2>3, <2>10, <1>1, AvailableRenews DEF t
  <2>11. CASE t.do = "adopt"
    <3>1. w' = Adopt(Rest, t.cert)  BY <2>4, <2>11 DEF Run
    <3>2. installed  BY <2>11, <1>2 DEF NeedsKeytool, t
    <3> QED  BY <3>1, <3>2, <2>3, <2>11, <1>1, AdoptRenews DEF t
  <2>12. CASE t.do = "config"
    <3>1. w' = ConfigChanged(Rest)  BY <2>4, <2>12 DEF Run
    <3> QED  BY <3>1, <2>3, <2>12, <1>1, ConfigRenews
  <2>13. CASE t.do = "init"
    <3>1. w' = InitUnitTls(Rest)  BY <2>4, <2>13 DEF Run
    <3> QED  BY <3>1, <2>3, <2>13, <1>1, InitRenews
  <2>14. CASE t.do = "expired"
    <3>1. w' = SecretExpired(Rest, t.cert)  BY <2>4, <2>14 DEF Run
    <3> QED  BY <3>1, <2>3, <2>14, <1>1, ExpiredRenews DEF t
  <2>15. CASE t.do = "broken"
    BY <2>3, <2>4, <2>15, <1>1, BrokenRenews DEF t
  <2> QED  BY <2>2, <2>5, <2>6, <2>7, <2>8, <2>9, <2>10, <2>11, <2>12, <2>13, <2>14, <2>15
<1>5. RenewHook(w)'
  <2>1. UnseenBy(w') = UnseenBy(w)'  BY <1>3 DEF UnseenBy, Unseen, Finds
  <2>2. AddressFirst(w)' /\ OffersLast(w)' /\ RequestsDropped(w)'
    BY <1>3, <1>4 DEF RenewHook, AddressFirst, MatchesAttributes, OffersLast, RequestsDropped, Brings
  <2>3. (w.own.cert.by = "provider" => w.own.cert.cert \in InHand \cup OwnCerts)'
    BY <1>3, <1>4 DEF RenewHook, InHand, OfferedCerts, Waiting, OwnCerts
  <2>4. HeirCovered(w.todo, w.deferred, w.own, w.req, w.secrets, UnseenBy(w))'
    <3>1. HeirCovered(w'.todo, w'.deferred, w'.own, w'.req, w'.secrets, UnseenBy(w)')
      BY <1>4, <2>1 DEF RenewHook
    <3> QED  BY <1>3, <3>1 DEF HeirCovered, Covered, BringsLast, BringsNone
  <2> QED  BY <2>2, <2>3, <2>4 DEF RenewHook
<1>6. RenewState'
  <2>1. Unseen' = Unseen  BY <1>3 DEF Unseen
  <2> QED  BY <1>3, <2>1 DEF RenewInv, RenewState, HeirCovered, Covered, BringsLast, BringsNone
<1> QED  BY <1>5, <1>6 DEF RenewInv

LEMMA BeginRenews ==
    ASSUME Inv, RenewInv, NEW e \in HookEvents, NEW todo \in Seq(Tasks), Begin(e, todo),
           \A i \in DOMAIN todo :
               /\ todo[i].do \notin {"available", "adopt", "offer"}
               /\ todo[i].do = "find" => \E j \in DOMAIN todo : j < i /\ todo[j].do = "cleanup",
           e = "broken" => todo # <<>> /\ todo[Len(todo)].do = "broken",
           e # "changed" \/ rel = "none" \/ \E i \in DOMAIN todo : todo[i].do = "find"
    PROVE  RenewInv'
<1> DEFINE all == deferred \o todo
<1>1. w' = HookOf(e, all, own.key, req, secrets, libKey, own, <<>>)
  BY Zenon DEF Begin, Copy, HookOf
<1>2. UNCHANGED <<rel, req, prov, secrets, own, deferred, address, events>>
  BY DEF Begin, unitVars, envVars
<1>3. deferred \in Seq(Tasks) /\ deferred \in Seq(Deferrals)
  BY DeferralsAreTasks DEF Inv, TypeOK
<1>4. /\ all \in Seq(Tasks) /\ Len(all) = Len(deferred) + Len(todo)
      /\ \A i \in DOMAIN all :
            \/ i \in DOMAIN deferred /\ all[i] = deferred[i]
            \/ i > Len(deferred) /\ i - Len(deferred) \in DOMAIN todo
               /\ all[i] = todo[i - Len(deferred)]
      /\ \A j \in DOMAIN todo :
            Len(deferred) + j \in DOMAIN all /\ all[Len(deferred) + j] = todo[j]
  BY <1>3, Appended
<1>5. \A i \in DOMAIN deferred : i \in DOMAIN all /\ all[i] = deferred[i]
  BY <1>3
<1> HIDE DEF all
<1>6. PICK q : q = <<>>  BY Zenon
<1>7. /\ w'.event = e /\ w'.todo = all /\ w'.req = req
      /\ w'.secrets = secrets /\ w'.own = own /\ w'.deferred = q
  <2>1. w' = HookOf(e, all, own.key, req, secrets, libKey, own, q)  BY <1>1, <1>6, Zenon
  <2> QED  BY <2>1, HookFields
<1>8. \A i \in DOMAIN q : FALSE  BY <1>6
<1>9. Len(deferred) \in Nat /\ DOMAIN deferred = 1..Len(deferred) /\ DOMAIN all = 1..Len(all)
      /\ DOMAIN todo = 1..Len(todo) /\ Len(todo) \in Nat
  BY <1>3, <1>4
<1>10. \A i \in DOMAIN todo : ~Brings(todo[i])  BY DEF Brings
<1>11. ASSUME NEW i \in DOMAIN all, all[i].do \in {"find", "offer"}
       PROVE  i > Len(deferred) /\ i - Len(deferred) \in DOMAIN todo /\ all[i] = todo[i - Len(deferred)]
  <2> SUFFICES ASSUME i \in DOMAIN deferred, all[i] = deferred[i] PROVE FALSE  BY <1>4
  <2>1. deferred[i] \in Deferrals  BY <1>3, Elements
  <2>2. deferred[i].do \in {"config", "available"}  BY <2>1, CertFields
  <2> QED  BY <1>11, <2>2
<1>12. AddressFirst(w)'
  <2> SUFFICES ASSUME NEW i \in DOMAIN all, all[i].do \in {"find", "offer"}
               PROVE  \E j \in DOMAIN all : j < i /\ all[j].do = "cleanup"
    BY <1>7 DEF AddressFirst
  <2>1. PICK j \in DOMAIN todo : j < i - Len(deferred) /\ todo[j].do = "cleanup"  BY <1>11
  <2>2. Len(deferred) + j < i  BY <1>9, <2>1
  <2> QED  BY <1>4, <2>1, <2>2
<1>13. OffersLast(w)'
  <2> SUFFICES ASSUME NEW i \in DOMAIN all, NEW j \in DOMAIN all, i < j, all[i].do \in {"find", "offer"}
               PROVE  ~Brings(all[j])
    BY <1>7 DEF OffersLast, Brings
  <2>1. i > Len(deferred)  BY <1>11
  <2>2. ~(j \in DOMAIN deferred)  BY <1>9, <2>1
  <2> QED  BY <1>4, <1>10, <2>2
<1>14. RequestsDropped(w)'
  <2> SUFFICES ASSUME e = "broken" PROVE all # <<>> /\ all[Len(all)].do = "broken"
    BY <1>7 DEF RequestsDropped
  <2>1. Len(todo) \in DOMAIN todo /\ Len(todo) > 0  BY <1>9
  <2>2. all[Len(all)] = todo[Len(todo)]  BY <1>4, <2>1
  <2>3. Len(all) > 0  BY <1>4, <1>9, <2>1
  <2> QED  BY <2>2, <2>3
<1>15. (w.own.cert.by = "provider" => w.own.cert.cert \in InHand \cup OwnCerts)'
  BY <1>2, <1>7 DEF OwnCerts
<1>16. HeirCovered(<<>>, deferred, own, req, secrets, Unseen) /\ (rel = "none" => prov = <<>>)
  BY DEF RenewInv, RenewState
<1>17. BringsNone(<<>>)  BY DEF BringsNone
<1>18. Unseen \subseteq UnseenBy(w')
  <2>1. CASE rel = "none"  BY <1>16, <2>1 DEF Unseen, ToSet
  <2>2. CASE e # "changed"  BY <1>7, <2>2 DEF UnseenBy, Finds
  <2>3. CASE \E i \in DOMAIN todo : todo[i].do = "find"
    <3>1. \E i \in DOMAIN all : all[i].do = "find"  BY <1>4, <2>3
    <3> QED  BY <1>7, <3>1 DEF UnseenBy, Finds
  <2> QED  BY <2>1, <2>2, <2>3
<1>19. ASSUME NEW c, BringsLast(all, c) PROVE BringsLast(deferred, c)
  <2>1. PICK i \in DOMAIN all :
            Brings(all[i]) /\ all[i].cert = c /\ \A j \in DOMAIN all : j > i => ~Brings(all[j])
    BY <1>19 DEF BringsLast
  <2>2. i \in DOMAIN deferred /\ all[i] = deferred[i]  BY <1>4, <1>10, <2>1
  <2>3. \A j \in DOMAIN deferred : j > i => ~Brings(deferred[j])  BY <1>5, <2>1
  <2> QED  BY <2>1, <2>2, <2>3 DEF BringsLast
<1>20. HeirCovered(all, q, own, req, secrets, UnseenBy(w'))
  <2>1. \A c : ~BringsLast(q, c)  BY <1>8 DEF BringsLast
  <2>2. ASSUME NEW c, NEW A, Covered(c, A, req, secrets, Unseen)
        PROVE  Covered(c, A, req, secrets, UnseenBy(w'))
    BY <1>18, <2>2, SameCover
  <2> QED  BY <1>16, <1>17, <1>19, <2>1, <2>2 DEF HeirCovered
<1>21. HeirCovered(w.todo, w.deferred, w.own, w.req, w.secrets, UnseenBy(w))'
  <2>1. UnseenBy(w') = UnseenBy(w)'  BY <1>2 DEF UnseenBy, Unseen, Finds
  <2> QED  BY <1>2, <1>7, <1>20, <2>1 DEF HeirCovered, Covered, BringsLast, BringsNone
<1>22. RenewState'
  <2>1. Unseen' = Unseen  BY <1>2 DEF Unseen
  <2> QED  BY <1>2, <2>1 DEF RenewInv, RenewState, HeirCovered, Covered, BringsLast, BringsNone
<1> QED  BY <1>12, <1>13, <1>14, <1>15, <1>21, <1>22 DEF RenewInv, RenewHook

LEMMA HooksBeginRenews ==
    ASSUME Inv, RenewInv, RelationHook \/ BrokenHook \/ ConfigHook \/ SecretHook \/ StatusHook
    PROVE  RenewInv'
<1>1. CASE RelationHook
  <2>1. PICK e \in {"created", "changed"} :
            Begin(e, IF rel = "none" THEN <<>> ELSE ConfigureTasks)
    BY <1>1 DEF RelationHook
  <2>2. e \in HookEvents /\ e # "broken"  BY DEF HookEvents
  <2>3. CASE rel = "none"
    <3>1. Begin(e, <<>>)  BY <2>1, <2>3
    <3>2. \A i \in DOMAIN <<>> : FALSE  OBVIOUS
    <3> QED  BY <2>2, <2>3, <3>1, <3>2, ToDoTypes, BeginRenews
  <2>4. CASE rel # "none"
    <3>1. Begin(e, ConfigureTasks)  BY <2>1, <2>4
    <3>2. /\ DOMAIN ConfigureTasks = {1, 2, 3, 4} /\ ConfigureTasks[1].do = "ensure"
          /\ ConfigureTasks[2].do = "cleanup" /\ ConfigureTasks[3].do = "send"
          /\ ConfigureTasks[4].do = "find"
      BY DEF ConfigureTasks
    <3>3. \A i \in DOMAIN ConfigureTasks :
             /\ ConfigureTasks[i].do \notin {"available", "adopt", "offer"}
             /\ ConfigureTasks[i].do = "find" =>
                   \E j \in DOMAIN ConfigureTasks : j < i /\ ConfigureTasks[j].do = "cleanup"
      <4>1. 2 \in DOMAIN ConfigureTasks /\ 2 < 4  BY <3>2
      <4> QED  BY <3>2, <4>1
    <3>4. \E i \in DOMAIN ConfigureTasks : ConfigureTasks[i].do = "find"
      <4>1. 4 \in DOMAIN ConfigureTasks  BY <3>2
      <4> QED  BY <3>2, <4>1
    <3> QED  BY <2>2, <3>1, <3>3, <3>4, ToDoTypes, BeginRenews
  <2> QED  BY <2>3, <2>4
<1>2. CASE BrokenHook
  <2>1. PICK b \in BOOLEAN : Begin("broken", <<[do |-> "broken", leads |-> b]>>)
    BY <1>2 DEF BrokenHook
  <2>2. PICK t : t = [do |-> "broken", leads |-> b] /\ t.do = "broken"
    <3>1. [do |-> "broken", leads |-> b].do = "broken"  OBVIOUS
    <3> QED  BY <3>1, Zenon
  <2>3. <<t>> \in Seq(Tasks) /\ Begin("broken", <<t>>)  BY <2>1, <2>2, ToDoTypes, Zenon
  <2>4. DOMAIN <<t>> = {1} /\ <<t>>[1] = t /\ Len(<<t>>) = 1 /\ <<t>> # <<>>  OBVIOUS
  <2>5. "broken" \in HookEvents  BY DEF HookEvents
  <2>6. \A i \in DOMAIN <<t>> : <<t>>[i].do = "broken"  BY <2>2, <2>4
  <2>7. <<t>>[Len(<<t>>)].do = "broken"  BY <2>2, <2>4
  <2> QED  BY <2>3, <2>4, <2>5, <2>6, <2>7, BeginRenews
<1>3. CASE ConfigHook \/ StatusHook
  <2>1. PICK e \in {"config", "status"} : Begin(e, <<[do |-> "config"]>>)
    BY <1>3 DEF ConfigHook, StatusHook
  <2>2. PICK t : t = [do |-> "config"] /\ t.do = "config"
    <3>1. [do |-> "config"].do = "config"  OBVIOUS
    <3> QED  BY <3>1, Zenon
  <2>3. <<t>> \in Seq(Tasks) /\ Begin(e, <<t>>)  BY <2>1, <2>2, ToDoTypes, Zenon
  <2>4. \A i \in DOMAIN <<t>> : <<t>>[i].do = "config"  BY <2>2
  <2>5. e \in HookEvents /\ e \notin {"broken", "changed"}  BY DEF HookEvents
  <2> QED  BY <2>3, <2>4, <2>5, BeginRenews
<1>4. CASE SecretHook
  <2>1. PICK s \in secrets : Begin("secret", <<[do |-> "expired", cert |-> s.cert]>>)
    BY <1>4 DEF SecretHook
  <2>2. s.cert \in Certs  BY CertFields DEF Inv, TypeOK
  <2>3. PICK t : t = [do |-> "expired", cert |-> s.cert] /\ t.do = "expired"
    <3>1. [do |-> "expired", cert |-> s.cert].do = "expired"  OBVIOUS
    <3> QED  BY <3>1, Zenon
  <2>4. <<t>> \in Seq(Tasks) /\ Begin("secret", <<t>>)  BY <2>1, <2>2, <2>3, ToDoTypes, Zenon
  <2>5. \A i \in DOMAIN <<t>> : <<t>>[i].do = "expired"  BY <2>3
  <2>6. "secret" \in HookEvents  BY DEF HookEvents
  <2> QED  BY <2>4, <2>5, <2>6, BeginRenews
<1> QED  BY <1>1, <1>2, <1>3, <1>4

LEMMA FailRenews ==
    ASSUME RenewInv, Fail
    PROVE  RenewInv'
<1>1. UNCHANGED <<rel, req, prov, secrets, own, deferred, events>> /\ w' = NoHook
  BY DEF Fail, unitVars, envVars
<1>2. Unseen' = Unseen  BY <1>1 DEF Unseen
<1> QED  BY <1>1, <1>2 DEF RenewInv, RenewState, HeirCovered, Covered, BringsLast, BringsNone, Idle

LEMMA CommitRenews ==
    ASSUME Inv, RenewInv, Commit
    PROVE  RenewInv'
<1>1. HookInv(w) /\ RenewHook(w) /\ w.todo = <<>> /\ w' = NoHook  BY DEF Inv, RenewInv, Commit
<1>2. req' = w.req /\ secrets' = w.secrets /\ own' = w.own /\ deferred' = w.deferred
  BY DEF Commit
<1>3. Idle'  BY <1>1 DEF Idle, NoHook
<1>4. HeirCovered(<<>>, w.deferred, w.own, w.req, w.secrets, UnseenBy(w))
  BY <1>1 DEF RenewHook
<1>5. CASE w.event = "broken"
  <2>1. rel' = "none" /\ prov' = <<>>  BY <1>5 DEF Commit
  <2>2. w.req = <<>>  BY <1>1, <1>5 DEF RenewHook, RequestsDropped
  <2>3. ToSet(req') = {}  BY <1>2, <2>2 DEF ToSet
  <2>4. \A c, A : Covered(c, A, req, secrets, Unseen)'  BY <2>3 DEF Covered
  <2>5. \A i \in DOMAIN <<>> : FALSE  OBVIOUS
  <2> QED  BY <1>3, <2>1, <2>4, <2>5 DEF RenewInv, RenewState, HeirCovered, BringsLast
<1>6. CASE w.event # "broken"
  <2>1. events' = events \ {w.event} /\ UNCHANGED <<rel, prov>>  BY <1>6 DEF Commit
  <2>2. UnseenBy(w) \subseteq Unseen'
    <3>1. \A i \in DOMAIN w.todo : FALSE  BY <1>1
    <3>2. CASE w.event = "changed"  BY <3>1, <3>2 DEF UnseenBy, Finds
    <3>3. CASE w.event # "changed"  BY <2>1, <3>3 DEF UnseenBy, Unseen
    <3> QED  BY <3>2, <3>3
  <2>3. ASSUME NEW c, NEW A, Covered(c, A, w.req, w.secrets, UnseenBy(w))
        PROVE  Covered(c, A, w.req, w.secrets, Unseen')
    BY <2>2, <2>3, SameCover
  <2>4. HeirCovered(<<>>, w.deferred, w.own, w.req, w.secrets, Unseen')
    BY <1>4, <2>3 DEF HeirCovered
  <2>5. HeirCovered(<<>>, deferred, own, req, secrets, Unseen)'
    BY <1>2, <2>1, <2>4 DEF HeirCovered, Covered, BringsLast, BringsNone
  <2>6. (rel = "none" => prov = <<>>)'  BY <2>1 DEF RenewInv, RenewState
  <2> QED  BY <1>3, <2>5, <2>6 DEF RenewInv, RenewState
<1> QED  BY <1>5, <1>6

\* Steps that leave the unit's data alone, and what covers its certificates.
LEMMA OutsideRenews ==
    ASSUME RenewInv, Idle, w' = w, UNCHANGED unitVars, (rel = "none" => prov = <<>>)',
           \A c, A : Covered(c, A, req, secrets, Unseen) => Covered(c, A, req, secrets, Unseen)'
    PROVE  RenewInv'
<1>1. UNCHANGED <<req, secrets, own, deferred, w>>  BY DEF unitVars
<1>2. Idle'  BY <1>1 DEF Idle, NoHook
<1>3. HeirCovered(<<>>, deferred, own, req, secrets, Unseen)  BY DEF RenewInv, RenewState
<1>4. HeirCovered(<<>>, deferred, own, req, secrets, Unseen)'
  BY <1>1, <1>3 DEF HeirCovered, BringsLast, BringsNone, Brings
<1> QED  BY <1>2, <1>4 DEF RenewInv, RenewState

LEMMA OperatorRenews ==
    ASSUME RenewInv, Relate \/ Unrelate \/ Move \/ GetReady
    PROVE  RenewInv'
<1>1. /\ Idle /\ w' = w /\ UNCHANGED unitVars /\ UNCHANGED prov
      /\ events \subseteq events' /\ (rel' = rel \/ rel' \in {"up", "dying"})
  BY DEF Relate, Unrelate, Move, GetReady
<1>2. UNCHANGED <<req, secrets>>  BY <1>1 DEF unitVars
<1>3. Unseen \subseteq Unseen'  BY <1>1 DEF Unseen
<1>4. ASSUME NEW c, NEW A, Covered(c, A, req, secrets, Unseen)
      PROVE  Covered(c, A, req, secrets, Unseen)'
  <2>1. Covered(c, A, req, secrets, Unseen')  BY <1>3, <1>4, SameCover
  <2> QED  BY <1>1, <1>2, <2>1 DEF Covered
<1>5. (rel = "none" => prov = <<>>)'  BY <1>1 DEF RenewInv, RenewState
<1> QED  BY <1>1, <1>4, <1>5, OutsideRenews

LEMMA AppendElements ==
    ASSUME NEW T, NEW seq \in Seq(T), NEW x
    PROVE  ToSet(Append(seq, x)) = ToSet(seq) \cup {x}
<1>1. /\ DOMAIN seq = 1..Len(seq) /\ DOMAIN Append(seq, x) = 1..(Len(seq) + 1)
      /\ Len(seq) \in Nat /\ Append(seq, x)[Len(seq) + 1] = x
      /\ \A i \in DOMAIN seq : Append(seq, x)[i] = seq[i]
  OBVIOUS
<1>2. \A i \in DOMAIN Append(seq, x) : i \in DOMAIN seq \/ i = Len(seq) + 1  BY <1>1
<1>3. DOMAIN seq \subseteq DOMAIN Append(seq, x) /\ Len(seq) + 1 \in DOMAIN Append(seq, x)  BY <1>1
<1> QED  BY <1>1, <1>2, <1>3, Zenon DEF ToSet

\* What is selected from a sequence is there.
LEMMA SelectKeeps ==
    ASSUME NEW T, NEW seq \in Seq(T), NEW S, NEW x \in ToSet(seq), x \in S
    PROVE  x \in ToSet(Select(seq, S))
<1> DEFINE f == CHOOSE g : Selects(g, seq, S, Len(seq))
<1>1. Len(seq) \in Nat  OBVIOUS
<1>2. Selects(f, seq, S, Len(seq))
  <2>0. Len(seq) \in 0..Len(seq)  BY <1>1
  <2>1. \E g : Selects(g, seq, S, Len(seq))  BY <2>0, SelectsExists
  <2> QED  BY <2>1, Zenon
<1>3. Select(seq, S) = f[Len(seq)]  BY Zenon DEF Select, Selects
<1> HIDE DEF f
<1>4. ASSUME NEW k \in 0..Len(seq)
      PROVE  f[k] = IF k = 0 THEN <<>>
                    ELSE IF seq[k] \in S THEN Append(f[k - 1], seq[k]) ELSE f[k - 1]
  BY <1>2, Zenon DEF Selects
<1>5. PICK m \in DOMAIN seq : seq[m] = x  BY DEF ToSet
<1> DEFINE bad == {n \in 0..Len(seq) : f[n] \notin Seq(T) \/ (m <= n /\ x \notin ToSet(f[n]))}
<1>6. SUFFICES ASSUME bad # {} PROVE FALSE
  <2>1. m <= Len(seq) /\ Len(seq) \in 0..Len(seq)  BY <1>1, <1>5
  <2> QED  BY <1>3, <2>1
<1>7. PICK n \in bad : \A k \in bad : n <= k
  <2>1. bad \subseteq Nat  BY <1>1
  <2> HIDE DEF bad
  <2> QED  BY <1>6, <2>1, LeastOf
<1>8. n \in Nat /\ n <= Len(seq) /\ (f[n] \notin Seq(T) \/ (m <= n /\ x \notin ToSet(f[n])))
  BY <1>1, <1>7
<1>9. CASE n = 0
  <2>1. f[0] = <<>>  BY <1>1, <1>4
  <2>2. <<>> \in Seq(T) /\ ~(m <= 0)  BY <1>1, <1>5
  <2> QED  BY <1>8, <1>9, <2>1, <2>2
<1>10. CASE n # 0
  <2>1. n - 1 \in 0..Len(seq) /\ n - 1 \notin bad  BY <1>7, <1>8, <1>10
  <2>2. f[n - 1] \in Seq(T) /\ (m <= n - 1 => x \in ToSet(f[n - 1]))  BY <2>1
  <2>3. n \in 1..Len(seq) /\ seq[n] \in T  BY <1>1, <1>8, <1>10
  <2>4. f[n] = IF seq[n] \in S THEN Append(f[n - 1], seq[n]) ELSE f[n - 1]
    BY <1>4, <1>8, <1>10
  <2> HIDE DEF bad
  <2>5. CASE seq[n] \in S
    <3>1. f[n] = Append(f[n - 1], seq[n])  BY <2>4, <2>5
    <3>2. f[n] \in Seq(T)  BY <2>2, <2>3, <3>1
    <3>3. seq[n] \in ToSet(f[n]) /\ \A y \in ToSet(f[n - 1]) : y \in ToSet(f[n])
      BY <2>2, <3>1, AppendElements
    <3>4. m <= n - 1 \/ m = n \/ ~(m <= n)  BY <1>1, <1>5, <1>8
    <3> QED  BY <1>5, <1>8, <2>2, <3>2, <3>3, <3>4
  <2>6. CASE seq[n] \notin S
    <3>1. m # n  BY <1>5, <2>6
    <3>2. m <= n => m <= n - 1  BY <1>1, <1>5, <1>8, <3>1
    <3> QED  BY <1>8, <2>2, <2>4, <2>6, <3>2
  <2> QED  BY <2>5, <2>6
<1> QED  BY <1>9, <1>10

\* The provider keeps its answer to every request, or gives another that the unit
\* has not seen, or that bars renewal.
LEMMA OfferRenewsAll ==
    ASSUME RenewInv, rel = "up", NEW new, Offer(new),
           \A o \in ToSet(prov) : o.cert.csr \in ToSet(req) =>
               \E p \in ToSet(new) :
                   /\ p.cert.csr = o.cert.csr
                   /\ \/ p = o
                      \/ p.revoked \/ p.cert.ca
                      \/ \A s \in secrets : s.cert # p.cert
    PROVE  RenewInv'
<1>1. /\ prov' = new /\ events' = events \cup {"changed"} /\ Idle /\ w' = w /\ rel' = rel
      /\ UNCHANGED unitVars
  BY DEF Offer
<1>2. UNCHANGED <<req, secrets>>  BY <1>1 DEF unitVars
<1>3. Unseen' = ToSet(new)  BY <1>1 DEF Unseen
<1>4. Unseen \subseteq ToSet(prov)  BY DEF Unseen
<1>5. ASSUME NEW c, NEW A, Covered(c, A, req, secrets, Unseen)
      PROVE  Covered(c, A, req, secrets, ToSet(new))'
  <2>1. Covered(c, A, req, secrets, Unseen)  BY <1>5
  <2>2. CASE c.csr \notin ToSet(req)  BY <1>2, <2>2 DEF Covered
  <2>3. CASE c.csr \in ToSet(req) /\ \E o \in ToSet(prov) : (o.revoked \/ o.cert.ca) /\ o.cert.csr = c.csr
    <3>1. PICK p \in ToSet(new) :
              /\ p.cert.csr = c.csr
              /\ p.revoked \/ p.cert.ca \/ \A s \in secrets : s.cert # p.cert
      BY <2>3
    <3>2. CASE p.revoked \/ p.cert.ca  BY <1>1, <3>1, <3>2 DEF Covered
    <3>3. CASE ~p.revoked /\ ~p.cert.ca  BY <1>1, <1>2, <3>1, <3>3 DEF Covered
    <3> QED  BY <3>2, <3>3
  <2>4. CASE \E s \in secrets : s.cert = c /\ s.replaced  BY <1>2, <2>4 DEF Covered
  <2>5. CASE \E s \in secrets : s.cert = c /\ s.expire = "due" /\ s.age \in A /\ s.age # "expired"
    BY <1>2, <2>5 DEF Covered
  <2>6. CASE /\ c.csr \in ToSet(req)
             /\ \E o \in Unseen : /\ ~o.revoked /\ ~o.cert.ca /\ o.cert.csr = c.csr
                                  /\ \A s \in secrets : s.cert # o.cert
    <3>1. PICK o \in Unseen : /\ ~o.revoked /\ ~o.cert.ca /\ o.cert.csr = c.csr
                              /\ \A s \in secrets : s.cert # o.cert
      BY <2>6
    <3>2. PICK p \in ToSet(new) :
              /\ p.cert.csr = c.csr
              /\ p.revoked \/ p.cert.ca \/ \A s \in secrets : s.cert # p.cert
      BY <1>4, <2>6, <3>1
    <3>3. CASE p.revoked \/ p.cert.ca  BY <1>1, <3>2, <3>3 DEF Covered
    <3>4. CASE ~p.revoked /\ ~p.cert.ca  BY <1>1, <1>2, <3>2, <3>4 DEF Covered
    <3> QED  BY <3>3, <3>4
  <2> QED  BY <2>1, <2>2, <2>3, <2>4, <2>5, <2>6 DEF Covered
<1>6. \A c, A : Covered(c, A, req, secrets, Unseen) => Covered(c, A, req, secrets, Unseen)'
  BY <1>1, <1>3, <1>5 DEF Covered
<1> QED  BY <1>1, <1>6, OutsideRenews

LEMMA TidiedKeeps ==
    ASSUME Inv
    PROVE  \A o \in ToSet(prov) : o.cert.csr \in ToSet(req) => o \in ToSet(Tidied)
<1>1. prov \in Seq(Offers)  BY DEF Inv, TypeOK
<1> QED  BY <1>1, SelectKeeps DEF Tidied

LEMMA SetCertificateRenews ==
    ASSUME Inv, RenewInv, rel = "up", NEW csr \in ToSet(req), NEW isCa \in BOOLEAN,
           SetRelationCertificate(csr, isCa)
    PROVE  RenewInv'
<1> DEFINE free == {n \in 1..MaxSerials : \A c \in LiveCerts : c.csr = csr => c.serial # n}
           S == {o \in ToSet(Tidied) : o.cert.csr # csr}
           kept == Select(Tidied, S)
           cert == [csr |-> csr, serial |-> Smallest(free), ca |-> isCa]
           offer == [cert |-> cert, revoked |-> FALSE]
<1>1. free # {} /\ Offer(Append(kept, offer))  BY DEF SetRelationCertificate
<1>2. Smallest(free) \in free
  <2>1. free \subseteq Nat  BY KeysAssumption
  <2> HIDE DEF free
  <2>2. \E x \in free : \A y \in free : x <= y  BY <1>1, <2>1, LeastOf
  <2> QED  BY <2>2, Zenon DEF Smallest
<1>3. \A c \in LiveCerts : c.csr = csr => c.serial # Smallest(free)  BY <1>2
<1> HIDE DEF free
<1>4. cert.csr = csr /\ cert.serial = Smallest(free) /\ offer.cert = cert  OBVIOUS
<1> HIDE DEF cert
<1>5. \A s \in secrets : s.cert # offer.cert
  <2>1. \A s \in secrets : s.cert \in LiveCerts  BY DEF LiveCerts
  <2> QED  BY <1>3, <1>4, <2>1
<1> HIDE DEF offer
<1>6. kept \in Seq(Offers) /\ \A o \in ToSet(Tidied) : o.cert.csr # csr => o \in ToSet(kept)
  BY TidiedIs, SelectFrom, SelectKeeps
<1> HIDE DEF kept
<1>7. offer \in ToSet(Append(kept, offer)) /\ ToSet(kept) \subseteq ToSet(Append(kept, offer))
  BY <1>6, AppendElements
<1> DEFINE new == Append(kept, offer)
<1> HIDE DEF new
<1>8. ASSUME NEW o \in ToSet(prov), o.cert.csr \in ToSet(req)
      PROVE  \E p \in ToSet(new) :
                 /\ p.cert.csr = o.cert.csr
                 /\ p = o \/ p.revoked \/ p.cert.ca \/ \A s \in secrets : s.cert # p.cert
  <2>1. CASE o.cert.csr = csr  BY <1>4, <1>5, <1>7, <2>1 DEF new
  <2>2. CASE o.cert.csr # csr  BY <1>6, <1>7, <1>8, <2>2, TidiedKeeps DEF new
  <2> QED  BY <2>1, <2>2
<1>9. Offer(new)  BY <1>1 DEF new
<1> QED  BY <1>8, <1>9, OfferRenewsAll

LEMMA ProviderRenews ==
    ASSUME Inv, RenewInv, Provider \/ ProviderReplaces \/ RevokeAllCertificates
    PROVE  RenewInv'
<1>1. CASE ProviderTidies
  <2>1. Offer(Tidied) /\ rel = "up"  BY <1>1 DEF ProviderTidies
  <2> QED  BY <2>1, TidiedKeeps, OfferRenewsAll
<1>2. CASE ProviderIssues
  <2>1. PICK csr \in ToSet(req) : SetRelationCertificate(csr, FALSE)  BY <1>2 DEF ProviderIssues
  <2>2. FALSE \in BOOLEAN /\ rel = "up"  BY <1>2, Zenon DEF ProviderIssues
  <2> QED  BY <2>1, <2>2, SetCertificateRenews
<1>3. CASE ProviderReplaces
  <2>1. PICK csr \in ToSet(req), isCa \in BOOLEAN : SetRelationCertificate(csr, isCa)
    BY <1>3, Zenon DEF ProviderReplaces
  <2>2. rel = "up"  BY <1>3 DEF ProviderReplaces
  <2> QED  BY <2>1, <2>2, SetCertificateRenews
<1>4. CASE RevokeAllCertificates
  <2> DEFINE new == [i \in DOMAIN prov |-> [prov[i] EXCEPT !.revoked = TRUE]]
  <2>1. Offer(new) /\ rel = "up"  BY <1>4, Zenon DEF RevokeAllCertificates
  <2>2. prov \in Seq(Offers)  BY DEF Inv, TypeOK
  <2>3. ASSUME NEW o \in ToSet(prov)
        PROVE  \E p \in ToSet(new) : p.cert.csr = o.cert.csr /\ p.revoked
    <3>1. PICK i \in DOMAIN prov : prov[i] = o  BY DEF ToSet
    <3>2. o \in Offers  BY <2>2, <3>1
    <3>3. [o EXCEPT !.revoked = TRUE].cert = o.cert /\ [o EXCEPT !.revoked = TRUE].revoked
      BY <3>2 DEF Offers
    <3>4. i \in DOMAIN new /\ new[i] = [o EXCEPT !.revoked = TRUE]  BY <3>1
    <3>5. new[i] \in ToSet(new)  BY <3>4 DEF ToSet
    <3> HIDE DEF new
    <3> QED  BY <3>3, <3>4, <3>5
  <2> HIDE DEF new
  <2> QED  BY <2>1, <2>3, OfferRenewsAll
<1> QED  BY <1>1, <1>2, <1>3, <1>4 DEF Provider

\* Time makes a certificate that will ask for its renewal due, and no older.
LEMMA AgeRenews ==
    ASSUME Inv, RenewInv, Age
    PROVE  RenewInv'
<1> DEFINE ages(c) == {s.age : s \in {t \in secrets : t.cert = c}}
                      \cup (IF own.cert = Issued(c) THEN {own.age} ELSE {})
<1>1. PICK c :
         /\ "due" \in ages(c) =>
                deferred = <<>> /\ \A s \in secrets : s.cert = c => s.age # s.expire
         /\ secrets' = {IF s.cert = c THEN [s EXCEPT !.age = Later(s.age)] ELSE s : s \in secrets}
         /\ own' = IF own.cert = Issued(c) THEN [own EXCEPT !.age = Later(own.age)] ELSE own
  BY Zenon DEF Age
<1>2. Idle /\ UNCHANGED <<w, rel, req, prov, events, deferred>>  BY DEF Age
<1>3. secrets \subseteq Secrets /\ own \in Owns  BY DEF Inv, TypeOK, StateInv
<1> DEFINE up(s) == IF s.cert = c THEN [s EXCEPT !.age = Later(s.age)] ELSE s
<1>4. ASSUME NEW s \in secrets
      PROVE  /\ up(s) \in secrets' /\ up(s).cert = s.cert /\ up(s).expire = s.expire
             /\ up(s).replaced = s.replaced
             /\ up(s).age = IF s.cert = c THEN Later(s.age) ELSE s.age
  <2>1. up(s) \in secrets'  BY <1>1, Zenon
  <2>2. s \in Secrets  BY <1>3
  <2> DEFINE later == [s EXCEPT !.age = Later(s.age)]
  <2>3. later.cert = s.cert /\ later.expire = s.expire /\ later.replaced = s.replaced
        /\ later.age = Later(s.age)
    BY <2>2 DEF Secrets
  <2>4. up(s) = IF s.cert = c THEN later ELSE s  OBVIOUS
  <2> HIDE DEF later, up
  <2> QED  BY <2>1, <2>3, <2>4
<1>5. \A x \in secrets' : \E s \in secrets : x = up(s)  BY <1>1, Zenon
<1>6. own'.cert = own.cert
      /\ own'.age = IF own.cert = Issued(c) THEN Later(own.age) ELSE own.age
  <2> DEFINE later == [own EXCEPT !.age = Later(own.age)]
  <2>1. later.cert = own.cert /\ later.age = Later(own.age)  BY <1>3 DEF Owns
  <2>2. own' = IF own.cert = Issued(c) THEN later ELSE own  BY <1>1
  <2> HIDE DEF later
  <2> QED  BY <2>1, <2>2
<1> HIDE DEF up
<1>7. Unseen' = Unseen  BY <1>2 DEF Unseen
<1>8. ASSUME NEW x, NEW A, NEW B, A \subseteq Ages, Covered(x, A, req, secrets, Unseen),
             \A s \in secrets :
                 s.cert = x /\ s.expire = "due" /\ s.age \in A /\ s.age # "expired" =>
                     up(s).age \in B /\ up(s).age # "expired"
      PROVE  Covered(x, B, req', secrets', Unseen')
  <2>1. CASE \/ x.csr \notin ToSet(req)
             \/ \E o \in ToSet(prov) : (o.revoked \/ o.cert.ca) /\ o.cert.csr = x.csr
    BY <1>2, <2>1 DEF Covered
  <2>2. CASE \E s \in secrets : s.cert = x /\ s.replaced  BY <1>4, <2>2 DEF Covered
  <2>3. CASE \E s \in secrets : s.cert = x /\ s.expire = "due" /\ s.age \in A /\ s.age # "expired"
    BY <1>4, <1>8, <2>3 DEF Covered
  <2>4. CASE \E o \in Unseen : /\ ~o.revoked /\ ~o.cert.ca /\ o.cert.csr = x.csr
                               /\ \A s \in secrets : s.cert # o.cert
    BY <1>4, <1>5, <1>7, <2>4 DEF Covered
  <2> QED  BY <1>8, <2>1, <2>2, <2>3, <2>4 DEF Covered
<1>9. \A s \in secrets : s.cert = c => s.age \in ages(c)  OBVIOUS
<1>10. own.cert = Issued(c) => own.age \in ages(c)  OBVIOUS
<1> HIDE DEF ages
<1>11. ASSUME NEW s \in secrets, s.expire = "due", s.age # "expired",
              s.cert = c => s.age # "due" \/ "due" \notin ages(c)
       PROVE  up(s).age \in Ages /\ up(s).age # "expired"
              /\ (s.cert = c => s.age = "fresh" /\ up(s).age = "due")
  <2>1. s.age \in Ages
    <3>1. s \in Secrets  BY <1>3
    <3> QED  BY <3>1, PhaseNames DEF Secrets
  <2>2. s.cert = c => s.age = "fresh"  BY <1>9, <1>11, <2>1 DEF Ages
  <2> QED  BY <1>4, <1>11, <2>1, <2>2 DEF Later, Ages
<1>12. \A s \in secrets : s.expire = "due" /\ s.cert = c => s.age # "due" \/ "due" \notin ages(c)
  BY <1>1
<1>13. HeirCovered(<<>>, deferred, own, req, secrets, Unseen)  BY DEF RenewInv, RenewState
<1>14. ASSUME NEW x \in Certs, BringsLast(deferred, x)
       PROVE  Covered(x, Ages, req', secrets', Unseen')
  <2>1. BringsNone(<<>>)  BY DEF BringsNone
  <2>2. Covered(x, Ages, req, secrets, Unseen)  BY <1>13, <1>14, <2>1 DEF HeirCovered
  <2> QED  BY <1>8, <1>11, <1>12, <2>2
<1>15. ASSUME own.cert.by = "provider"
       PROVE  Covered(own'.cert.cert, {own'.age}, req', secrets', Unseen')
  <2>1. BringsNone(<<>>)  BY DEF BringsNone
  <2>2. Covered(own.cert.cert, {own.age}, req, secrets, Unseen)  BY <1>13, <1>15, <2>1 DEF HeirCovered
  <2>3. own.cert = Issued(own.cert.cert) /\ own.age \in Ages
    BY <1>3, <1>15, OwnFields, OwnedFields
  <2>4. own.cert = Issued(c) <=> own.cert.cert = c  BY <2>3, OwnedFields
  <2>5. ASSUME NEW s \in secrets, s.cert = own.cert.cert, s.expire = "due", s.age = own.age,
               s.age # "expired"
        PROVE  up(s).age = own'.age /\ up(s).age # "expired"
    <3>1. up(s).age # "expired" /\ (s.cert = c => s.age = "fresh" /\ up(s).age = "due")
      BY <1>11, <1>12, <2>5
    <3> QED  BY <1>4, <1>6, <2>4, <2>5, <3>1
  <2> QED  BY <1>6, <1>8, <2>2, <2>3, <2>5
<1>16. HeirCovered(<<>>, deferred, own, req, secrets, Unseen)'
  <2>1. \A y : ~BringsLast(<<>>, y)  BY DEF BringsLast
  <2>2. \A y \in Certs : BringsLast(deferred', y) => Covered(y, Ages, req', secrets', Unseen')
    BY <1>2, <1>14 DEF BringsLast
  <2>3. own'.cert.by = "provider" => Covered(own'.cert.cert, {own'.age}, req', secrets', Unseen')
    BY <1>6, <1>15
  <2>4. HeirCovered(<<>>, deferred', own', req', secrets', Unseen')
    BY <2>1, <2>2, <2>3 DEF HeirCovered
  <2> QED  BY <1>2, <2>4 DEF HeirCovered, Covered, BringsLast, BringsNone
<1>17. RenewState'  BY <1>2, <1>16 DEF RenewInv, RenewState
<1>18. Idle'  BY <1>2 DEF Idle, NoHook
<1> QED  BY <1>17, <1>18 DEF RenewInv

LEMMA InitRenewal ==
    ASSUME Init
    PROVE  RenewInv
<1>1. rel = "none" /\ prov = <<>> /\ deferred = <<>> /\ own.cert = Nothing /\ Idle
  BY DEF Init, Idle
<1>2. \A x : ~BringsLast(<<>>, x)  BY DEF BringsLast
<1>3. own.cert.by # "provider"  BY <1>1, OwnedFields
<1> QED  BY <1>1, <1>2, <1>3 DEF RenewInv, RenewState, HeirCovered

LEMMA StutterRenews ==
    ASSUME RenewInv, UNCHANGED vars
    PROVE  RenewInv'
<1>1. UNCHANGED <<rel, req, prov, secrets, own, address, events, deferred, w>>
  BY DEF vars, unitVars, envVars
<1>2. Unseen' = Unseen  BY <1>1 DEF Unseen
<1>3. RenewState'
  BY <1>1, <1>2 DEF RenewInv, RenewState, HeirCovered, Covered, BringsLast, BringsNone
<1>4. CASE Idle
  <2>1. Idle'  BY <1>1, <1>4 DEF Idle, NoHook
  <2> QED  BY <1>3, <2>1 DEF RenewInv
<1>5. CASE RenewHook(w)
  <2>1. AddressFirst(w)' /\ OffersLast(w)' /\ RequestsDropped(w)'
    BY <1>1, <1>5 DEF RenewHook, AddressFirst, MatchesAttributes, OffersLast, RequestsDropped, Brings
  <2>2. (w.own.cert.by = "provider" => w.own.cert.cert \in InHand \cup OwnCerts)'
    BY <1>1, <1>5 DEF RenewHook, InHand, OfferedCerts, Waiting, OwnCerts
  <2>3. HeirCovered(w.todo, w.deferred, w.own, w.req, w.secrets, UnseenBy(w))'
    <3>1. UnseenBy(w)' = UnseenBy(w)  BY <1>1, <1>2 DEF UnseenBy, Finds
    <3> QED  BY <1>1, <1>5, <3>1 DEF RenewHook, HeirCovered, Covered, BringsLast, BringsNone
  <2> QED  BY <1>3, <2>1, <2>2, <2>3 DEF RenewInv, RenewHook
<1> QED  BY <1>4, <1>5 DEF RenewInv

LEMMA NextRenews ==
    ASSUME Inv, RenewInv, [Next]_vars
    PROVE  RenewInv'
BY StepRenews, HooksBeginRenews, FailRenews, CommitRenews, ProviderRenews, OperatorRenews, AgeRenews,
   StutterRenews
   DEF Next, UnitHooks

\* The certificate in use is covered until the renewal was asked for.
LEMMA CoveredIsAsked ==
    ASSUME Inv, RenewState
    PROVE  RenewalAskedInTime
<1> SUFFICES ASSUME NEW c \in OwnCerts, events = {}, own.age = "expired"
             PROVE  \/ c.csr \notin ToSet(req)
                    \/ \E o \in ToSet(prov) : (o.revoked \/ o.cert.ca) /\ o.cert.csr = c.csr
                    \/ \E s \in secrets : s.cert = c /\ s.replaced
  BY DEF RenewalAskedInTime
<1>1. own.cert.by = "provider" /\ c = own.cert.cert  BY DEF OwnCerts
<1>2. BringsNone(<<>>)  BY DEF BringsNone
<1>3. Covered(c, {own.age}, req, secrets, Unseen)  BY <1>1, <1>2 DEF RenewState, HeirCovered
<1>4. Unseen = {}  BY DEF Unseen
<1> QED  BY <1>3, <1>4 DEF Covered

\* A provider's certificate does not run out in use unnoticed, for any course of
\* hooks, failures, moves, replacements, revocations and broken relations.
THEOREM RenewedInTime == Spec => []RenewalAskedInTime
<1>1. Init => RenewInv  BY InitRenewal
<1>2. Inv /\ RenewInv /\ [Next]_vars => RenewInv'  BY NextRenews
<1>3. Inv /\ RenewInv => RenewalAskedInTime  BY CoveredIsAsked DEF RenewInv
<1> QED  BY <1>1, <1>2, <1>3, Inductive, PTL DEF Spec

-----------------------------------------------------------------------------
(* Offers: what makes the unit use the certificate it is offered           *)

\* The certificate that is in use when tasks q and then deferred events d have
\* been handled, o being the one in use now.
Chosen(q, d, o, c) ==
    \/ BringsLast(q, c)
    \/ BringsNone(q) /\ BringsLast(d, c)
    \/ BringsNone(q) /\ BringsNone(d) /\ o.cert = Issued(c)

\* No two requests are alike but for their identity.
OneRequestEach(r) == \A x, y \in ToSet(r) : x.san = y.san /\ x.key = y.key => x = y
OneOfferEach == \A o, p \in ToSet(prov) : o.cert.csr = p.cert.csr => o = p

\* The secret of a request is of the certificate that will be used; an offer that has
\* been looked at has its secret; and from the first secret on the unit keeps to one
\* private key, k.
Used(q, d, o, r, S, P, k) ==
    /\ OneRequestEach(r)
    /\ \A t \in S : t.cert.csr \in ToSet(r) => Chosen(q, d, o, t.cert)
    /\ \A x \in ToSet(prov) :
          ~x.revoked /\ ~x.cert.ca /\ x.cert.csr \in ToSet(r) /\ x \notin P =>
              \E t \in S : t.cert = x.cert
    /\ S # {} =>
          /\ \A x \in ToSet(r) : x.key = k
          /\ ~BringsNone(q) \/ ~BringsNone(d) \/ (o.cert # Nothing /\ o.key = k)

\* A request is made only when none of another key is left.
SendsClean(h) ==
    \A i \in DOMAIN h.todo : h.todo[i].do = "send" =>
        Clean(h) \/ \E j \in DOMAIN h.todo : j < i /\ h.todo[j].do = "cleanup"

UseHook(h) ==
    /\ SendsClean(h)
    /\ \A t \in h.secrets : t.cert \in LiveCerts
    /\ Used(h.todo, h.deferred, h.own, h.req, h.secrets, UnseenBy(h), PrivateKey(h))

NextKey == IF own.key # NoKey THEN own.key ELSE libKey

UseState ==
    /\ OneOfferEach
    /\ Used(<<>>, deferred, own, req, secrets, Unseen, NextKey)

UseInv == UseState /\ (Idle \/ UseHook(w))

-----------------------------------------------------------------------------
(* What is chosen, task by task                                            *)

\* The last task that brings a certificate is one of the second list, or of the first.
LEMMA BringsJoined ==
    ASSUME NEW a \in Seq(Tasks), NEW b \in Seq(Tasks)
    PROVE  /\ BringsNone(a \o b) <=> BringsNone(a) /\ BringsNone(b)
           /\ \A c : BringsLast(a \o b, c) <=> BringsLast(b, c) \/ (BringsNone(b) /\ BringsLast(a, c))
<1> DEFINE q == a \o b
           n == Len(a)
<1>1. /\ \A i \in DOMAIN q :
            \/ i \in DOMAIN a /\ q[i] = a[i]
            \/ i > n /\ i - n \in DOMAIN b /\ q[i] = b[i - n]
      /\ \A j \in DOMAIN b : n + j \in DOMAIN q /\ q[n + j] = b[j]
  BY Appended
<1>2. \A i \in DOMAIN a : i \in DOMAIN q /\ q[i] = a[i]  OBVIOUS
<1>3. n \in Nat /\ DOMAIN a = 1..n /\ DOMAIN b = 1..Len(b) /\ Len(b) \in Nat /\ DOMAIN q = 1..Len(q)
      /\ Len(q) \in Nat
  BY Appended
<1> HIDE DEF q, n
<1>4. BringsNone(q) <=> BringsNone(a) /\ BringsNone(b)  BY <1>1, <1>2 DEF BringsNone
<1>5. ASSUME NEW c, BringsLast(q, c) PROVE BringsLast(b, c) \/ (BringsNone(b) /\ BringsLast(a, c))
  <2>1. PICK i \in DOMAIN q : Brings(q[i]) /\ q[i].cert = c /\ \A j \in DOMAIN q : j > i => ~Brings(q[j])
    BY <1>5 DEF BringsLast
  <2>2. CASE i \in DOMAIN a /\ q[i] = a[i]
    <3>1. \A j \in DOMAIN b : n + j > i  BY <1>3, <2>2
    <3>2. BringsNone(b)  BY <1>1, <2>1, <3>1 DEF BringsNone
    <3>3. BringsLast(a, c)  BY <1>2, <2>1, <2>2 DEF BringsLast
    <3> QED  BY <3>2, <3>3
  <2>3. CASE i > n /\ i - n \in DOMAIN b /\ q[i] = b[i - n]
    <3>1. PICK k \in DOMAIN b : k = i - n  BY <2>3
    <3>2. \A j \in DOMAIN b : j > k => n + j > i  BY <1>3, <2>3, <3>1
    <3>3. \A j \in DOMAIN b : j > k => ~Brings(b[j])  BY <1>1, <2>1, <3>2
    <3> QED  BY <2>1, <2>3, <3>1, <3>3 DEF BringsLast
  <2> QED  BY <1>1, <2>2, <2>3
<1>6. ASSUME NEW c, BringsLast(b, c) PROVE BringsLast(q, c)
  <2>1. PICK k \in DOMAIN b : Brings(b[k]) /\ b[k].cert = c /\ \A j \in DOMAIN b : j > k => ~Brings(b[j])
    BY <1>6 DEF BringsLast
  <2>2. n + k \in DOMAIN q /\ q[n + k] = b[k]  BY <1>1
  <2>3. ASSUME NEW j \in DOMAIN q, j > n + k PROVE ~Brings(q[j])
    <3>1. ~(j \in DOMAIN a) /\ (j - n \in DOMAIN b => j - n > k)  BY <1>3, <2>3
    <3> QED  BY <1>1, <2>1, <3>1
  <2> QED  BY <2>1, <2>2, <2>3 DEF BringsLast
<1>7. ASSUME NEW c, BringsNone(b), BringsLast(a, c) PROVE BringsLast(q, c)
  <2>1. PICK i \in DOMAIN a : Brings(a[i]) /\ a[i].cert = c /\ \A j \in DOMAIN a : j > i => ~Brings(a[j])
    BY <1>7 DEF BringsLast
  <2>2. \A j \in DOMAIN q : j > i => ~Brings(q[j])  BY <1>1, <1>7, <2>1 DEF BringsNone
  <2> QED  BY <1>2, <2>1, <2>2 DEF BringsLast
<1> QED  BY <1>4, <1>5, <1>6, <1>7 DEF q

LEMMA BringsOne ==
    ASSUME NEW t
    PROVE  /\ BringsNone(<<t>>) <=> ~Brings(t)
           /\ \A c : BringsLast(<<t>>, c) <=> Brings(t) /\ t.cert = c
<1>1. DOMAIN <<t>> = {1} /\ <<t>>[1] = t /\ ~(1 > 1)  OBVIOUS
<1> QED  BY <1>1 DEF BringsNone, BringsLast

LEMMA BringsEmpty == BringsNone(<<>>) /\ \A c : ~BringsLast(<<>>, c)
BY DEF BringsNone, BringsLast

\* What is chosen before the task at hand, and after tasks new came in its place.
LEMMA ChosenAround ==
    ASSUME NEW do, At(do), Inv, NEW new \in Seq(Tasks), NEW d, NEW o
    PROVE  LET t == Head(w.todo)
               q == Tail(w.todo)
           IN  /\ BringsNone(w.todo) <=> ~Brings(t) /\ BringsNone(q)
               /\ BringsNone(new \o q) <=> BringsNone(new) /\ BringsNone(q)
               /\ \A c : Chosen(w.todo, w.deferred, w.own, c) <=>
                     \/ BringsLast(q, c)
                     \/ BringsNone(q) /\ Brings(t) /\ t.cert = c
                     \/ BringsNone(q) /\ ~Brings(t) /\ Chosen(<<>>, w.deferred, w.own, c)
               /\ \A c : Chosen(new \o q, d, o, c) <=>
                     BringsLast(q, c) \/ (BringsNone(q) /\ Chosen(new, d, o, c))
<1> DEFINE t == Head(w.todo)
           q == Tail(w.todo)
<1>1. w.todo \in Seq(Tasks) /\ w.todo # <<>>  BY AtHand DEF At
<1>2. q \in Seq(Tasks) /\ <<t>> \in Seq(Tasks) /\ w.todo = <<t>> \o q  BY <1>1
<1> HIDE DEF t, q
<1>3. /\ BringsNone(w.todo) <=> BringsNone(<<t>>) /\ BringsNone(q)
      /\ \A c : BringsLast(w.todo, c) <=> BringsLast(q, c) \/ (BringsNone(q) /\ BringsLast(<<t>>, c))
  BY <1>2, BringsJoined
<1>4. /\ BringsNone(new \o q) <=> BringsNone(new) /\ BringsNone(q)
      /\ \A c : BringsLast(new \o q, c) <=> BringsLast(q, c) \/ (BringsNone(q) /\ BringsLast(new, c))
  BY <1>2, BringsJoined
<1>5. \A c : BringsLast(q, c) => ~BringsNone(q)  BY DEF BringsLast, BringsNone
<1>6. \A c : BringsLast(new, c) => ~BringsNone(new)  BY DEF BringsLast, BringsNone
<1> QED  BY <1>3, <1>4, <1>5, <1>6, BringsOne, BringsEmpty DEF Chosen, t, q

-----------------------------------------------------------------------------
(* What a task must do to keep UseHook                                     *)

LEMMA SendsKept ==
    ASSUME NEW do, At(do), Inv, UseHook(w), NEW h, NEW new \in Seq(Tasks), h.todo = new \o Tail(w.todo),
           Clean(w) \/ do = "cleanup" => Clean(h),
           \A i \in DOMAIN new : new[i].do = "send" => Clean(h)
    PROVE  SendsClean(h)
<1>1. w.todo \in Seq(Tasks) /\ w.todo # <<>> /\ Head(w.todo).do = do  BY AtHand DEF At
<1>2. Follows(h.todo, new, w.todo) /\ h.todo \in Seq(Tasks)  BY <1>1, Pushed
<1> SUFFICES ASSUME NEW i \in DOMAIN h.todo, h.todo[i].do = "send", ~Clean(h)
             PROVE  \E j \in DOMAIN h.todo : j < i /\ h.todo[j].do = "cleanup"
  BY DEF SendsClean
<1>3. /\ i > Len(new) /\ i - Len(new) + 1 \in DOMAIN w.todo /\ i - Len(new) + 1 > 1
      /\ h.todo[i] = w.todo[i - Len(new) + 1]
  BY <1>2 DEF Follows
<1>4. PICK j \in DOMAIN w.todo : j < i - Len(new) + 1 /\ w.todo[j].do = "cleanup"
  BY <1>3 DEF UseHook, SendsClean
<1>5. j > 1
  <2>1. j # 1  BY <1>1, <1>4
  <2> QED  BY <1>1, <2>1
<1>6. Len(new) + j - 1 < i
  <2>1. Len(new) \in Nat /\ i \in Nat /\ j \in Nat  BY <1>1, <1>2
  <2> QED  BY <1>4, <2>1
<1> QED  BY <1>2, <1>4, <1>5, <1>6 DEF Follows

LEMMA UseKeeps ==
    ASSUME UseHook(w), NEW h, NEW new, NEW r, NEW s, NEW o, NEW d, Becomes(h, new, r, s, o, d),
           SendsClean(h), OneRequestEach(r),
           \A t \in s : t.cert \in LiveCerts,
           \A t \in s : t.cert.csr \in ToSet(r) => Chosen(h.todo, d, o, t.cert),
           \A x \in ToSet(prov) :
               ~x.revoked /\ ~x.cert.ca /\ x.cert.csr \in ToSet(r) /\ x \notin UnseenBy(h) =>
                   \E t \in s : t.cert = x.cert,
           s # {} =>
               /\ \A x \in ToSet(r) : x.key = PrivateKey(h)
               /\ ~BringsNone(h.todo) \/ ~BringsNone(d) \/ (o.cert # Nothing /\ o.key = PrivateKey(h))
    PROVE  UseHook(h)
<1>1. h.req = r /\ h.secrets = s /\ h.own = o /\ h.deferred = d  BY DEF Becomes
<1> QED  BY <1>1 DEF UseHook, Used

\* A task that brings no certificate and leaves what is deferred and in use.
LEMMA QuietUses ==
    ASSUME NEW do, At(do), Inv, UseHook(w), NEW h, NEW new, NEW r, NEW s, NEW o, NEW d,
           Becomes(h, new, r, s, o, d),
           ~Brings(Head(w.todo)), BringsNone(new),
           \A c : BringsLast(d, c) <=> BringsLast(w.deferred, c),
           BringsNone(d) <=> BringsNone(w.deferred),
           o = w.own \/ s = {} \/ ~BringsNone(w.todo),
           SendsClean(h), OneRequestEach(r), s \subseteq w.secrets,
           \A t \in s : t.cert.csr \in ToSet(r) => t.cert.csr \in ToSet(w.req),
           \A x \in ToSet(prov) : ~x.revoked /\ ~x.cert.ca /\ x.cert.csr \in ToSet(r) =>
               /\ x.cert.csr \in ToSet(w.req)
               /\ x \in UnseenBy(w) => x \in UnseenBy(h) \/ \E t \in s : t.cert = x.cert
               /\ \A t \in w.secrets : t.cert = x.cert => t \in s,
           s # {} => PrivateKey(h) = PrivateKey(w) /\ \A x \in ToSet(r) : x.key = PrivateKey(h)
    PROVE  UseHook(h)
<1> DEFINE q == Tail(w.todo)
<1>1. h.todo = new \o q /\ new \in Seq(Tasks)  BY DEF Becomes
<1>2. /\ BringsNone(w.todo) <=> BringsNone(q)
      /\ BringsNone(h.todo) <=> BringsNone(q)
      /\ \A c : Chosen(w.todo, w.deferred, w.own, c) <=>
            BringsLast(q, c) \/ (BringsNone(q) /\ Chosen(<<>>, w.deferred, w.own, c))
      /\ \A c : Chosen(h.todo, d, o, c) <=> BringsLast(q, c) \/ (BringsNone(q) /\ Chosen(new, d, o, c))
  BY <1>1, ChosenAround
<1> HIDE DEF q
<1>3. \A c : ~BringsLast(new, c)  BY DEF BringsLast, BringsNone
<1>4. ASSUME NEW t \in s, t.cert.csr \in ToSet(r) PROVE Chosen(h.todo, d, o, t.cert)
  <2>1. Chosen(w.todo, w.deferred, w.own, t.cert)  BY <1>4 DEF UseHook, Used
  <2>2. CASE BringsLast(q, t.cert)  BY <1>2, <2>2
  <2>3. CASE BringsNone(q) /\ Chosen(<<>>, w.deferred, w.own, t.cert)
    <3>1. o = w.own  BY <1>2, <1>4, <2>3
    <3>2. Chosen(new, d, o, t.cert)  BY <1>3, <2>3, <3>1, BringsEmpty DEF Chosen
    <3> QED  BY <1>2, <2>3, <3>2
  <2> QED  BY <1>2, <2>1, <2>2, <2>3
<1>5. ASSUME NEW x \in ToSet(prov), ~x.revoked, ~x.cert.ca, x.cert.csr \in ToSet(r), x \notin UnseenBy(h)
      PROVE  \E t \in s : t.cert = x.cert
  <2>1. CASE x \in UnseenBy(w)  BY <1>5, <2>1
  <2>2. CASE x \notin UnseenBy(w)
    <3>1. \E t \in w.secrets : t.cert = x.cert  BY <1>5, <2>2 DEF UseHook, Used
    <3> QED  BY <1>5, <3>1
  <2> QED  BY <2>1, <2>2
<1>6. ASSUME s # {}
      PROVE  ~BringsNone(h.todo) \/ ~BringsNone(d) \/ (o.cert # Nothing /\ o.key = PrivateKey(h))
  <2>1. w.secrets # {}  BY <1>6
  <2>2. \/ ~BringsNone(w.todo) \/ ~BringsNone(w.deferred)
        \/ w.own.cert # Nothing /\ w.own.key = PrivateKey(w)
    BY <2>1 DEF UseHook, Used
  <2> QED  BY <1>2, <1>6, <2>2
<1>7. \A t \in s : t.cert \in LiveCerts  BY DEF UseHook
<1> QED  BY <1>4, <1>5, <1>6, <1>7, UseKeeps

\* What every hook of a unit whose relation stays may rely on.
LEMMA UseFacts ==
    ASSUME NEW do, At(do), Inv, UseHook(w), do \notin {"available", "adopt"}
    PROVE  /\ ~Brings(Head(w.todo)) /\ BringsNone(<<>>)
           /\ <<>> \in Seq(Tasks) /\ (\A i \in DOMAIN <<>> : FALSE)
           /\ OneRequestEach(w.req) /\ (w.secrets # {} => Clean(w))
<1>1. Head(w.todo).do = do  BY DEF At
<1>2. ~Brings(Head(w.todo))  BY <1>1 DEF Brings
<1>3. OneRequestEach(w.req) /\ (w.secrets # {} => Clean(w))  BY DEF UseHook, Used, Clean
<1> QED  BY <1>2, <1>3, AtHand, BringsEmpty

-----------------------------------------------------------------------------
(* Each task keeps UseHook                                                 *)

\* A task that leaves requests, secrets and keys alone as well.
LEMMA SameUses ==
    ASSUME NEW do, At(do), do \notin {"find", "offer", "cleanup", "available", "adopt"}, Inv, UseHook(w),
           NEW h, NEW new, NEW o, NEW d, Becomes(h, new, w.req, w.secrets, o, d),
           PrivateKey(h) = PrivateKey(w),
           \A i \in DOMAIN new : ~Brings(new[i]) /\ new[i].do # "send",
           \A c : BringsLast(d, c) <=> BringsLast(w.deferred, c),
           BringsNone(d) <=> BringsNone(w.deferred),
           o = w.own \/ w.secrets = {} \/ ~BringsNone(w.todo)
    PROVE  UseHook(h)
<1>1. new \in Seq(Tasks) /\ h.todo = new \o Tail(w.todo) /\ h.event = w.event /\ h.req = w.req
  BY DEF Becomes
<1>2. BringsNone(new)  BY DEF BringsNone
<1>3. Clean(w) => Clean(h)  BY <1>1 DEF Clean
<1>4. SendsClean(h)  BY <1>1, <1>3, SendsKept
<1>5. UnseenBy(w) \subseteq UnseenBy(h)  BY <1>1, UnseenKept
<1>6. w.secrets # {} => \A x \in ToSet(w.req) : x.key = PrivateKey(h)  BY UseFacts DEF Clean
<1> QED  BY <1>2, <1>4, <1>5, <1>6, UseFacts, QuietUses

LEMMA PlainUses ==
    ASSUME NEW do, At(do), do \notin {"find", "offer", "cleanup", "available", "adopt"}, Inv, UseHook(w),
           NEW h, h = Rest
    PROVE  UseHook(h)
<1>1. <<>> \in Seq(Tasks) /\ (\A i \in DOMAIN <<>> : FALSE)  BY AtHand
<1>2. h = HookOf(w.event, <<>> \o Tail(w.todo), w.given, w.req, w.secrets, w.libKey, w.own, w.deferred)
  BY RestFields
<1>3. Becomes(h, <<>>, w.req, w.secrets, w.own, w.deferred)  BY <1>1, <1>2, BecomesHookOf
<1>4. PrivateKey(h) = PrivateKey(w)  BY RestFields
<1> QED  BY <1>1, <1>3, <1>4, SameUses

\* A key that the library makes is its first, when nothing was requested yet.
LEMMA EnsureUses ==
    ASSUME At("ensure"), Inv, UseHook(w), NEW h, h = EnsurePrivateKey(Rest)
    PROVE  UseHook(h)
<1> DEFINE k == IF w.given # NoKey THEN NoKey ELSE IF w.libKey # NoKey THEN w.libKey ELSE NewKey
<1>1. <<>> \in Seq(Tasks) /\ (\A i \in DOMAIN <<>> : FALSE)  BY AtHand
<1>2. h = HookOf(w.event, <<>> \o Tail(w.todo), w.given, w.req, w.secrets, k, w.own, w.deferred)
  <2>1. h = WithLibKey(Rest, k)  BY RestFields, Zenon DEF EnsurePrivateKey, WithLibKey
  <2> HIDE DEF k
  <2> QED  BY <2>1, RestFields, HookUpdates
<1>3. PrivateKey(h) = PrivateKey(w) \/ PrivateKey(w) = NoKey
  <2>1. h.given = w.given /\ h.libKey = k  BY <1>2, HookFields
  <2> QED  BY <2>1 DEF PrivateKey
<1> HIDE DEF k
<1>4. Becomes(h, <<>>, w.req, w.secrets, w.own, w.deferred)  BY <1>1, <1>2, BecomesHookOf
<1>5. PrivateKey(w) = NoKey /\ Clean(w) => ToSet(w.req) = {}
  <2>1. ToSet(w.req) \subseteq Requests  BY AtHand, Elements
  <2> QED  BY <2>1, CertFields, KeysAreKeys DEF Clean
<1>6. CASE PrivateKey(h) = PrivateKey(w)  BY <1>1, <1>4, <1>6, SameUses
<1>7. CASE PrivateKey(w) = NoKey /\ PrivateKey(h) # PrivateKey(w)
  <2>1. SendsClean(h)
    <3>1. h.req = w.req /\ h.todo = <<>> \o Tail(w.todo)  BY <1>4 DEF Becomes
    <3>2. Clean(w) => Clean(h)  BY <1>5, <1>7, <3>1 DEF Clean
    <3>3. Clean(w) \/ "ensure" = "cleanup" => Clean(h)  BY <3>2
    <3>4. PICK new \in Seq(Tasks) : new = <<>>  BY <1>1, Zenon
    <3>5. h.todo = new \o Tail(w.todo) /\ \A i \in DOMAIN new : FALSE  BY <1>1, <3>1, <3>4
    <3> QED  BY <3>3, <3>5, SendsKept
  <2>2. UnseenBy(w) \subseteq UnseenBy(h)  BY <1>1, <1>4, UnseenKept DEF Becomes
  <2>3. CASE w.secrets = {}  BY <1>1, <1>4, <2>1, <2>2, <2>3, UseFacts, QuietUses
  <2>4. CASE w.secrets # {}
    <3>1. /\ Clean(w)
          /\ ~BringsNone(w.todo) \/ ~BringsNone(w.deferred) \/ (w.own.cert # Nothing /\ w.own.key = NoKey)
      BY <1>7, <2>4 DEF UseHook, Used, Clean
    <3>2. ~(w.own.cert # Nothing /\ w.own.key = NoKey)  BY AtHand DEF KeyInv
    <3>3. PICK new \in Seq(Tasks) : new = <<>> /\ h.todo = new \o Tail(w.todo)
      BY <1>1, <1>4, Zenon DEF Becomes
    <3>4. /\ BringsNone(h.todo) <=> BringsNone(w.todo)
          /\ \A c : Chosen(h.todo, w.deferred, w.own, c) <=> Chosen(w.todo, w.deferred, w.own, c)
      <4> DEFINE q == Tail(w.todo)
      <4>0. h.todo = new \o q  BY <3>3
      <4>1. /\ BringsNone(w.todo) <=> ~Brings(Head(w.todo)) /\ BringsNone(q)
            /\ BringsNone(h.todo) <=> BringsNone(new) /\ BringsNone(q)
            /\ \A c : Chosen(w.todo, w.deferred, w.own, c) <=>
                  \/ BringsLast(q, c)
                  \/ BringsNone(q) /\ Brings(Head(w.todo)) /\ Head(w.todo).cert = c
                  \/ BringsNone(q) /\ ~Brings(Head(w.todo)) /\ Chosen(<<>>, w.deferred, w.own, c)
            /\ \A c : Chosen(h.todo, w.deferred, w.own, c) <=>
                  BringsLast(q, c) \/ (BringsNone(q) /\ Chosen(new, w.deferred, w.own, c))
        BY <4>0, ChosenAround
      <4>2. ~Brings(Head(w.todo)) /\ BringsNone(new)  BY <3>3, UseFacts
      <4> QED  BY <3>3, <4>1, <4>2
    <3>5. ToSet(w.req) = {}  BY <1>5, <1>7, <3>1
    <3> QED  BY <1>4, <2>1, <3>1, <3>2, <3>4, <3>5, UseFacts, UseKeeps DEF UseHook
  <2> QED  BY <2>3, <2>4
<1> QED  BY <1>3, <1>6, <1>7

LEMMA CleanupUses ==
    ASSUME At("cleanup"), Inv, UseHook(w), NEW h, h = CleanupRequests(Rest)
    PROVE  UseHook(h)
<1> DEFINE S == {x \in ToSet(w.req) : MatchesAttributes(x) /\ x.key = PrivateKey(w)}
           r == Select(w.req, S)
<1>1. <<>> \in Seq(Tasks) /\ (\A i \in DOMAIN <<>> : FALSE)  BY AtHand
<1>2. h = HookOf(w.event, <<>> \o Tail(w.todo), w.given, r, w.secrets, w.libKey, w.own, w.deferred)
  <2>1. h = WithReq(Rest, r)  BY RestFields, Zenon DEF CleanupRequests, WithReq
  <2> HIDE DEF r
  <2> QED  BY <2>1, RestFields, HookUpdates
<1>3. \A x \in ToSet(r) : x \in ToSet(w.req) /\ x.key = PrivateKey(w)  BY AtHand, SelectFrom
<1> HIDE DEF r
<1>4. Becomes(h, <<>>, r, w.secrets, w.own, w.deferred)  BY <1>1, <1>2, BecomesHookOf
<1>5. PrivateKey(h) = PrivateKey(w)
  <2>1. h.given = w.given /\ h.libKey = w.libKey  BY <1>2, HookFields
  <2> QED  BY <2>1 DEF PrivateKey
<1>6. Clean(h)  BY <1>3, <1>4, <1>5 DEF Clean, Becomes
<1>7. h.event = w.event /\ h.todo = <<>> \o Tail(w.todo)  BY <1>4 DEF Becomes
<1>8. SendsClean(h)  BY <1>1, <1>6, <1>7, SendsKept
<1>9. UnseenBy(w) \subseteq UnseenBy(h)  BY <1>1, <1>7, UnseenKept
<1>10. OneRequestEach(r)  BY <1>3, UseFacts DEF OneRequestEach
<1> QED  BY <1>3, <1>4, <1>5, <1>8, <1>9, <1>10, UseFacts, QuietUses

\* Of two requests for the address that would be asked for now, both made with the
\* present key, one is found.
LEMMA FoundIfThere ==
    ASSUME NEW s, s.req \in Seq(Requests), \A x \in ToSet(s.req) : x.key = PrivateKey(s), ~Requested(s)
    PROVE  \A x \in ToSet(s.req) : x.san # address
<1> DEFINE I == {i \in 1..Len(s.req) : MatchesAttributes(s.req[i])}
           first == SelectInSeq(s.req, MatchesAttributes)
<1>1. first = IF I # {} THEN CHOOSE x \in I : \A y \in I : x <= y ELSE 0
  BY DEF SelectInSeq, Min
<1>2. ~(first # 0 /\ s.req[first].key = PrivateKey(s))  BY DEF Requested
<1>3. Len(s.req) \in Nat /\ DOMAIN s.req = 1..Len(s.req)  OBVIOUS
<1>4. ASSUME NEW x \in ToSet(s.req), x.san = address PROVE FALSE
  <2>1. PICK i \in 1..Len(s.req) : s.req[i] = x  BY <1>3, <1>4 DEF ToSet
  <2>2. i \in I  BY <1>4, <2>1 DEF MatchesAttributes
  <2>3. I \subseteq Nat /\ \A j \in I : j # 0 /\ s.req[j] \in ToSet(s.req)  BY <1>3 DEF ToSet
  <2> HIDE DEF I, first
  <2>4. \E j \in I : \A y \in I : j <= y  BY <2>2, <2>3, LeastOf
  <2>5. first \in I  BY <1>1, <2>2, <2>4, Zenon
  <2> QED  BY <1>2, <2>3, <2>5
<1> QED  BY <1>4

LEMMA SendUses ==
    ASSUME At("send"), Inv, UseHook(w), NEW h, h = SendRequests(Rest)
    PROVE  UseHook(h)
<1> DEFINE put == [id |-> NewRequestId, key |-> PrivateKey(w), san |-> address]
<1>1. <<>> \in Seq(Tasks) /\ (\A i \in DOMAIN <<>> : FALSE) /\ Head(w.todo).do = "send"
      /\ w.todo \in Seq(Tasks) /\ w.todo # <<>> /\ w.req \in Seq(Requests) /\ HookInv(w)
  BY AtHand DEF At
<1>2. h = Rest \/ (h = WithReq(Rest, Append(w.req, put)) /\ ~Requested(Rest))
  BY RestFields, Zenon DEF SendRequests, WithReq
<1>3. CASE h = Rest  BY <1>3, PlainUses
<1>4. CASE h = WithReq(Rest, Append(w.req, put)) /\ ~Requested(Rest)
  <2>1. put.id = NewRequestId /\ put.san = address /\ put.key = PrivateKey(w)  OBVIOUS
  <2> HIDE DEF put
  <2> DEFINE r == Append(w.req, put)
  <2>2. ToSet(r) = ToSet(w.req) \cup {put}  BY <1>1, AppendElements
  <2> HIDE DEF r
  <2>3. h = HookOf(w.event, <<>> \o Tail(w.todo), w.given, r, w.secrets, w.libKey, w.own, w.deferred)
    BY <1>4, RestFields, HookUpdates DEF r
  <2>4. Becomes(h, <<>>, r, w.secrets, w.own, w.deferred)  BY <1>1, <2>3, BecomesHookOf
  <2>5. PrivateKey(h) = PrivateKey(w)
    <3>1. h.given = w.given /\ h.libKey = w.libKey  BY <2>3, HookFields
    <3> QED  BY <3>1 DEF PrivateKey
  <2>6. Clean(w)
    <3>1. 1 \in DOMAIN w.todo /\ Head(w.todo) = w.todo[1] /\ \A j \in DOMAIN w.todo : ~(j < 1)
      BY <1>1
    <3> QED  BY <1>1, <3>1 DEF UseHook, SendsClean
  <2>7. Clean(h) /\ \A x \in ToSet(r) : x.key = PrivateKey(h)
    BY <2>1, <2>2, <2>4, <2>5, <2>6 DEF Clean, Becomes
  <2>8. h.event = w.event /\ h.todo = <<>> \o Tail(w.todo)  BY <2>4 DEF Becomes
  <2>9. SendsClean(h)  BY <1>1, <2>7, <2>8, SendsKept
  <2>10. UnseenBy(w) \subseteq UnseenBy(h)  BY <1>1, <2>8, UnseenKept
  <2>11. OneRequestEach(r)
    <3>1. \A x \in ToSet(w.req) : x.san # address
      <4>1. Rest.req = w.req /\ PrivateKey(Rest) = PrivateKey(w)  BY RestFields
      <4> QED  BY <1>1, <1>4, <2>6, <4>1, FoundIfThere DEF Clean
    <3> QED  BY <2>1, <2>2, <3>1, UseFacts DEF OneRequestEach
  <2>12. \A c \in LiveCerts : c.csr # put  BY <1>1, <2>1, NoneAnswersIt
  <2>13. ASSUME NEW t \in w.secrets, t.cert.csr \in ToSet(r) PROVE t.cert.csr \in ToSet(w.req)
    BY <2>2, <2>12, <2>13 DEF UseHook
  <2>14. ASSUME NEW x \in ToSet(prov), x.cert.csr \in ToSet(r) PROVE x.cert.csr \in ToSet(w.req)
    BY <2>2, <2>12, <2>14 DEF LiveCerts, OfferedCerts
  <2> QED  BY <2>4, <2>5, <2>7, <2>9, <2>10, <2>11, <2>13, <2>14, UseFacts, QuietUses
<1> QED  BY <1>2, <1>3, <1>4

LEMMA FindUses ==
    ASSUME At("find"), Inv, UseHook(w), NEW h, h = FindAvailable(Rest)
    PROVE  UseHook(h)
<1> DEFINE new == [i \in DOMAIN prov |-> [do |-> "offer", offer |-> prov[i]]]
<1>1. h = HookOf(w.event, new \o Tail(w.todo), w.given, w.req, w.secrets, w.libKey, w.own, w.deferred)
  <2>1. h = WithTodo(Rest, new \o Tail(w.todo))
    BY RestFields, Zenon DEF FindAvailable, Then, WithTodo
  <2> HIDE DEF new
  <2> QED  BY <2>1, RestFields, HookUpdates
<1>2. prov \in Seq(Offers)  BY DEF Inv, TypeOK
<1>3. \A i \in DOMAIN prov : [do |-> "offer", offer |-> prov[i]] \in Tasks  BY <1>2, TaskValues
<1>4. new \in Seq(Tasks)  BY <1>2, <1>3
<1>5. DOMAIN new = DOMAIN prov /\ \A i \in DOMAIN new : new[i].do = "offer" /\ new[i].offer = prov[i]
  OBVIOUS
<1> HIDE DEF new
<1>6. Becomes(h, new, w.req, w.secrets, w.own, w.deferred)  BY <1>1, <1>4, BecomesHookOf
<1>7. PrivateKey(h) = PrivateKey(w)
  <2>1. h.given = w.given /\ h.libKey = w.libKey  BY <1>1, HookFields
  <2> QED  BY <2>1 DEF PrivateKey
<1>8. h.todo = new \o Tail(w.todo) /\ h.req = w.req  BY <1>6 DEF Becomes
<1>9. Clean(w) => Clean(h)  BY <1>7, <1>8 DEF Clean
<1>10. SendsClean(h)
  <2>1. Clean(w) \/ "find" = "cleanup" => Clean(h)  BY <1>9
  <2>2. \A i \in DOMAIN new : new[i].do # "send"  BY <1>5
  <2> QED  BY <1>4, <1>8, <2>1, <2>2, SendsKept
<1>11. UnseenBy(w) \subseteq UnseenBy(h)  BY <1>4, <1>5, <1>8, FindLooks
<1>12. BringsNone(new)  BY <1>5 DEF BringsNone, Brings
<1>13. w.secrets # {} => \A x \in ToSet(w.req) : x.key = PrivateKey(h)  BY <1>7, UseFacts DEF Clean
<1> QED  BY <1>6, <1>7, <1>10, <1>11, <1>12, <1>13, UseFacts, QuietUses

LEMMA ConfigUses ==
    ASSUME At("config"), Inv, UseHook(w), NEW h, h = ConfigChanged(Rest)
    PROVE  UseHook(h)
<1>1. <<>> \in Seq(Tasks) /\ (\A i \in DOMAIN <<>> : FALSE)  BY AtHand
<1>2. CASE appReady
  <2> DEFINE new == <<[do |-> "init"]>>
  <2>1. h = HookOf(w.event, new \o Tail(w.todo), w.given, w.req, w.secrets, w.libKey, w.own,
                   w.deferred)
    <3>1. h = WithTodo(Rest, new \o Tail(w.todo))
      BY <1>2, RestFields, Zenon DEF ConfigChanged, Then, WithTodo
    <3> HIDE DEF new
    <3> QED  BY <3>1, RestFields, HookUpdates
  <2>2. new \in Seq(Tasks)
    <3>1. [do |-> "init"] \in Tasks  BY TaskValues
    <3> QED  BY <3>1
  <2>3. \A i \in DOMAIN new : new[i].do = "init"  OBVIOUS
  <2> HIDE DEF new
  <2>4. Becomes(h, new, w.req, w.secrets, w.own, w.deferred)  BY <2>1, <2>2, BecomesHookOf
  <2>5. PrivateKey(h) = PrivateKey(w)
    <3>1. h.given = w.given /\ h.libKey = w.libKey  BY <2>1, HookFields
    <3> QED  BY <3>1 DEF PrivateKey
  <2>6. \A i \in DOMAIN new : ~Brings(new[i]) /\ new[i].do # "send"  BY <2>3 DEF Brings
  <2> QED  BY <2>4, <2>5, <2>6, SameUses
<1>3. CASE ~appReady
  <2> DEFINE x == [do |-> "config"]
             d == Append(w.deferred, x)
  <2>1. h = Rest \/ h = WithDeferred(Rest, d)
    BY <1>3, RestFields, Zenon DEF ConfigChanged, DeferConfig, WithDeferred
  <2>2. CASE h = Rest  BY <2>2, PlainUses
  <2>3. CASE h = WithDeferred(Rest, d)
    <3>1. ~Brings(x) /\ x \in Deferrals  BY DEF Brings, Deferrals
    <3> HIDE DEF x
    <3>2. /\ BringsNone(d) <=> BringsNone(w.deferred)
          /\ \A c : BringsLast(d, c) <=> BringsLast(w.deferred, c)
      <4>1. w.deferred \in Seq(Tasks) /\ <<x>> \in Seq(Tasks)  BY <3>1, AtHand, DeferralsAreTasks
      <4>2. d = w.deferred \o <<x>>  BY <4>1
      <4> HIDE DEF d
      <4>3. BringsNone(<<x>>) /\ \A c : ~BringsLast(<<x>>, c)  BY <3>1, BringsOne
      <4> QED  BY <4>1, <4>2, <4>3, BringsJoined
    <3> HIDE DEF d
    <3>3. h = HookOf(w.event, <<>> \o Tail(w.todo), w.given, w.req, w.secrets, w.libKey, w.own, d)
      BY <2>3, RestFields, HookUpdates
    <3>4. Becomes(h, <<>>, w.req, w.secrets, w.own, d)  BY <1>1, <3>3, BecomesHookOf
    <3>5. PrivateKey(h) = PrivateKey(w)
      <4>1. h.given = w.given /\ h.libKey = w.libKey  BY <3>3, HookFields
      <4> QED  BY <4>1 DEF PrivateKey
    <3> QED  BY <1>1, <3>2, <3>4, <3>5, SameUses
  <2> QED  BY <2>1, <2>2, <2>3
<1> QED  BY <1>2, <1>3

\* A self-signed certificate is made only where none is to be used: with a secret there
\* is one, or an event that brings it.
LEMMA InitUses ==
    ASSUME At("init"), Inv, UseHook(w), NEW h, h = InitUnitTls(Rest),
           (w.own.cert = Nothing \/ w.own.key = NoKey) => installed
    PROVE  UseHook(h)
<1> DEFINE o == [key |-> NewKey, cert |-> SelfSigned, age |-> "fresh"]
<1>1. \/ h = Rest
      \/ h = WithOwn(Rest, o) /\ (w.own.cert = Nothing \/ w.own.key = NoKey)
  BY RestFields, Zenon DEF InitUnitTls, WithOwn
<1>2. CASE h = Rest  BY <1>2, PlainUses
<1>3. CASE h = WithOwn(Rest, o) /\ (w.own.cert = Nothing \/ w.own.key = NoKey)
  <2>1. h = WithOwn(Rest, o)  BY <1>3
  <2> HIDE DEF o
  <2>2. <<>> \in Seq(Tasks) /\ (\A i \in DOMAIN <<>> : FALSE)  BY AtHand
  <2>3. h = HookOf(w.event, <<>> \o Tail(w.todo), w.given, w.req, w.secrets, w.libKey, o, w.deferred)
    BY <2>1, RestFields, HookUpdates
  <2>4. Becomes(h, <<>>, w.req, w.secrets, o, w.deferred)  BY <2>2, <2>3, BecomesHookOf
  <2>5. PrivateKey(h) = PrivateKey(w)
    <3>1. h.given = w.given /\ h.libKey = w.libKey  BY <2>3, HookFields
    <3> QED  BY <3>1 DEF PrivateKey
  <2>6. BringsNone(w.deferred)
    <3>1. \A i \in DOMAIN w.deferred : w.deferred[i] \in ToSet(w.deferred) /\ w.deferred[i] \in Deferrals
      BY AtHand, Elements
    <3>2. \A i \in DOMAIN w.deferred : w.deferred[i].do # "available"  BY <1>3, <3>1, AtHand
    <3> QED  BY <3>1, <3>2, CertFields DEF BringsNone, Brings
  <2>7. w.own.cert = Nothing  BY <1>3, AtHand DEF KeyInv
  <2>8. w.secrets = {} \/ ~BringsNone(w.todo)  BY <2>6, <2>7 DEF UseHook, Used
  <2> QED  BY <2>2, <2>4, <2>5, <2>8, SameUses
<1> QED  BY <1>1, <1>2, <1>3

LEMMA ExpiredUses ==
    ASSUME At("expired"), Inv, UseHook(w), NEW h, h = SecretExpired(Rest, Head(w.todo).cert)
    PROVE  UseHook(h)
<1> DEFINE c == Head(w.todo).cert
           s == {t \in w.secrets : t.cert # c}
           r == Select(w.req, ToSet(w.req) \ {c.csr})
           new == <<[do |-> "send"]>>
<1>1. \/ h = Rest
      \/ /\ h = WithTodo(WithSecretsReq(Rest, s, r), new \o WithSecretsReq(Rest, s, r).todo)
         /\ \E t \in w.secrets : t.cert = c
  <2>1. Rest.secrets = w.secrets /\ Rest.req = w.req  BY RestFields
  <2> QED  BY <2>1, Zenon DEF SecretExpired, Then, WithTodo, WithSecretsReq
<1>2. CASE h = Rest  BY <1>2, PlainUses
<1>3. CASE /\ h = WithTodo(WithSecretsReq(Rest, s, r), new \o WithSecretsReq(Rest, s, r).todo)
           /\ \E t \in w.secrets : t.cert = c
  <2>1. \A x \in ToSet(r) : x \in ToSet(w.req) /\ x # c.csr  BY AtHand, SelectFrom
  <2>2. new \in Seq(Tasks)
    <3>1. [do |-> "send"] \in Tasks  BY TaskValues
    <3> QED  BY <3>1
  <2>3. DOMAIN new = {1} /\ new[1].do = "send"  OBVIOUS
  <2> HIDE DEF r, new
  <2>4. h = HookOf(w.event, new \o Tail(w.todo), w.given, r, s, w.libKey, w.own, w.deferred)
    <3> HIDE DEF s
    <3>1. WithSecretsReq(Rest, s, r)
          = HookOf(w.event, Tail(w.todo), w.given, r, s, w.libKey, w.own, w.deferred)
      BY RestFields, TwoFields
    <3>2. WithSecretsReq(Rest, s, r).todo = Tail(w.todo)  BY <3>1, HookFields
    <3> QED  BY <1>3, <3>1, <3>2, HookUpdates
  <2>5. w.secrets # {} /\ s \subseteq w.secrets /\ \A t \in w.secrets : t.cert # c => t \in s
    BY <1>3
  <2> HIDE DEF s
  <2>6. Becomes(h, new, r, s, w.own, w.deferred)  BY <2>2, <2>4, BecomesHookOf
  <2>7. PrivateKey(h) = PrivateKey(w)
    <3>1. h.given = w.given /\ h.libKey = w.libKey  BY <2>4, HookFields
    <3> QED  BY <3>1 DEF PrivateKey
  <2>8. Clean(h)  BY <2>1, <2>5, <2>6, <2>7, UseFacts DEF Clean, Becomes
  <2>9. h.event = w.event /\ h.todo = new \o Tail(w.todo) /\ h.req = r  BY <2>6 DEF Becomes
  <2>10. SendsClean(h)  BY <2>2, <2>8, <2>9, SendsKept
  <2>11. UnseenBy(w) \subseteq UnseenBy(h)  BY <2>2, <2>9, UnseenKept
  <2>12. OneRequestEach(r)  BY <2>1, UseFacts DEF OneRequestEach
  <2>13. BringsNone(new)  BY <2>3 DEF BringsNone, Brings
  <2>14. \A x \in ToSet(prov), t \in w.secrets : x.cert.csr \in ToSet(r) /\ t.cert = x.cert => t \in s
    BY <2>1, <2>5
  <2>15. \A x \in ToSet(r) : x.key = PrivateKey(h)  BY <2>8, <2>9 DEF Clean
  <2> HIDE DEF c
  <2> QED  BY <2>1, <2>5, <2>6, <2>7, <2>10, <2>11, <2>12, <2>13, <2>14, <2>15, UseFacts, QuietUses
<1> QED  BY <1>1, <1>2, <1>3

\* An offer is looked at when only one request is left: nothing else can answer it.
LEMMA OfferUses ==
    ASSUME At("offer"), Inv, RenewHook(w), UseHook(w), OneOfferEach,
           NEW h, h = TakeOffer(Rest, Head(w.todo).offer)
    PROVE  UseHook(h)
<1> DEFINE offer == Head(w.todo).offer
           c == offer.cert
           old == SecretOf(w, c.csr)
           put == [cert |-> c, age |-> "fresh", replaced |-> old # {},
                   expire |-> IF old = {} THEN "due" ELSE "expired"]
           s == (w.secrets \ old) \cup {put}
           new == <<[do |-> "available", cert |-> c]>>
<1>1. SecretOf(Rest, c.csr) = old  BY RestFields, Zenon DEF SecretOf
<1>2. \/ h = Rest /\ c.csr \notin ToSet(w.req)
      \/ h = Rest /\ (c.ca \/ ~MatchesAttributes(c.csr) \/ \E t \in old : t.cert = c)
         /\ c.csr \in ToSet(w.req)
      \/ h = WithSecrets(Rest, w.secrets \ old) /\ offer.revoked
      \/ h = WithTodo(WithSecrets(Rest, s), new \o WithSecrets(Rest, s).todo)
         /\ c.csr \in ToSet(w.req)
  <2>1. Rest.secrets = w.secrets /\ Rest.req = w.req  BY RestFields
  <2> QED  BY <1>1, <2>1, Zenon DEF TakeOffer, Then, WithTodo, WithSecrets
<1>3. HookInv(w) /\ w.todo # <<>> /\ Head(w.todo).do = "offer" /\ w.todo \in Seq(Tasks)
  BY AtHand DEF At
<1>4. offer \in Offers /\ offer \in ToSet(prov)  BY <1>3, AtHand, TaskFields DEF TaskInv
<1>5. c \in Certs  BY <1>4, CertFields
<1>6. 1 \in DOMAIN w.todo /\ Head(w.todo) = w.todo[1] /\ (\A j \in DOMAIN w.todo : j = 1 \/ j > 1)
  BY <1>3
<1>7. Clean(w) /\ \A r \in ToSet(w.req) : r.san = address
  <2>1. \A j \in DOMAIN w.todo : ~(j < 1)  BY <1>3
  <2>2. \A r \in ToSet(w.req) : MatchesAttributes(r)
    BY <1>3, <1>6, <2>1 DEF RenewHook, AddressFirst
  <2> QED  BY <2>2, AtHand DEF MatchesAttributes
<1>8. <<>> \in Seq(Tasks) /\ (\A i \in DOMAIN <<>> : FALSE)  OBVIOUS
<1>9. \A x, y \in ToSet(w.req) : x = y  BY <1>7, UseFacts DEF OneRequestEach, Clean
<1>10. ASSUME NEW t, Becomes(h, <<>>, w.req, t, w.own, w.deferred)
       PROVE  UnseenBy(w) \subseteq UnseenBy(h) \cup {offer}
  BY <1>10, OfferLooks DEF Becomes
<1>11. ASSUME NEW t \in SUBSET w.secrets, Becomes(h, <<>>, w.req, t, w.own, w.deferred),
              h.given = w.given, h.libKey = w.libKey,
              offer.revoked \/ c.csr \notin ToSet(w.req) \/ c.ca \/ \E y \in t : y.cert = c,
              \A y \in w.secrets : y \in t \/ (offer.revoked /\ y.cert.csr = c.csr)
       PROVE  UseHook(h)
  <2>1. PrivateKey(h) = PrivateKey(w)  BY <1>11 DEF PrivateKey
  <2>2. h.todo = <<>> \o Tail(w.todo) /\ h.req = w.req  BY <1>11 DEF Becomes
  <2>3. Clean(h)  BY <1>7, <2>1, <2>2 DEF Clean
  <2>4. SendsClean(h)  BY <1>3, <1>8, <2>2, <2>3, SendsKept
  <2>5. UnseenBy(w) \subseteq UnseenBy(h) \cup {offer}  BY <1>10, <1>11
  <2>6. ASSUME NEW x \in ToSet(prov), ~x.revoked, ~x.cert.ca, x.cert.csr \in ToSet(w.req)
        PROVE  /\ x \in UnseenBy(w) => x \in UnseenBy(h) \/ \E y \in t : y.cert = x.cert
               /\ \A y \in w.secrets : y.cert = x.cert => y \in t
    <3>1. x = offer => \E y \in t : y.cert = x.cert  BY <1>11, <2>6
    <3>2. ASSUME NEW y \in w.secrets, y.cert = x.cert PROVE y \in t
      <4>1. offer.revoked /\ y.cert.csr = c.csr => x = offer  BY <1>4, <3>2 DEF OneOfferEach
      <4> QED  BY <1>11, <2>6, <4>1
    <3> HIDE DEF offer
    <3> QED  BY <2>5, <3>1, <3>2
  <2>7. \A x \in ToSet(w.req) : x.key = PrivateKey(h)  BY <2>2, <2>3 DEF Clean
  <2> HIDE DEF c, offer
  <2> QED  BY <1>3, <1>11, <2>1, <2>4, <2>6, <2>7, UseFacts, QuietUses
<1>12. CASE h = Rest /\ (\/ c.csr \notin ToSet(w.req)
                         \/ c.ca
                         \/ ~MatchesAttributes(c.csr) /\ c.csr \in ToSet(w.req)
                         \/ \E t \in old : t.cert = c)
  <2>1. Becomes(h, <<>>, w.req, w.secrets, w.own, w.deferred) /\ h.given = w.given /\ h.libKey = w.libKey
    <3>1. h = HookOf(w.event, <<>> \o Tail(w.todo), w.given, w.req, w.secrets, w.libKey, w.own, w.deferred)
      BY <1>12, RestFields
    <3>2. h.given = w.given /\ h.libKey = w.libKey  BY <3>1, HookFields
    <3> QED  BY <1>8, <3>1, <3>2, BecomesHookOf
  <2>2. c.csr \notin ToSet(w.req) \/ c.ca \/ \E t \in w.secrets : t.cert = c
    BY <1>7, <1>12 DEF SecretOf, MatchesAttributes
  <2> QED  BY <1>11, <2>1, <2>2
<1>13. CASE h = WithSecrets(Rest, w.secrets \ old) /\ offer.revoked
  <2> DEFINE t == w.secrets \ old
  <2>1. \A y \in w.secrets : y \in t \/ y.cert.csr = c.csr  BY DEF SecretOf
  <2>2. t \in SUBSET w.secrets  OBVIOUS
  <2>3. h = WithSecrets(Rest, t)  BY <1>13
  <2> HIDE DEF t, old
  <2>4. Becomes(h, <<>>, w.req, t, w.own, w.deferred) /\ h.given = w.given /\ h.libKey = w.libKey
    <3>1. h = HookOf(w.event, <<>> \o Tail(w.todo), w.given, w.req, t, w.libKey, w.own, w.deferred)
      <4> HIDE DEF c, offer
      <4> QED  BY <2>3, RestFields, HookUpdates
    <3>2. h.given = w.given /\ h.libKey = w.libKey  BY <3>1, HookFields
    <3> QED  BY <1>8, <3>1, <3>2, BecomesHookOf
  <2> QED  BY <1>11, <1>13, <2>1, <2>2, <2>4
<1>14. CASE h = WithTodo(WithSecrets(Rest, s), new \o WithSecrets(Rest, s).todo)
            /\ c.csr \in ToSet(w.req)
  <2>1. put \in s /\ put.cert = c /\ \A t \in s : t = put \/ (t \in w.secrets /\ t.cert.csr # c.csr)
    BY DEF SecretOf
  <2>2. new \in Seq(Tasks)
    <3> HIDE DEF c
    <3>1. [do |-> "available", cert |-> c] \in Tasks  BY <1>5, TaskValues
    <3> QED  BY <3>1
  <2>3. DOMAIN new = {1} /\ new[1].do = "available"  OBVIOUS
  <2>4. BringsLast(new, c) /\ ~BringsNone(new)
    <3> DEFINE x == [do |-> "available", cert |-> c]
    <3>1. Brings(x) /\ x.cert = c  BY DEF Brings
    <3> HIDE DEF x, c
    <3>2. new = <<x>>  BY DEF x
    <3> QED  BY <3>1, <3>2, BringsOne
  <2> HIDE DEF s, new, put
  <2>5. h = HookOf(w.event, new \o Tail(w.todo), w.given, w.req, s, w.libKey, w.own, w.deferred)
    <3> HIDE DEF c
    <3>1. WithSecrets(Rest, s)
          = HookOf(w.event, Tail(w.todo), w.given, w.req, s, w.libKey, w.own, w.deferred)
      BY RestFields, HookUpdates
    <3>2. WithSecrets(Rest, s).todo = Tail(w.todo)  BY <3>1, HookFields
    <3> QED  BY <1>14, <3>1, <3>2, HookUpdates
  <2>6. Becomes(h, new, w.req, s, w.own, w.deferred)  BY <2>2, <2>5, BecomesHookOf
  <2>7. h.todo = new \o Tail(w.todo) /\ h.req = w.req  BY <2>6 DEF Becomes
  <2>8. PrivateKey(h) = PrivateKey(w)
    <3> HIDE DEF c
    <3>1. h.given = w.given /\ h.libKey = w.libKey  BY <2>5, HookFields
    <3> QED  BY <3>1 DEF PrivateKey
  <2>9. Clean(h)  BY <1>7, <2>7, <2>8 DEF Clean
  <2>10. SendsClean(h)
    <3>1. \A i \in DOMAIN new : new[i].do # "send"  BY <2>3
    <3> HIDE DEF c
    <3> QED  BY <1>3, <2>2, <2>7, <2>9, <3>1, SendsKept
  <2>11. BringsNone(Tail(w.todo))
    <3>1. Tail(w.todo) \in Seq(Tasks)
          /\ \A i \in DOMAIN Tail(w.todo) : i + 1 \in DOMAIN w.todo /\ 1 < i + 1 /\ Tail(w.todo)[i] = w.todo[i + 1]
      BY <1>3
    <3> QED  BY <1>3, <1>6, <3>1 DEF BringsNone, RenewHook, OffersLast
  <2>12. Chosen(h.todo, w.deferred, w.own, c) /\ ~BringsNone(h.todo)
    <3>1. Chosen(new, w.deferred, w.own, c)  BY <2>4 DEF Chosen
    <3> HIDE DEF c
    <3>2. /\ BringsNone(new \o Tail(w.todo)) <=> BringsNone(new) /\ BringsNone(Tail(w.todo))
          /\ Chosen(new \o Tail(w.todo), w.deferred, w.own, c) <=>
                \/ BringsLast(Tail(w.todo), c)
                \/ BringsNone(Tail(w.todo)) /\ Chosen(new, w.deferred, w.own, c)
      BY <2>2, ChosenAround
    <3> QED  BY <2>4, <2>7, <2>11, <3>1, <3>2
  <2>13. c \in LiveCerts  BY <1>4 DEF LiveCerts, OfferedCerts
  <2>14. \A t \in s : t.cert \in LiveCerts  BY <2>1, <2>13 DEF UseHook
  <2>15. \A t \in s : t.cert.csr \in ToSet(w.req) => t = put  BY <1>9, <1>14, <2>1
  <2>16. ASSUME NEW x \in ToSet(prov), x.cert.csr \in ToSet(w.req) PROVE \E t \in s : t.cert = x.cert
    <3>1. x = offer  BY <1>4, <1>9, <1>14, <2>16 DEF OneOfferEach
    <3> QED  BY <2>1, <3>1
  <2>17. \A x \in ToSet(w.req) : x.key = PrivateKey(h)  BY <2>7, <2>9 DEF Clean
  <2>18. OneRequestEach(w.req)  BY <1>3, UseFacts
  <2> HIDE DEF c
  <2> QED  BY <2>1, <2>6, <2>10, <2>12, <2>14, <2>15, <2>16, <2>17, <2>18, UseKeeps
<1> QED  BY <1>2, <1>12, <1>13, <1>14

\* A task that brings certificate c leaves c to be chosen.
LEMMA BringUses ==
    ASSUME NEW do, At(do), do \in {"available", "adopt"}, Inv, UseHook(w),
           NEW h, NEW new, NEW o, NEW d, Becomes(h, new, w.req, w.secrets, o, d),
           PrivateKey(h) = PrivateKey(w), \A i \in DOMAIN new : new[i].do # "send",
           Chosen(new, d, o, Head(w.todo).cert),
           ~BringsNone(new) \/ ~BringsNone(d) \/ (o.cert # Nothing /\ o.key = PrivateKey(w))
    PROVE  UseHook(h)
<1> DEFINE q == Tail(w.todo)
           c == Head(w.todo).cert
<1>1. new \in Seq(Tasks) /\ h.todo = new \o q /\ h.event = w.event /\ h.req = w.req
  BY DEF Becomes
<1>2. Brings(Head(w.todo))  BY DEF At, Brings
<1>3. /\ BringsNone(h.todo) <=> BringsNone(new) /\ BringsNone(q)
      /\ \A x : Chosen(w.todo, w.deferred, w.own, x) <=>
            \/ BringsLast(q, x)
            \/ BringsNone(q) /\ Brings(Head(w.todo)) /\ c = x
            \/ BringsNone(q) /\ ~Brings(Head(w.todo)) /\ Chosen(<<>>, w.deferred, w.own, x)
      /\ \A x : Chosen(h.todo, d, o, x) <=> BringsLast(q, x) \/ (BringsNone(q) /\ Chosen(new, d, o, x))
  BY <1>1, ChosenAround
<1>4. Chosen(new, d, o, c)  OBVIOUS
<1>5. Clean(w) => Clean(h)  BY <1>1 DEF Clean
<1>6. SendsClean(h)
  <2>1. \A i \in DOMAIN new : new[i].do = "send" => Clean(h)  OBVIOUS
  <2> QED  BY <1>1, <1>5, <2>1, SendsKept
<1>7. UnseenBy(w) \subseteq UnseenBy(h)  BY <1>1, UnseenKept
<1> HIDE DEF q, c
<1>8. \A t \in w.secrets : t.cert.csr \in ToSet(w.req) => Chosen(h.todo, d, o, t.cert)
  BY <1>2, <1>3, <1>4 DEF UseHook, Used
<1>9. \A x \in ToSet(prov) :
         ~x.revoked /\ ~x.cert.ca /\ x.cert.csr \in ToSet(w.req) /\ x \notin UnseenBy(h) =>
             \E t \in w.secrets : t.cert = x.cert
  BY <1>7 DEF UseHook, Used
<1>10. w.secrets # {} => \A x \in ToSet(w.req) : x.key = PrivateKey(h)  BY DEF UseHook, Used
<1>11. ~BringsNone(h.todo) \/ ~BringsNone(d) \/ (o.cert # Nothing /\ o.key = PrivateKey(h))
  BY <1>3
<1>12. OneRequestEach(w.req) /\ \A t \in w.secrets : t.cert \in LiveCerts  BY DEF UseHook, Used
<1> QED  BY <1>6, <1>8, <1>9, <1>10, <1>11, <1>12, UseKeeps

LEMMA AvailableUses ==
    ASSUME At("available"), Inv, UseHook(w), NEW h, h = CertificateAvailable(Rest, Head(w.todo).cert)
    PROVE  UseHook(h)
<1> DEFINE c == Head(w.todo).cert
           x == [do |-> "available", cert |-> c]
           later == <<[do |-> "init"], [do |-> "adopt", cert |-> c], [do |-> "config"]>>
<1>1. c \in Certs /\ Head(w.todo).do = "available"  BY AtHand, TaskFields DEF At
<1>2. CASE installed
  <2>1. h = HookOf(w.event, later \o Tail(w.todo), w.given, w.req, w.secrets, w.libKey, w.own,
                   w.deferred)
    <3>1. h = WithTodo(Rest, later \o Tail(w.todo))
      BY <1>2, RestFields, Zenon DEF CertificateAvailable, Then, WithTodo
    <3> HIDE DEF later
    <3> QED  BY <3>1, RestFields, HookUpdates
  <2>2. later \in Seq(Tasks)
    <3> HIDE DEF c
    <3>1. [do |-> "init"] \in Tasks /\ [do |-> "adopt", cert |-> c] \in Tasks /\ [do |-> "config"] \in Tasks
      BY <1>1, TaskValues
    <3> QED  BY <3>1
  <2>3. DOMAIN later = {1, 2, 3} /\ later[1].do = "init" /\ later[2].do = "adopt" /\ later[2].cert = c
        /\ later[3].do = "config"
    OBVIOUS
  <2> HIDE DEF later
  <2>4. Becomes(h, later, w.req, w.secrets, w.own, w.deferred)  BY <2>1, <2>2, BecomesHookOf
  <2>5. PrivateKey(h) = PrivateKey(w)
    <3>1. h.given = w.given /\ h.libKey = w.libKey  BY <2>1, HookFields
    <3> QED  BY <3>1 DEF PrivateKey
  <2>6. BringsLast(later, c) /\ ~BringsNone(later)
    <3>1. 2 \in DOMAIN later /\ \A j \in DOMAIN later : j > 2 => j = 3  BY <2>3
    <3> QED  BY <2>3, <3>1 DEF BringsLast, BringsNone, Brings
  <2>7. \A i \in DOMAIN later : later[i].do # "send"  BY <2>3
  <2>8. Chosen(later, w.deferred, w.own, c)  BY <2>6 DEF Chosen
  <2> QED  BY <2>4, <2>5, <2>6, <2>7, <2>8, BringUses
<1>3. CASE ~installed
  <2> DEFINE d == Append(w.deferred, x)
  <2>1. h = HookOf(w.event, <<>> \o Tail(w.todo), w.given, w.req, w.secrets, w.libKey, w.own, d)
    <3>1. h = WithDeferred(Rest, d)
      BY <1>3, RestFields, Zenon DEF CertificateAvailable, WithDeferred
    <3> HIDE DEF d
    <3> QED  BY <3>1, RestFields, HookUpdates
  <2>2. BringsLast(d, c) /\ ~BringsNone(d)
    <3>1. Brings(x) /\ x.cert = c  BY DEF Brings
    <3>2. x \in Deferrals
      <4> HIDE DEF c
      <4> QED  BY <1>1 DEF Deferrals
    <3> HIDE DEF x, c
    <3>3. w.deferred \in Seq(Tasks) /\ <<x>> \in Seq(Tasks)  BY <3>2, AtHand, DeferralsAreTasks
    <3>4. d = w.deferred \o <<x>>
      <4>1. w.deferred \in Seq(Deferrals)  BY AtHand
      <4> QED  BY <4>1
    <3> HIDE DEF d
    <3>5. BringsLast(<<x>>, c) /\ ~BringsNone(<<x>>)  BY <3>1, BringsOne
    <3> QED  BY <3>3, <3>4, <3>5, BringsJoined
  <2>3. <<>> \in Seq(Tasks) /\ (\A i \in DOMAIN <<>> : FALSE)  BY AtHand
  <2> HIDE DEF d
  <2>4. Becomes(h, <<>>, w.req, w.secrets, w.own, d)  BY <2>1, <2>3, BecomesHookOf
  <2>5. PrivateKey(h) = PrivateKey(w)
    <3>1. h.given = w.given /\ h.libKey = w.libKey  BY <2>1, HookFields
    <3> QED  BY <3>1 DEF PrivateKey
  <2>6. Chosen(<<>>, d, w.own, c)  BY <2>2, BringsEmpty DEF Chosen
  <2> QED  BY <2>2, <2>3, <2>4, <2>5, <2>6, BringUses
<1> QED  BY <1>2, <1>3

LEMMA AdoptUses ==
    ASSUME At("adopt"), Inv, UseHook(w), installed, NEW h, h = Adopt(Rest, Head(w.todo).cert)
    PROVE  UseHook(h)
<1> DEFINE c == Head(w.todo).cert
           o == [key |-> PrivateKey(w), cert |-> Issued(c), age |-> AgeOf(Rest, c)]
<1>1. h = HookOf(w.event, <<>> \o Tail(w.todo), w.given, w.req, w.secrets, w.libKey, o, w.deferred)
  <2>1. h = WithOwn(Rest, o)  BY RestFields, Zenon DEF Adopt, WithOwn
  <2> HIDE DEF o
  <2> QED  BY <2>1, RestFields, HookUpdates
<1>2. o.key = PrivateKey(w) /\ o.cert = Issued(c) /\ o.cert # Nothing  BY OwnedFields
<1> HIDE DEF o
<1>3. <<>> \in Seq(Tasks) /\ (\A i \in DOMAIN <<>> : FALSE)  BY AtHand
<1>4. Becomes(h, <<>>, w.req, w.secrets, o, w.deferred)  BY <1>1, <1>3, BecomesHookOf
<1>5. PrivateKey(h) = PrivateKey(w)
  <2>1. h.given = w.given /\ h.libKey = w.libKey  BY <1>1, HookFields
  <2> QED  BY <2>1 DEF PrivateKey
<1>6. BringsNone(w.deferred)
  <2>1. \A i \in DOMAIN w.deferred : w.deferred[i] \in ToSet(w.deferred) /\ w.deferred[i] \in Deferrals
    BY AtHand, Elements
  <2>2. \A i \in DOMAIN w.deferred : w.deferred[i].do # "available"  BY <2>1, AtHand
  <2> QED  BY <2>1, <2>2, CertFields DEF BringsNone, Brings
<1>7. Chosen(<<>>, w.deferred, o, c)  BY <1>2, <1>6, BringsEmpty DEF Chosen
<1> QED  BY <1>2, <1>3, <1>4, <1>5, <1>7, BringUses

-----------------------------------------------------------------------------
(* The steps of the specification keep UseInv while the relation stays     *)

\* What a step within a hook makes of the copy is all that it changes.
LEMMA CopyPrimed ==
    ASSUME UseState, UseHook(w'), UNCHANGED <<req, prov, secrets, libKey, own, deferred, events>>
    PROVE  UseInv'
<1>1. LiveCerts' = LiveCerts /\ Unseen' = Unseen
  BY DEF LiveCerts, OfferedCerts, Waiting, OwnCerts, Unseen
<1>2. UnseenBy(w') = UnseenBy(w)'  BY <1>1 DEF UnseenBy, Finds
<1>3. PrivateKey(w') = PrivateKey(w)'  BY DEF PrivateKey
<1>4. SendsClean(w)'  BY <1>3 DEF UseHook, SendsClean, Clean
<1>5. (\A t \in w.secrets : t.cert \in LiveCerts)'  BY <1>1 DEF UseHook
<1>6. Used(w.todo, w.deferred, w.own, w.req, w.secrets, UnseenBy(w), PrivateKey(w))'
  <2>1. Used(w'.todo, w'.deferred, w'.own, w'.req, w'.secrets, UnseenBy(w)', PrivateKey(w)')
    BY <1>2, <1>3 DEF UseHook
  <2> QED  BY <2>1 DEF Used, OneRequestEach, Chosen, BringsLast, BringsNone, Brings
<1>7. NextKey' = NextKey  BY DEF NextKey
<1>8. UseState'
  BY <1>1, <1>7 DEF UseState, OneOfferEach, Used, OneRequestEach, Chosen, BringsLast, BringsNone, Brings
<1> QED  BY <1>4, <1>5, <1>6, <1>8 DEF UseInv, UseHook

LEMMA StepUses ==
    ASSUME Inv, RenewInv, UseInv, rel # "dying", Step
    PROVE  UseInv'
<1>1. HookInv(w) /\ w.todo # <<>> /\ RenewHook(w) /\ UseHook(w) /\ UseState /\ OneOfferEach
  BY DEF Inv, RenewInv, UseInv, UseState, Step
<1>2. w' = Run(Head(w.todo), Rest) /\ (NeedsKeytool(Head(w.todo)) => installed)
  BY DEF Step, Rest
<1>3. UNCHANGED <<req, prov, secrets, libKey, own, deferred, events>>
  BY DEF Step, unitVars, envVars
<1>4. UseHook(w')
  <2> DEFINE t == Head(w.todo)
  <2>1. t \in Tasks /\ TaskInv(t, w)
    <3>1. w.todo \in Seq(Tasks)  BY <1>1, HooksAre DEF HookInv
    <3>2. 1 \in DOMAIN w.todo /\ Head(w.todo) = w.todo[1]  BY <1>1, <3>1
    <3> QED  BY <1>1, <3>1, <3>2 DEF HookInv
  <2>2. t.do \in {"ensure", "cleanup", "send", "find", "config", "init", "available", "adopt",
                  "expired", "offer", "broken"}
    BY <2>1, TaskFields
  <2>3. At(t.do)  BY <1>1 DEF At
  <2>4. t.do # "broken"  BY <1>1, <2>1 DEF TaskInv, HookInv
  <2> HIDE DEF t
  <2>5. w' = Run(t, Rest)  BY <1>2 DEF t
  <2>6. CASE t.do = "ensure"
    <3>1. w' = EnsurePrivateKey(Rest)  BY <2>5, <2>6, Zenon DEF Run
    <3> QED  BY <3>1, <2>3, <2>6, <1>1, EnsureUses
  <2>7. CASE t.do = "cleanup"
    <3>1. w' = CleanupRequests(Rest)  BY <2>5, <2>7 DEF Run
    <3> QED  BY <3>1, <2>3, <2>7, <1>1, CleanupUses
  <2>8. CASE t.do = "send"
    <3>1. w' = SendRequests(Rest)  BY <2>5, <2>8 DEF Run
    <3> QED  BY <3>1, <2>3, <2>8, <1>1, SendUses
  <2>9. CASE t.do = "find"
    <3>1. w' = FindAvailable(Rest)  BY <2>5, <2>9 DEF Run
    <3> QED  BY <3>1, <2>3, <2>9, <1>1, FindUses
  <2>10. CASE t.do = "offer"
    <3>1. w' = TakeOffer(Rest, t.offer)  BY <2>5, <2>10 DEF Run
    <3> QED  BY <3>1, <2>3, <2>10, <1>1, OfferUses DEF t
  <2>11. CASE t.do = "available"
    <3>1. w' = CertificateAvailable(Rest, t.cert)  BY <2>5, <2>11 DEF Run
    <3> QED  BY <3>1, <2>3, <2>11, <1>1, AvailableUses DEF t
  <2>12. CASE t.do = "adopt"
    <3>1. w' = Adopt(Rest, t.cert)  BY <2>5, <2>12 DEF Run
    <3>2. installed  BY <2>12, <1>2 DEF NeedsKeytool, t
    <3> QED  BY <3>1, <3>2, <2>3, <2>12, <1>1, AdoptUses DEF t
  <2>13. CASE t.do = "config"
    <3>1. w' = ConfigChanged(Rest)  BY <2>5, <2>13 DEF Run
    <3> QED  BY <3>1, <2>3, <2>13, <1>1, ConfigUses
  <2>14. CASE t.do = "init"
    <3>1. w' = InitUnitTls(Rest)  BY <2>5, <2>14 DEF Run
    <3>2. (w.own.cert = Nothing \/ w.own.key = NoKey) => installed
      BY <2>14, <1>2 DEF NeedsKeytool, t
    <3> QED  BY <3>1, <3>2, <2>3, <2>14, <1>1, InitUses
  <2>15. CASE t.do = "expired"
    <3>1. w' = SecretExpired(Rest, t.cert)  BY <2>5, <2>15 DEF Run
    <3> QED  BY <3>1, <2>3, <2>15, <1>1, ExpiredUses DEF t
  <2> QED  BY <2>2, <2>4, <2>6, <2>7, <2>8, <2>9, <2>10, <2>11, <2>12, <2>13, <2>14, <2>15
<1> QED  BY <1>1, <1>3, <1>4, CopyPrimed

LEMMA BeginUses ==
    ASSUME Inv, RenewInv, UseInv, NEW e \in HookEvents, NEW todo \in Seq(Tasks), Begin(e, todo),
           \A i \in DOMAIN todo :
               /\ todo[i].do \notin {"available", "adopt", "offer"}
               /\ todo[i].do = "send" => \E j \in DOMAIN todo : j < i /\ todo[j].do = "cleanup",
           e # "changed" \/ rel = "none" \/ \E i \in DOMAIN todo : todo[i].do = "find"
    PROVE  UseInv'
<1> DEFINE all == deferred \o todo
<1>1. w' = HookOf(e, all, own.key, req, secrets, libKey, own, <<>>)
  BY Zenon DEF Begin, Copy, HookOf
<1>2. UNCHANGED <<req, prov, secrets, libKey, own, deferred, events>>
  BY DEF Begin, unitVars, envVars
<1>3. deferred \in Seq(Tasks) /\ deferred \in Seq(Deferrals)
  BY DeferralsAreTasks DEF Inv, TypeOK
<1>4. /\ all \in Seq(Tasks)
      /\ \A i \in DOMAIN all :
            \/ i \in DOMAIN deferred /\ all[i] = deferred[i]
            \/ i > Len(deferred) /\ i - Len(deferred) \in DOMAIN todo
               /\ all[i] = todo[i - Len(deferred)]
      /\ \A j \in DOMAIN todo :
            Len(deferred) + j \in DOMAIN all /\ all[Len(deferred) + j] = todo[j]
  BY <1>3, Appended
<1>5. BringsNone(todo)  BY DEF BringsNone, Brings
<1>6. /\ BringsNone(all) <=> BringsNone(deferred)
      /\ \A c : BringsLast(all, c) <=> BringsLast(deferred, c)
  <2>1. \A c : ~BringsLast(todo, c)  BY <1>5 DEF BringsLast, BringsNone
  <2> QED  BY <1>3, <1>5, <2>1, BringsJoined
<1>7. Len(deferred) \in Nat /\ DOMAIN deferred = 1..Len(deferred) /\ DOMAIN todo = 1..Len(todo)
      /\ Len(todo) \in Nat /\ DOMAIN all = 1..Len(all) /\ Len(all) \in Nat
  BY <1>3, <1>4
<1> HIDE DEF all
<1>8. PICK q : q = <<>>  BY Zenon
<1>9. /\ w'.event = e /\ w'.todo = all /\ w'.req = req /\ w'.given = own.key /\ w'.libKey = libKey
      /\ w'.secrets = secrets /\ w'.own = own /\ w'.deferred = q
  <2>1. w' = HookOf(e, all, own.key, req, secrets, libKey, own, q)  BY <1>1, <1>8, Zenon
  <2> QED  BY <2>1, HookFields
<1>10. BringsNone(q) /\ \A c : ~BringsLast(q, c)  BY <1>8, BringsEmpty
<1>11. UseState  BY DEF UseInv
<1>12. PrivateKey(w') = NextKey  BY <1>9 DEF PrivateKey, NextKey
<1>13. SendsClean(w')
  <2> SUFFICES ASSUME NEW i \in DOMAIN all, all[i].do = "send"
               PROVE  \E j \in DOMAIN all : j < i /\ all[j].do = "cleanup"
    BY <1>9 DEF SendsClean
  <2>1. ~(i \in DOMAIN deferred /\ all[i] = deferred[i])
    <3>1. \A j \in DOMAIN deferred : deferred[j] \in Deferrals  BY <1>3, Elements
    <3> QED  BY <3>1, CertFields
  <2>2. i > Len(deferred) /\ i - Len(deferred) \in DOMAIN todo /\ all[i] = todo[i - Len(deferred)]
    BY <1>4, <2>1
  <2>3. PICK j \in DOMAIN todo : j < i - Len(deferred) /\ todo[j].do = "cleanup"  BY <2>2
  <2>4. Len(deferred) + j < i  BY <1>7, <2>3
  <2> QED  BY <1>4, <2>3, <2>4
<1>14. Unseen \subseteq UnseenBy(w')
  <2>1. CASE rel = "none"  BY <2>1 DEF RenewInv, RenewState, Unseen, ToSet
  <2>2. CASE e # "changed"  BY <1>9, <2>2 DEF UnseenBy, Finds
  <2>3. CASE \E i \in DOMAIN todo : todo[i].do = "find"
    <3>1. \E i \in DOMAIN all : all[i].do = "find"  BY <1>4, <2>3
    <3> QED  BY <1>9, <3>1 DEF UnseenBy, Finds
  <2> QED  BY <2>1, <2>2, <2>3
<1>15. Used(all, q, own, req, secrets, UnseenBy(w'), NextKey)
  <2>1. Used(<<>>, deferred, own, req, secrets, Unseen, NextKey)  BY <1>11 DEF UseState
  <2>2. \A c : Chosen(<<>>, deferred, own, c) => Chosen(all, q, own, c)
    BY <1>6, <1>10, BringsEmpty DEF Chosen
  <2>3. BringsNone(<<>>)  BY BringsEmpty
  <2> QED  BY <1>6, <1>14, <2>1, <2>2, <2>3 DEF Used
<1>16. \A t \in secrets : t.cert \in LiveCerts  BY DEF LiveCerts
<1>17. UseHook(w')  BY <1>9, <1>12, <1>13, <1>15, <1>16 DEF UseHook
<1> QED  BY <1>2, <1>11, <1>17, CopyPrimed

LEMMA HooksBeginUses ==
    ASSUME Inv, RenewInv, UseInv, rel # "dying",
           RelationHook \/ BrokenHook \/ ConfigHook \/ SecretHook \/ StatusHook
    PROVE  UseInv'
<1>1. CASE RelationHook
  <2>1. PICK e \in {"created", "changed"} :
            Begin(e, IF rel = "none" THEN <<>> ELSE ConfigureTasks)
    BY <1>1 DEF RelationHook
  <2>2. e \in HookEvents  BY DEF HookEvents
  <2>3. CASE rel = "none"
    <3>1. Begin(e, <<>>)  BY <2>1, <2>3
    <3>2. \A i \in DOMAIN <<>> : FALSE  OBVIOUS
    <3> QED  BY <2>2, <2>3, <3>1, <3>2, ToDoTypes, BeginUses
  <2>4. CASE rel # "none"
    <3>1. Begin(e, ConfigureTasks)  BY <2>1, <2>4
    <3>2. /\ DOMAIN ConfigureTasks = {1, 2, 3, 4} /\ ConfigureTasks[1].do = "ensure"
          /\ ConfigureTasks[2].do = "cleanup" /\ ConfigureTasks[3].do = "send"
          /\ ConfigureTasks[4].do = "find"
      BY DEF ConfigureTasks
    <3>3. \A i \in DOMAIN ConfigureTasks :
             /\ ConfigureTasks[i].do \notin {"available", "adopt", "offer"}
             /\ ConfigureTasks[i].do = "send" =>
                   \E j \in DOMAIN ConfigureTasks : j < i /\ ConfigureTasks[j].do = "cleanup"
      <4>1. 2 \in DOMAIN ConfigureTasks /\ 2 < 3  BY <3>2
      <4> QED  BY <3>2, <4>1
    <3>4. \E i \in DOMAIN ConfigureTasks : ConfigureTasks[i].do = "find"
      <4>1. 4 \in DOMAIN ConfigureTasks  BY <3>2
      <4> QED  BY <3>2, <4>1
    <3> QED  BY <2>2, <3>1, <3>3, <3>4, ToDoTypes, BeginUses
  <2> QED  BY <2>3, <2>4
<1>2. CASE BrokenHook
  BY <1>2 DEF BrokenHook, Inv, StateInv
<1>3. CASE ConfigHook \/ StatusHook
  <2>1. PICK e \in {"config", "status"} : Begin(e, <<[do |-> "config"]>>)
    BY <1>3 DEF ConfigHook, StatusHook
  <2>2. PICK t : t = [do |-> "config"] /\ t.do = "config"
    <3>1. [do |-> "config"].do = "config"  OBVIOUS
    <3> QED  BY <3>1, Zenon
  <2>3. <<t>> \in Seq(Tasks) /\ Begin(e, <<t>>)  BY <2>1, <2>2, ToDoTypes, Zenon
  <2>4. \A i \in DOMAIN <<t>> : <<t>>[i].do = "config"  BY <2>2
  <2>5. e \in HookEvents /\ e # "changed"  BY DEF HookEvents
  <2> QED  BY <2>3, <2>4, <2>5, BeginUses
<1>4. CASE SecretHook
  <2>1. PICK s \in secrets : Begin("secret", <<[do |-> "expired", cert |-> s.cert]>>)
    BY <1>4 DEF SecretHook
  <2>2. s.cert \in Certs  BY CertFields DEF Inv, TypeOK
  <2>3. PICK t : t = [do |-> "expired", cert |-> s.cert] /\ t.do = "expired"
    <3>1. [do |-> "expired", cert |-> s.cert].do = "expired"  OBVIOUS
    <3> QED  BY <3>1, Zenon
  <2>4. <<t>> \in Seq(Tasks) /\ Begin("secret", <<t>>)  BY <2>1, <2>2, <2>3, ToDoTypes, Zenon
  <2>5. \A i \in DOMAIN <<t>> : <<t>>[i].do = "expired"  BY <2>3
  <2>6. "secret" \in HookEvents  BY DEF HookEvents
  <2> QED  BY <2>4, <2>5, <2>6, BeginUses
<1> QED  BY <1>1, <1>2, <1>3, <1>4

LEMMA FailUses ==
    ASSUME UseInv, Fail
    PROVE  UseInv'
<1>1. UNCHANGED <<req, prov, secrets, libKey, own, deferred, events>> /\ w' = NoHook
  BY DEF Fail, unitVars, envVars
<1>2. Unseen' = Unseen /\ NextKey' = NextKey  BY <1>1 DEF Unseen, NextKey
<1> QED
  BY <1>1, <1>2 DEF UseInv, UseState, OneOfferEach, Used, OneRequestEach, Chosen, BringsLast, BringsNone,
                    Brings, Idle

LEMMA CommitUses ==
    ASSUME Inv, UseInv, rel # "dying", Commit
    PROVE  UseInv'
<1>1. HookInv(w) /\ UseHook(w) /\ w.todo = <<>> /\ w' = NoHook /\ StateInv /\ UseState
  BY DEF Inv, UseInv, Commit
<1>2. /\ req' = w.req /\ secrets' = w.secrets /\ own' = w.own /\ deferred' = w.deferred
      /\ libKey' = w.libKey
  BY DEF Commit
<1>3. Idle'  BY <1>1 DEF Idle, NoHook
<1>4. events' = events \ {w.event} /\ UNCHANGED prov  BY <1>1 DEF Commit, HookInv
<1>5. UnseenBy(w) \subseteq Unseen'
  <2>1. \A i \in DOMAIN w.todo : FALSE  BY <1>1
  <2>2. CASE w.event = "changed"  BY <2>1, <2>2 DEF UnseenBy, Finds
  <2>3. CASE w.event # "changed"  BY <1>4, <2>3 DEF UnseenBy, Unseen
  <2> QED  BY <2>2, <2>3
<1>6. Used(<<>>, w.deferred, w.own, w.req, w.secrets, UnseenBy(w), PrivateKey(w))
  BY <1>1 DEF UseHook
<1>7. NextKey' = IF w.own.key # NoKey THEN w.own.key ELSE w.libKey  BY <1>2 DEF NextKey
<1>8. w.secrets # {} => NextKey' = PrivateKey(w)
  <2>1. CASE ~BringsNone(w.deferred)
    <3>1. PICK i \in DOMAIN w.deferred : Brings(w.deferred[i])  BY <2>1 DEF BringsNone
    <3>2. w.deferred[i] \in ToSet(w.deferred) /\ w.deferred[i] \in Deferrals
      BY <1>1, HooksAre, Elements DEF HookInv
    <3>3. w.deferred[i].do = "available"  BY <3>1, <3>2, CertFields DEF Brings
    <3>4. ~installed  BY <1>1, <3>2, <3>3 DEF HookInv
    <3>5. w.own.key = NoKey /\ w.given = NoKey  BY <1>1, <3>4 DEF HookInv, StateInv
    <3> QED  BY <1>7, <3>5 DEF PrivateKey
  <2>2. CASE w.own.cert # Nothing /\ w.own.key = PrivateKey(w)
    <3>1. w.own.key # NoKey  BY <1>1, <2>2 DEF HookInv, KeyInv
    <3> QED  BY <1>7, <2>2, <3>1
  <2> QED  BY <1>6, <2>1, <2>2, BringsEmpty DEF Used
<1>9. Used(<<>>, w.deferred, w.own, w.req, w.secrets, Unseen', NextKey')
  BY <1>5, <1>6, <1>8 DEF Used
<1>10. UseState'
  <2>1. OneOfferEach'  BY <1>1, <1>4 DEF UseState, OneOfferEach
  <2>2. Used(<<>>, deferred, own, req, secrets, Unseen, NextKey)'
    BY <1>2, <1>4, <1>9 DEF Used, OneRequestEach, Chosen, BringsLast, BringsNone, Brings
  <2> QED  BY <2>1, <2>2 DEF UseState
<1> QED  BY <1>3, <1>10 DEF UseInv

\* Steps that leave the unit's data alone, with every offer still to be looked at, or
\* taken.
LEMMA OutsideUses ==
    ASSUME UseInv, Idle, w' = w, UNCHANGED unitVars, OneOfferEach',
           \A x \in ToSet(prov') :
               ~x.revoked /\ ~x.cert.ca /\ x.cert.csr \in ToSet(req) /\ x \notin Unseen' =>
                   \E t \in secrets : t.cert = x.cert
    PROVE  UseInv'
<1>1. UNCHANGED <<req, secrets, libKey, own, deferred, w>>  BY DEF unitVars
<1>2. Idle'  BY <1>1 DEF Idle, NoHook
<1>3. Used(<<>>, deferred, own, req, secrets, Unseen, NextKey)  BY DEF UseInv, UseState
<1>4. NextKey' = NextKey  BY <1>1 DEF NextKey
<1>5. Used(<<>>, deferred, own, req, secrets, Unseen, NextKey)'
  BY <1>1, <1>3, <1>4 DEF Used, OneRequestEach, Chosen, BringsLast, BringsNone, Brings
<1> QED  BY <1>2, <1>5 DEF UseInv, UseState

LEMMA OperatorUses ==
    ASSUME UseInv, Relate \/ Unrelate \/ Move \/ GetReady
    PROVE  UseInv'
<1>1. Idle /\ w' = w /\ UNCHANGED unitVars /\ UNCHANGED prov /\ events \subseteq events'
  BY DEF Relate, Unrelate, Move, GetReady
<1>2. Unseen \subseteq Unseen'  BY <1>1 DEF Unseen
<1>3. OneOfferEach'  BY <1>1 DEF UseInv, UseState, OneOfferEach
<1>4. \A x \in ToSet(prov') :
         ~x.revoked /\ ~x.cert.ca /\ x.cert.csr \in ToSet(req) /\ x \notin Unseen' =>
             \E t \in secrets : t.cert = x.cert
  BY <1>1, <1>2 DEF UseInv, UseState, Used
<1> QED  BY <1>1, <1>3, <1>4, OutsideUses

\* Whatever the provider does, the unit is told to look at all that is on offer.
LEMMA OfferUsesAll ==
    ASSUME UseInv, NEW new, Offer(new),
           \A o, p \in ToSet(new) : o.cert.csr = p.cert.csr => o = p
    PROVE  UseInv'
<1>1. prov' = new /\ events' = events \cup {"changed"} /\ Idle /\ w' = w /\ UNCHANGED unitVars
  BY DEF Offer
<1>2. Unseen' = ToSet(prov')  BY <1>1 DEF Unseen
<1>3. OneOfferEach'  BY <1>1 DEF OneOfferEach
<1> QED  BY <1>1, <1>2, <1>3, OutsideUses

LEMMA SetCertificateUses ==
    ASSUME Inv, UseInv, NEW csr, NEW isCa, SetRelationCertificate(csr, isCa)
    PROVE  UseInv'
<1> DEFINE free == {n \in 1..MaxSerials : \A c \in LiveCerts : c.csr = csr => c.serial # n}
           S == {o \in ToSet(Tidied) : o.cert.csr # csr}
           kept == Select(Tidied, S)
           offer == [cert |-> [csr |-> csr, serial |-> Smallest(free), ca |-> isCa],
                     revoked |-> FALSE]
<1>1. Offer(Append(kept, offer))  BY DEF SetRelationCertificate
<1>2. offer.cert.csr = csr  OBVIOUS
<1> HIDE DEF offer
<1>3. kept \in Seq(Offers) /\ \A o \in ToSet(kept) : o \in ToSet(prov) /\ o.cert.csr # csr
  BY TidiedIs, SelectFrom
<1> HIDE DEF kept
<1>4. ToSet(Append(kept, offer)) = ToSet(kept) \cup {offer}  BY <1>3, AppendElements
<1>5. \A o, p \in ToSet(Append(kept, offer)) : o.cert.csr = p.cert.csr => o = p
  BY <1>2, <1>3, <1>4 DEF UseInv, UseState, OneOfferEach
<1> QED  BY <1>1, <1>5, OfferUsesAll

LEMMA ProviderUses ==
    ASSUME Inv, UseInv, Provider \/ ProviderReplaces \/ RevokeAllCertificates
    PROVE  UseInv'
<1>1. CASE ProviderTidies
  <2>1. Offer(Tidied)  BY <1>1 DEF ProviderTidies
  <2>2. \A o, p \in ToSet(Tidied) : o.cert.csr = p.cert.csr => o = p
    BY TidiedIs DEF UseInv, UseState, OneOfferEach
  <2> QED  BY <2>1, <2>2, OfferUsesAll
<1>2. CASE ProviderIssues
  <2>1. PICK csr \in ToSet(req) : SetRelationCertificate(csr, FALSE)  BY <1>2 DEF ProviderIssues
  <2>2. PICK no : no = FALSE  BY Zenon
  <2>3. SetRelationCertificate(csr, no)  BY <2>1, <2>2, Zenon
  <2> QED  BY <2>3, SetCertificateUses
<1>3. CASE ProviderReplaces
  <2>1. PICK csr \in ToSet(req), isCa \in BOOLEAN : SetRelationCertificate(csr, isCa)
    BY <1>3, Zenon DEF ProviderReplaces
  <2> QED  BY <2>1, SetCertificateUses
<1>4. CASE RevokeAllCertificates
  <2> DEFINE new == [i \in DOMAIN prov |-> [prov[i] EXCEPT !.revoked = TRUE]]
  <2>1. Offer(new)  BY <1>4, Zenon DEF RevokeAllCertificates
  <2>2. prov \in Seq(Offers)  BY DEF Inv, TypeOK
  <2>3. \A x \in ToSet(new) : \E o \in ToSet(prov) : x = [o EXCEPT !.revoked = TRUE]  BY DEF ToSet
  <2> HIDE DEF new
  <2>4. \A o \in ToSet(prov) : [o EXCEPT !.revoked = TRUE].cert = o.cert
    <3>1. ToSet(prov) \subseteq Offers  BY <2>2, Elements
    <3> QED  BY <3>1 DEF Offers
  <2>5. ASSUME NEW x \in ToSet(new), NEW y \in ToSet(new), x.cert.csr = y.cert.csr PROVE x = y
    <3>1. PICK o \in ToSet(prov) : x = [o EXCEPT !.revoked = TRUE]  BY <2>3
    <3>2. PICK p \in ToSet(prov) : y = [p EXCEPT !.revoked = TRUE]  BY <2>3
    <3>3. o.cert.csr = p.cert.csr  BY <2>4, <2>5, <3>1, <3>2
    <3>4. o = p  BY <3>3 DEF UseInv, UseState, OneOfferEach
    <3> QED  BY <3>1, <3>2, <3>4, Zenon
  <2> QED  BY <2>1, <2>5, OfferUsesAll
<1> QED  BY <1>1, <1>2, <1>3, <1>4 DEF Provider

\* Time changes ages only.
LEMMA AgeUses ==
    ASSUME Inv, UseInv, Age
    PROVE  UseInv'
<1>1. PICK c :
         /\ secrets' = {IF s.cert = c THEN [s EXCEPT !.age = Later(s.age)] ELSE s : s \in secrets}
         /\ own' = IF own.cert = Issued(c) THEN [own EXCEPT !.age = Later(own.age)] ELSE own
  BY Zenon DEF Age
<1>2. Idle /\ UNCHANGED <<w, req, prov, libKey, events, deferred>>  BY DEF Age
<1>3. secrets \subseteq Secrets /\ own \in Owns  BY DEF Inv, TypeOK, StateInv
<1>4. \A s \in Secrets : [s EXCEPT !.age = Later(s.age)].cert = s.cert  BY DEF Secrets
<1>5. \A s \in secrets : \E t \in secrets' : t.cert = s.cert
  <2> TAKE s \in secrets
  <2>1. (IF s.cert = c THEN [s EXCEPT !.age = Later(s.age)] ELSE s) \in secrets'  BY <1>1, Zenon
  <2> QED  BY <1>3, <1>4, <2>1
<1>6. \A t \in secrets' : \E s \in secrets : t.cert = s.cert
  <2> TAKE t \in secrets'
  <2>1. PICK s \in secrets : t = IF s.cert = c THEN [s EXCEPT !.age = Later(s.age)] ELSE s
    BY <1>1, Zenon
  <2> QED  BY <1>3, <1>4, <2>1
<1>7. own'.cert = own.cert /\ own'.key = own.key
  <2> DEFINE later == [own EXCEPT !.age = Later(own.age)]
  <2>1. later.cert = own.cert /\ later.key = own.key  BY <1>3 DEF Owns
  <2>2. own' = IF own.cert = Issued(c) THEN later ELSE own  BY <1>1
  <2> HIDE DEF later
  <2> QED  BY <2>1, <2>2
<1>8. Unseen' = Unseen /\ NextKey' = NextKey  BY <1>2, <1>7 DEF Unseen, NextKey
<1>9. Used(<<>>, deferred, own, req, secrets, Unseen, NextKey) /\ OneOfferEach
  BY DEF UseInv, UseState
<1>10. \A x : Chosen(<<>>, deferred, own, x) => Chosen(<<>>, deferred, own', x)
  BY <1>7 DEF Chosen
<1>11. Used(<<>>, deferred, own', req, secrets', Unseen, NextKey)
  <2>1. secrets' # {} => secrets # {}  BY <1>6
  <2>2. \A t \in secrets' : t.cert.csr \in ToSet(req) => Chosen(<<>>, deferred, own', t.cert)
    BY <1>6, <1>9, <1>10 DEF Used
  <2>3. \A x \in ToSet(prov) :
           ~x.revoked /\ ~x.cert.ca /\ x.cert.csr \in ToSet(req) /\ x \notin Unseen =>
               \E t \in secrets' : t.cert = x.cert
    BY <1>5, <1>9 DEF Used
  <2> QED  BY <1>7, <1>9, <2>1, <2>2, <2>3 DEF Used
<1>12. UseState'
  <2>1. Used(<<>>, deferred, own, req, secrets, Unseen, NextKey)'
    BY <1>2, <1>8, <1>11 DEF Used, OneRequestEach, Chosen, BringsLast, BringsNone, Brings
  <2> QED  BY <1>2, <1>9, <2>1 DEF UseState, OneOfferEach
<1>13. Idle'  BY <1>2 DEF Idle, NoHook
<1> QED  BY <1>12, <1>13 DEF UseInv

LEMMA InitUse ==
    ASSUME Init
    PROVE  UseInv
<1>1. prov = <<>> /\ req = <<>> /\ secrets = {} /\ Idle  BY DEF Init, Idle
<1>2. ToSet(<<>>) = {}  BY DEF ToSet
<1> QED  BY <1>1, <1>2 DEF UseInv, UseState, OneOfferEach, Used, OneRequestEach

LEMMA StutterUses ==
    ASSUME UseInv, UNCHANGED vars
    PROVE  UseInv'
<1>1. UNCHANGED <<req, prov, secrets, libKey, own, deferred, events, w>>
  BY DEF vars, unitVars, envVars
<1>2. CASE Idle
  <2>1. Unseen' = Unseen /\ OneOfferEach'  BY <1>1 DEF Unseen, UseInv, UseState, OneOfferEach
  <2>2. UNCHANGED unitVars  BY <1>1 DEF unitVars
  <2> QED  BY <1>1, <1>2, <2>1, <2>2, OutsideUses DEF UseInv, UseState, Used
<1>3. CASE UseHook(w)
  <2>1. UseHook(w')  BY <1>1, <1>3
  <2> QED  BY <1>1, <2>1, CopyPrimed DEF UseInv
<1> QED  BY <1>2, <1>3 DEF UseInv

LEMMA NextUses ==
    ASSUME Inv, RenewInv, UseInv, rel # "dying", [Next]_vars
    PROVE  UseInv'
BY StepUses, HooksBeginUses, FailUses, CommitUses, ProviderUses, OperatorUses, AgeUses, StutterUses
   DEF Next, UnitHooks

LEMMA UseIsUse ==
    ASSUME UseState
    PROVE  OfferIsUsed
<1> SUFFICES ASSUME events = {}, deferred = <<>>, NEW o \in ToSet(prov), ~o.revoked, ~o.cert.ca,
                    o.cert.csr \in ToSet(req)
             PROVE  o.cert \in OwnCerts
  BY DEF OfferIsUsed
<1>1. Unseen = {}  BY DEF Unseen
<1>2. PICK t \in secrets : t.cert = o.cert  BY <1>1 DEF UseState, Used
<1>3. Chosen(<<>>, deferred, own, o.cert)  BY <1>2 DEF UseState, Used
<1>4. own.cert = Issued(o.cert)  BY <1>3, BringsEmpty DEF Chosen
<1> QED  BY <1>4, OwnedFields DEF OwnCerts

\* A unit whose relation is never removed uses what it is offered once nothing is left
\* to handle, for any course of hooks, failures, moves, replacements, revocations and
\* mistakes of the provider. (The secrets that two removals leave ask for a renewal
\* each; the two requests are alike and both are answered, see README, section 5.)
THEOREM OffersAreUsed == Spec => ([](rel # "dying") => []OfferIsUsed)
<1>1. Init => RenewInv /\ UseInv  BY InitRenewal, InitUse
<1>2. Inv /\ RenewInv /\ [Next]_vars => RenewInv'  BY NextRenews
<1>3. Inv /\ RenewInv /\ UseInv /\ rel # "dying" /\ [Next]_vars => UseInv'  BY NextUses
<1>4. UseInv => OfferIsUsed  BY UseIsUse DEF UseInv
<1> QED  BY <1>1, <1>2, <1>3, <1>4, Inductive, PTL DEF Spec

=============================================================================
