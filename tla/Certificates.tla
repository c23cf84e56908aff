---------------------------- MODULE Certificates ----------------------------
(***************************************************************************)
(* How one unit of Kafka UI gets, renews and loses the certificate it      *)
(* identifies itself with: the requirer side of the tls-certificates       *)
(* library (TLSCertificatesRequiresV4), the charm's TLSHandler on top of   *)
(* it, and the provider side of the same library under a provider that     *)
(* issues, replaces and revokes certificates.                              *)
(*                                                                         *)
(* A hook works on a copy of the unit's databag, secrets and deferred      *)
(* events, one handler or library function a step, in the order of the     *)
(* code.  Juju takes the copy over when the hook ends and drops it when    *)
(* the hook fails, to run it again.  What a hook reads was fixed when it   *)
(* began and what it writes is seen when it has ended, so that the others' *)
(* steps that fall into it may as well come before or after it.  Files are *)
(* UnitAgent's subject and left out.                                       *)
(*                                                                         *)
(* A private key, a request and a certificate are identities: a request    *)
(* carries a unique identifier and is never generated twice alike.         *)
(* Identities that nothing refers to any more are used again.              *)
(***************************************************************************)
EXTENDS Integers, Sequences, SequencesExt, FiniteSets

CONSTANTS
    MaxKeys,      \* bound: private keys in use at a time
    MaxRequests,  \* bound: requests in use at a time
    MaxSerials,   \* bound: certificates in use for one request
    Addresses,    \* what build_sans may put into the request
    FirstAddress, \* what it puts there at first
    MaxDeferred,  \* bound: events a unit keeps deferred
    Disturbances, \* the kinds of disturbance that may happen
    MaxDisturbed  \* bound: how many of them happen

NoKey    == 0
Keys     == 1..MaxKeys
Requests == [id : 1..MaxRequests, key : Keys, san : Addresses]
\* A certificate answers a request; a provider may wrongly issue one for a CA.
Certs    == [csr : Requests, serial : 1..MaxSerials, ca : BOOLEAN]
\* What the unit databag holds in CERT, CA and CHAIN.
Nothing    == [by |-> "none"]
SelfSigned == [by |-> "self"]
Issued(c)  == [by |-> "provider", cert |-> c]

ASSUME KeysAssumption     == MaxKeys \in Nat /\ MaxRequests \in Nat /\ MaxSerials \in Nat
ASSUME NamesAssumption    == FirstAddress \in Addresses /\ MaxDeferred \in Nat /\ MaxDisturbed \in Nat
ASSUME DisturbAssumption  ==
    Disturbances \subseteq {"unrelate", "move", "replace", "revoke", "mistake"}

VARIABLES
    rel,       \* the certificates relation, as the unit sees it
    req,       \* certificate_signing_requests in the unit's databag
    prov,      \* certificates in the provider's databag
    secrets,   \* the certificate secrets of the unit, one for a request
    libKey,    \* the private key the library generated, in its secret
    own,       \* key and certificate in the peer unit databag
    installed, \* workload.installed
    appReady,  \* the leader has created the application's passwords
    address,   \* what build_sans returns now
    events,    \* Juju events that wait for this unit
    deferred,  \* events the charm deferred, oldest first
    w,         \* the hook that runs: its event, its copy, what is left to do
    disturbed  \* disturbances so far

unitVars == <<req, secrets, libKey, own, deferred>>
envVars  == <<installed, appReady, address>>
vars == <<rel, req, prov, secrets, libKey, own, installed, appReady, address,
          events, deferred, w, disturbed>>

Phases == <<"fresh", "due", "expired">>
Offers == [cert : Certs, revoked : BOOLEAN]
\* expire: the phase of its certificate in which the secret expires; replaced:
\* its content was set again after it was created.
Secrets == [cert : Certs, age : ToSet(Phases), expire : {"due", "expired"}, replaced : BOOLEAN]
Deferrals == [do : {"config"}] \cup [do : {"available"}, cert : Certs]
Owned == {Nothing, SelfSigned} \cup {Issued(c) : c \in Certs}

TypeOK ==
    /\ rel \in {"none", "up", "dying"}
    /\ req \in Seq(Requests) /\ prov \in Seq(Offers)
    /\ secrets \subseteq Secrets
    /\ \A s, t \in secrets : s.cert.csr = t.cert.csr => s = t
    /\ libKey \in Keys \cup {NoKey}
    /\ own.key \in Keys \cup {NoKey} /\ own.cert \in Owned /\ own.age \in ToSet(Phases)
    /\ installed \in BOOLEAN /\ appReady \in BOOLEAN /\ address \in Addresses
    /\ events \subseteq {"created", "changed", "broken", "config"}
    /\ deferred \in Seq(Deferrals)
    /\ disturbed \in 0..MaxDisturbed

-----------------------------------------------------------------------------
(* What is in use *)

OfferedCerts == {o.cert : o \in ToSet(prov)}
Waiting   == {d.cert : d \in {e \in ToSet(deferred) : e.do = "available"}}
OwnCerts  == IF own.cert.by = "provider" THEN {own.cert.cert} ELSE {}
LiveCerts == OfferedCerts \cup Waiting \cup OwnCerts \cup {s.cert : s \in secrets}
LiveRequests == ToSet(req) \cup {c.csr : c \in LiveCerts}
                \cup (IF w.event = "none" THEN {} ELSE ToSet(w.req))
LiveKeys  == {libKey, own.key} \cup {r.key : r \in LiveRequests}
             \cup (IF w.event = "none" THEN {} ELSE {w.libKey, w.own.key})

\* The elements of a sequence that are in a set, in their order.
Select(seq, S) ==
    LET f[n \in 0..Len(seq)] ==
            IF n = 0 THEN <<>>
            ELSE IF seq[n] \in S THEN Append(f[n - 1], seq[n]) ELSE f[n - 1]
    IN  f[Len(seq)]

Smallest(S) == CHOOSE i \in S : \A j \in S : i <= j
\* The least identity not in use; InBounds keeps them within the bounds.
NewRequestId == Smallest(1..(MaxRequests + 1) \ {r.id : r \in LiveRequests})
NewKey == Smallest(1..(MaxKeys + 2) \ LiveKeys)

-----------------------------------------------------------------------------
(* A hook.  given is the key TLSHandler.__init__ read from the databag.     *)

NoHook == [event |-> "none", todo |-> <<>>]
Idle   == w = NoHook
Copy(event, todo) ==
    [event |-> event, todo |-> todo, given |-> own.key, req |-> req,
     secrets |-> secrets, libKey |-> libKey, own |-> own, deferred |-> <<>>]

ConfigureTasks == <<[do |-> "ensure"], [do |-> "cleanup"], [do |-> "send"], [do |-> "find"]>>

\* Deferred events come first, in their order.
Begin(event, todo) ==
    /\ Idle
    /\ w' = Copy(event, deferred \o todo)
    /\ UNCHANGED <<rel, prov, unitVars, envVars, events, disturbed>>

RelationHook ==
    \E e \in events \cap {"created", "changed"} :
        /\ e = "changed" => "created" \notin events
        /\ Begin(e, IF rel = "none" THEN <<>> ELSE ConfigureTasks)

BrokenHook ==
    /\ "broken" \in events
    /\ \E leads \in BOOLEAN : Begin("broken", <<[do |-> "broken", leads |-> leads]>>)

ConfigHook == "config" \in events /\ Begin("config", <<[do |-> "config"]>>)

SecretHook ==
    \E s \in secrets :
        /\ s.age = s.expire \/ s.age = "expired"
        /\ Begin("secret", <<[do |-> "expired", cert |-> s.cert]>>)

\* update-status runs when nothing else waits; those that would find nothing
\* to do, or fail, are left out.
StatusHook ==
    /\ events = {} /\ installed
    /\ \/ appReady /\ (own.cert = Nothing \/ [do |-> "config"] \in ToSet(deferred))
       \/ Waiting # {}
    /\ Begin("status", <<[do |-> "config"]>>)

-----------------------------------------------------------------------------
(* What a hook does, one operator for a function of the code: the copy it    *)
(* leaves, and the tasks that come next.                                     *)

\* The library's private_key: the charm's, or else its own.
PrivateKey(s) == IF s.given # NoKey THEN s.given ELSE s.libKey

\* Mutant: the library has no key of its own.
EnsureGivenKey(s) == [s EXCEPT !.libKey = NoKey]

EnsurePrivateKey(s) ==
    [s EXCEPT !.libKey = IF s.given # NoKey THEN NoKey
                         ELSE IF @ # NoKey THEN @ ELSE NewKey]

MatchesAttributes(r) == r.san = address

\* Mutant: requests made with an earlier key stay.
CleanupAttributes(s) ==
    [s EXCEPT !.req = Select(@, {r \in ToSet(@) : MatchesAttributes(r)})]

CleanupRequests(s) ==
    [s EXCEPT !.req =
        Select(@, {r \in ToSet(@) : MatchesAttributes(r) /\ r.key = PrivateKey(s)})]

\* Only the first request with the attributes is looked at.
Requested(s) ==
    LET first == SelectInSeq(s.req, MatchesAttributes)
    IN  first # 0 /\ s.req[first].key = PrivateKey(s)

SendRequests(s) ==
    IF rel = "none" \/ PrivateKey(s) = NoKey \/ Requested(s) THEN s
    ELSE [s EXCEPT !.req = Append(@,
             [id |-> NewRequestId, key |-> PrivateKey(s), san |-> address])]

InitUnitTls(s) ==
    IF s.own.cert # Nothing /\ s.own.key # NoKey THEN s
    ELSE [s EXCEPT !.own = [key |-> NewKey, cert |-> SelfSigned, age |-> "fresh"]]

\* The event has no content, so that handling it twice is handling it once.
DeferConfig(s) ==
    IF [do |-> "config"] \in ToSet(s.deferred) THEN s
    ELSE [s EXCEPT !.deferred = Append(@, [do |-> "config"])]

Then(s, tasks) == [s EXCEPT !.todo = tasks \o @]

ConfigChanged(s) == IF appReady THEN Then(s, <<[do |-> "init"]>>) ELSE DeferConfig(s)

CertificateAvailable(s, c) ==
    IF ~installed
    THEN [s EXCEPT !.deferred = Append(@, [do |-> "available", cert |-> c])]
    ELSE Then(s, <<[do |-> "init"], [do |-> "adopt", cert |-> c], [do |-> "config"]>>)

AgeOf(s, c) ==
    IF \E t \in s.secrets : t.cert = c
    THEN (CHOOSE t \in s.secrets : t.cert = c).age ELSE "due"

Adopt(s, c) ==
    [s EXCEPT !.own = [key |-> PrivateKey(s), cert |-> Issued(c), age |-> AgeOf(s, c)]]

SecretOf(s, csr) == {t \in s.secrets : t.cert.csr = csr}

\* _find_available_certificates: one task for each certificate of the provider.
FindAvailable(s) == Then(s, [i \in DOMAIN prov |-> [do |-> "offer", offer |-> prov[i]]])

\* Mutants: a second certificate for a request is not taken; it is taken beside the
\* first; the secret expires with its certificate.
TakeOfferOnce(s, offer) ==
    LET c   == offer.cert
        old == SecretOf(s, c.csr)
        new == [cert |-> c, age |-> "fresh", replaced |-> FALSE, expire |-> "due"]
    IN  IF c.csr \notin ToSet(s.req) THEN s
        ELSE IF offer.revoked THEN [s EXCEPT !.secrets = @ \ old]
        ELSE IF c.ca \/ ~MatchesAttributes(c.csr) \/ old # {} THEN s
        ELSE Then([s EXCEPT !.secrets = @ \cup {new}], <<[do |-> "available", cert |-> c]>>)
TakeOfferBeside(s, offer) ==
    LET c   == offer.cert
        old == SecretOf(s, c.csr)
        new == [cert |-> c, age |-> "fresh", replaced |-> FALSE, expire |-> "due"]
    IN  IF c.csr \notin ToSet(s.req) THEN s
        ELSE IF offer.revoked THEN [s EXCEPT !.secrets = @ \ old]
        ELSE IF c.ca \/ ~MatchesAttributes(c.csr) \/ \E t \in old : t.cert = c THEN s
        ELSE Then([s EXCEPT !.secrets = @ \cup {new}], <<[do |-> "available", cert |-> c]>>)
TakeOfferLate(s, offer) ==
    LET c   == offer.cert
        old == SecretOf(s, c.csr)
        new == [cert |-> c, age |-> "fresh", replaced |-> old # {}, expire |-> "expired"]
    IN  IF c.csr \notin ToSet(s.req) THEN s
        ELSE IF offer.revoked THEN [s EXCEPT !.secrets = @ \ old]
        ELSE IF c.ca \/ ~MatchesAttributes(c.csr) \/ \E t \in old : t.cert = c THEN s
        ELSE Then([s EXCEPT !.secrets = (@ \ old) \cup {new}],
                  <<[do |-> "available", cert |-> c]>>)

TakeOffer(s, offer) ==
    LET c   == offer.cert
        old == SecretOf(s, c.csr)
        new == [cert |-> c, age |-> "fresh", replaced |-> old # {},
                expire |-> IF old = {} THEN "due" ELSE "expired"]
    IN  IF c.csr \notin ToSet(s.req) THEN s
        ELSE IF offer.revoked THEN [s EXCEPT !.secrets = @ \ old]
        ELSE IF c.ca \/ ~MatchesAttributes(c.csr) \/ \E t \in old : t.cert = c THEN s
        ELSE Then([s EXCEPT !.secrets = (@ \ old) \cup {new}],
                  <<[do |-> "available", cert |-> c]>>)

\* Mutant: the request of the expired certificate stays.
SecretExpiredKeepsRequest(s, c) ==
    IF \A t \in s.secrets : t.cert # c THEN s
    ELSE Then([s EXCEPT !.secrets = {t \in @ : t.cert # c}], <<[do |-> "send"]>>)

\* The secret of a certificate expired: ask again, under a new request.
SecretExpired(s, c) ==
    IF \A t \in s.secrets : t.cert # c THEN s
    ELSE Then([s EXCEPT !.secrets = {t \in @ : t.cert # c},
                        !.req = Select(@, ToSet(@) \ {c.csr})],
              <<[do |-> "send"]>>)

\* Mutant: the leader alone drops the certificate.
RelationBrokenLeader(s, leads) ==
    IF leads THEN Then([s EXCEPT !.own.cert = Nothing, !.own.age = "fresh", !.req = <<>>],
                       <<[do |-> "config"]>>)
    ELSE [s EXCEPT !.req = <<>>]

\* Only the leader goes on to config-changed.
RelationBroken(s, leads) ==
    Then([s EXCEPT !.own.cert = Nothing, !.own.age = "fresh", !.req = <<>>],
         IF leads THEN <<[do |-> "config"]>> ELSE <<>>)

Run(task, s) ==
    CASE task.do = "ensure"    -> EnsurePrivateKey(s)
      [] task.do = "cleanup"   -> CleanupRequests(s)
      [] task.do = "send"      -> SendRequests(s)
      [] task.do = "find"      -> FindAvailable(s)
      [] task.do = "offer"     -> TakeOffer(s, task.offer)
      [] task.do = "available" -> CertificateAvailable(s, task.cert)
      [] task.do = "adopt"     -> Adopt(s, task.cert)
      [] task.do = "config"    -> ConfigChanged(s)
      [] task.do = "init"      -> InitUnitTls(s)
      [] task.do = "expired"   -> SecretExpired(s, task.cert)
      [] task.do = "broken"    -> RelationBroken(s, task.leads)

\* keytool comes with the snap: without it these fail, and the hook with them.
NeedsKeytool(task) ==
    \/ task.do = "init" /\ (w.own.cert = Nothing \/ w.own.key = NoKey)
    \/ task.do = "adopt"
InBounds(s) ==
    /\ {s.libKey, s.own.key} \subseteq Keys \cup {NoKey}
    /\ ToSet(s.req) \subseteq Requests /\ Len(s.deferred) <= MaxDeferred

Step ==
    /\ ~Idle /\ w.todo # <<>>
    /\ NeedsKeytool(Head(w.todo)) => installed
    /\ w' = Run(Head(w.todo), [w EXCEPT !.todo = Tail(@)])
    /\ InBounds(w')
    /\ UNCHANGED <<rel, prov, unitVars, envVars, events, disturbed>>

Fail ==
    /\ ~Idle /\ w.todo # <<>> /\ NeedsKeytool(Head(w.todo)) /\ ~installed
    /\ w' = NoHook
    /\ UNCHANGED <<rel, prov, unitVars, envVars, events, disturbed>>

Commit ==
    /\ ~Idle /\ w.todo = <<>>
    /\ w' = NoHook
    /\ req' = w.req /\ secrets' = w.secrets /\ libKey' = w.libKey
    /\ own' = w.own /\ deferred' = w.deferred
    /\ IF w.event = "broken"
       THEN /\ rel' = "none" /\ prov' = <<>>
            /\ events' = events \ {"broken", "created", "changed"}
       ELSE /\ events' = events \ {w.event}
            /\ UNCHANGED <<rel, prov>>
    /\ UNCHANGED <<envVars, disturbed>>

-----------------------------------------------------------------------------
(* The provider: the library's provider side, and the charm that decides    *)
(* when to issue.                                                           *)

Offer(new) ==
    /\ prov' = new /\ new # prov
    /\ events' = events \cup {"changed"}
    /\ Idle /\ UNCHANGED <<rel, unitVars, envVars, w>>

\* _remove_certificates_for_which_no_csr_exists, in each of the provider's hooks.
Tidied == Select(prov, {o \in ToSet(prov) : o.cert.csr \in ToSet(req)})

ProviderTidies ==
    /\ rel = "up"
    /\ Offer(Tidied)
    /\ UNCHANGED disturbed

SetRelationCertificate(csr, isCa) ==
    LET free == {n \in 1..MaxSerials : \A c \in LiveCerts : c.csr = csr => c.serial # n}
    IN  /\ free # {}
        /\ Offer(Append(Select(Tidied, {o \in ToSet(Tidied) : o.cert.csr # csr}),
                        [cert |-> [csr |-> csr, serial |-> Smallest(free), ca |-> isCa],
                         revoked |-> FALSE]))

IsIssued(csr) == \E o \in ToSet(prov) : o.cert.csr = csr /\ ~o.revoked

ProviderIssues ==
    /\ rel = "up"
    /\ \E csr \in ToSet(req) :
        /\ ~IsIssued(csr)
        /\ SetRelationCertificate(csr, FALSE)
    /\ UNCHANGED disturbed

Disturb(kind) ==
    /\ kind \in Disturbances /\ disturbed < MaxDisturbed
    /\ disturbed' = disturbed + 1

\* A new certificate for a request that has one, as after a change of the CA;
\* or one for a CA, where the request was for a server.
ProviderReplaces ==
    /\ rel = "up"
    /\ \E csr \in ToSet(req), isCa \in BOOLEAN :
        /\ Disturb(IF isCa THEN "mistake" ELSE "replace")
        /\ IsIssued(csr)
        /\ SetRelationCertificate(csr, isCa)

RevokeAllCertificates ==
    /\ rel = "up" /\ Disturb("revoke")
    /\ Offer([i \in DOMAIN prov |-> [prov[i] EXCEPT !.revoked = TRUE]])

-----------------------------------------------------------------------------
(* Operators, Juju and time *)

Relate ==
    /\ rel = "none" /\ "broken" \notin events
    /\ rel' = "up" /\ events' = events \cup {"created", "changed"}
    /\ Idle /\ UNCHANGED <<w, unitVars, prov, envVars, disturbed>>

Unrelate ==
    /\ rel = "up" /\ "created" \notin events /\ Disturb("unrelate")
    /\ rel' = "dying" /\ events' = events \cup {"broken"}
    /\ Idle /\ UNCHANGED <<w, unitVars, prov, envVars>>

\* The unit's machine gets another address; Juju sends config-changed.
Move ==
    /\ Disturb("move")
    /\ address' \in Addresses \ {address}
    /\ events' = events \cup {"config"}
    /\ Idle /\ UNCHANGED <<w, rel, prov, unitVars, installed, appReady>>

\* The snap is there after all, or the leader has made the passwords.
GetReady ==
    /\ \/ ~installed /\ installed' = TRUE /\ UNCHANGED appReady
       \/ ~appReady /\ appReady' = TRUE /\ UNCHANGED installed
    /\ Idle /\ UNCHANGED <<w, rel, prov, unitVars, address, events, disturbed>>

Later(age) == IF age = "fresh" THEN "due" ELSE "expired"

\* Time passes for a certificate; none runs out while the unit has events to
\* handle or its secret has already expired.
Age ==
    \E c \in OwnCerts \cup {s.cert : s \in secrets} :
        LET ages == {s.age : s \in {t \in secrets : t.cert = c}}
                    \cup (IF own.cert = Issued(c) THEN {own.age} ELSE {})
        IN  /\ ages # {"expired"}
            /\ "due" \in ages =>
                   /\ events = {} /\ deferred = <<>>
                   /\ \A s \in secrets : s.cert = c => s.age # s.expire
            /\ secrets' = {IF s.cert = c THEN [s EXCEPT !.age = Later(@)] ELSE s : s \in secrets}
            /\ own' = IF own.cert = Issued(c) THEN [own EXCEPT !.age = Later(@)] ELSE own
            /\ Idle /\ UNCHANGED <<w, rel, req, prov, libKey, envVars, events, deferred, disturbed>>

Init ==
    /\ rel = "none" /\ req = <<>> /\ prov = <<>> /\ secrets = {}
    /\ libKey = NoKey /\ own = [key |-> NoKey, cert |-> Nothing, age |-> "fresh"]
    /\ installed \in BOOLEAN /\ appReady \in BOOLEAN /\ address = FirstAddress
    /\ events = {"config"} /\ deferred = <<>> /\ w = NoHook /\ disturbed = 0

UnitHooks ==
    \/ RelationHook \/ BrokenHook \/ ConfigHook \/ SecretHook \/ StatusHook
    \/ Step \/ Fail \/ Commit
Provider  == ProviderTidies \/ ProviderIssues
Next ==
    \/ UnitHooks \/ Provider
    \/ ProviderReplaces \/ RevokeAllCertificates
    \/ Relate \/ Unrelate \/ Move \/ GetReady \/ Age

\* Juju runs the unit's hooks as long as there are any; the provider answers
\* what it was asked and tidies up; time passes.
Fairness == WF_vars(UnitHooks) /\ WF_vars(ProviderIssues) /\ WF_vars(ProviderTidies) /\ WF_vars(Age)

Spec == Init /\ [][Next]_vars /\ Fairness

-----------------------------------------------------------------------------
(* Properties *)

\* The certificate in the unit databag was asked for with the private key that
\* is kept beside it, whichever key was new when it was asked for, issued, or
\* taken over from a deferred event.
IdentityMatches == own.cert.by = "provider" => own.cert.cert.csr.key = own.key

\* With nothing left to handle, a certificate that the provider offers for a
\* request of this unit is the one the unit uses: no offer is overlooked because
\* a secret of the same request, an older offer or a deferred one got in its way.
OfferIsUsed ==
    LET good == {o.cert : o \in {p \in ToSet(prov) :
                    ~p.revoked /\ ~p.cert.ca /\ p.cert.csr \in ToSet(req)}}
    IN  (rel = "up" /\ events = {} /\ deferred = <<>> /\ good # {}) => OwnCerts \cap good # {}

\* A certificate never runs out in use unless its renewal was asked for before,
\* as long as hooks are handled in time and its secret was not given a second
\* content (whose expiry is that of the certificate, not nine tenths of it) and
\* the certificate was not revoked (which removes the secret), nor is one for a CA
\* offered in its place.
RenewalAskedInTime ==
    \A c \in OwnCerts :
        (rel = "up" /\ events = {} /\ deferred = <<>> /\ own.age = "expired") =>
            \/ c.csr \notin ToSet(req)
            \/ \E o \in ToSet(prov) : (o.revoked \/ o.cert.ca) /\ o.cert.csr = c.csr
            \/ \E s \in secrets : s.cert = c /\ s.replaced

Mistaken == \E o \in ToSet(prov) : o.cert.ca

\* A relation that stays brings the unit a certificate of its provider, unless
\* the provider takes a certificate for a CA to be the answer.
CertificateArrives ==
    (rel = "up" /\ installed /\ appReady) ~>
        (own.cert.by = "provider" \/ rel # "up" \/ Mistaken)

\* An expired certificate does not stay in use while the relation stands (with the
\* same exception).
ExpiredIsReplaced ==
    (rel = "up" /\ own.age = "expired" /\ installed /\ appReady) ~>
        (own.age # "expired" \/ rel # "up" \/ Mistaken)

\* The library says of a revoked certificate that "the secret will be removed and
\* an event will be emitted": the unit stops using it.
RevokedIsDropped ==
    \A o \in ToSet(prov) :
        (o.revoked /\ rel = "up" /\ events = {} /\ deferred = <<>>) => o.cert \notin OwnCerts

\* The key and certificate that the charm's peer databag holds change only as
\* UnitIdentity allows, hook by hook: no certificate without its key, none that
\* was not offered, and none lost but with the relation.
Identity == INSTANCE UnitIdentity WITH
    Key <- Keys, Cert <- {Issued(c) : c \in Certs},
    KeyOf <- LAMBDA i : i.cert.csr.key, Usable <- LAMBDA i : ~i.cert.ca,
    related <- rel # "none",
    offered <- {Issued(c) : c \in OfferedCerts \cup Waiting},
    key <- own.key, identity <- own.cert
IdentitySpec == Identity!Spec

=============================================================================
