----------------------------- MODULE UnitAgent -----------------------------
(***************************************************************************)
(* One unit of the Kafka UI charm: the hooks the Juju agent runs on it,    *)
(* the handlers each hook calls, the files they leave on the machine and   *)
(* the snap service that reads those files when it starts.                 *)
(*                                                                         *)
(* A hook is a transaction on Juju's side only: relation data, secrets and *)
(* deferred notices are buffered (buf) and committed when the hook ends    *)
(* well, and are dropped when it fails.  Files are written at once and     *)
(* stay.  A failed hook is retried from its first line.  Every step        *)
(* between two effects is an action of its own, so that a hook may fail    *)
(* between any two of them.                                                *)
(*                                                                         *)
(* External to src/: the Juju agent (queue of events, commit, retry), the  *)
(* TLS library that delivers certificates, keytool and the JVM.            *)
(***************************************************************************)
EXTENDS Integers, Sequences, FiniteSets

CONSTANTS
    CAs,          \* CA certificates that relations may hand over
    NoCA,         \* "this client sends no CA"
    ProviderCA,   \* the CA that signs the certificates of the TLS provider
    Sha256CAs,    \* the CAs whose own signature uses SHA-256
    Data,         \* everything else application-local.yml is rendered from
    Passwords,    \* what generate_password can return
    Worlds,       \* the relation data and options the model may present
    MaxChanges,   \* bound: how often the world or the leadership changes
    MaxFaults,    \* bound: how many faults happen
    Faults        \* the kinds of fault that may happen

Clients   == {"kafka-client", "connect-client", "karapace-client"}
Empty     == 0    \* the empty string: this password does not exist
Changeit  == 1    \* JAVA_CACERTS_DEFAULT_PASSWORD
FaultKinds == {"crash", "restart", "lease"}

World == [data : Data, kafkaTls : BOOLEAN, ca : [Clients -> CAs \cup {NoCA}],
          ingress : BOOLEAN, oauthCas : SUBSET CAs, userPw : Nat, tls : BOOLEAN]

\* A certificate: who issued it, and which one of that issuer it is.
Cert   == [issuer : {"none", "self", "provider"}, id : Nat]
NoCert == [issuer |-> "none", id |-> 0]

ASSUME PasswordsAssumption ==
    /\ Passwords \subseteq Nat \ {Empty, Changeit}
ASSUME CAsAssumption ==
    /\ NoCA \notin CAs
    /\ ProviderCA \in CAs
    /\ Sha256CAs \subseteq CAs
ASSUME WorldsAssumption == Worlds \subseteq World
ASSUME BoundsAssumption ==
    /\ MaxChanges \in Nat
    /\ MaxFaults \in Nat
    /\ Faults \subseteq FaultKinds

VARIABLES
    \* Juju and the operator
    world,      \* relation data and options as Juju holds them now
    issued,     \* how many certificates the TLS provider has issued
    leader,     \* this unit is the leader
    pending,    \* events queued for this unit
    silent,     \* a client's TLS data changed in its secret alone, and no hook
                \* that ends in config-changed has begun since
    \* committed by this charm
    app,        \* the peer application databag (its secrets)
    unit,       \* the peer unit databag (its secrets)
    deferred,   \* handlers whose event was deferred
    \* the hook being run
    event,      \* its event
    buf,        \* its uncommitted writes
    redo,       \* deferred handlers still to be called again
    work,       \* handlers of its event still to be called
    task,       \* the handler being run
    pc,         \* where in it
    modified,   \* set_oauth_truststore's "changed"
    \* the machine
    disk,       \* the files the charm writes
    service,    \* the service and what it loaded when it started
    \* bookkeeping of the bounds
    changes, faults

jujuVars    == <<world, issued, leader, pending, silent>>
commitVars  == <<app, unit, deferred>>
hookVars    == <<event, buf, redo, work, task, pc, modified>>
machineVars == <<disk, service>>
boundVars   == <<changes, faults>>
vars == <<jujuVars, commitVars, hookVars, machineVars, boundVars>>

-----------------------------------------------------------------------------
(* Types *)

App  == [admin : Nat, javaPw : Nat]
Unit == [ksPw : Nat, tsPw : Nat, cert : Cert]

\* A store whose password is Empty is a file that does not exist.
Truststore == [pw : Nat, client : [Clients -> CAs \cup {NoCA}], bundle : Cert]
Keystore   == [pw : Nat, cert : Cert]
Cacerts    == [pw : Nat, cas : SUBSET CAs]
NoTruststore == [pw |-> Empty, client |-> [c \in Clients |-> NoCA], bundle |-> NoCert]
NoKeystore   == [pw |-> Empty, cert |-> NoCert]

\* application-local.yml: the admin password and the passwords of the two
\* stores it names (Empty when it does not name the store).
Yml   == [written : BOOLEAN, data : Data, admin : Nat, ksPw : Nat, tsPw : Nat]
Disk  == [truststore : Truststore, keystore : Keystore, cacerts : Cacerts,
          env : Nat, yml : Yml]
Service == [up : BOOLEAN, loaded : Disk]

Tasks == {"secrets", "reconcile", "ca_changed", "ca_removed", "cert", "tls_broken"}
Events == {"start", "config", "status", "secret", "relation",
           "ca_changed", "ca_removed", "cert", "tls_broken"}
Steps == Tasks \cup {"idle", "failed", "next", "unit_tls", "cert_store",
         "set_truststore", "set_keystore", "emit_config", "cacerts",
         "cacerts_pw", "cacerts_sync", "check", "update_truststore",
         "set_environment", "write_config", "restart"}
\* A hook's uncommitted writes; dirty when the application databag is among them.
Buffer == [app : App, unit : Unit, deferred : SUBSET Tasks, dirty : BOOLEAN]
InHook == pc \notin {"idle", "failed"}

TypeOK ==
    /\ world \in Worlds /\ issued \in Nat /\ leader \in BOOLEAN /\ pending \subseteq Events
    /\ silent \in BOOLEAN
    /\ app \in App /\ unit \in Unit /\ deferred \subseteq Tasks
    /\ event \in Events
    /\ buf \in Buffer
    /\ redo \subseteq Tasks /\ work \in Seq(Tasks) /\ task \in Tasks
    /\ pc \in Steps /\ modified \in BOOLEAN
    /\ disk \in Disk
    /\ service \in Service
    /\ changes \in 0..MaxChanges /\ faults \in 0..MaxFaults

-----------------------------------------------------------------------------
(* What the charm computes from the state *)

\* A generated password has never been used before; the smallest such one is
\* above n is taken, which is only a choice of name.
InUse ==
    LET U(u) == {u.ksPw, u.tsPw, u.cert.id}
        Y(y) == {y.admin, y.ksPw, y.tsPw}
        D(d) == {d.truststore.pw, d.truststore.bundle.id, d.keystore.pw,
                 d.keystore.cert.id, d.cacerts.pw, d.env} \cup Y(d.yml)
    IN  {app.admin, app.javaPw, buf.app.admin, buf.app.javaPw}
        \cup U(unit) \cup U(buf.unit) \cup D(disk) \cup D(service.loaded)
FreshAbove(n) ==
    {p \in Passwords \ InUse :
        p > n /\ \A q \in Passwords \ InUse : q > n => p <= q}

\* KafkaUiCharm.init_app_passwords
AppPasswords(a, p, q) ==
    [admin  |-> IF a.admin = Empty THEN p ELSE a.admin,
     javaPw |-> IF a.javaPw = Empty THEN q ELSE a.javaPw]

\* Mutant: new store passwords with every self-signed certificate.
SelfSignedNewPasswords(u, p, q) ==
    [ksPw |-> p, tsPw |-> q, cert |-> [issuer |-> "self", id |-> p]]
\* What init_unit_tls and generate_self_signed write: store passwords once, a
\* certificate each time.
SelfSigned(u, p, q) ==
    [ksPw |-> IF u.ksPw = Empty THEN p ELSE u.ksPw,
     tsPw |-> IF u.tsPw = Empty THEN q ELSE u.tsPw,
     cert |-> [issuer |-> "self", id |-> p]]

\* TLSContext.ready
Ready(u) == u.cert # NoCert

\* ConfigManager.application_local_config without the oauth relation.
Render(a, u, w) ==
    [written |-> TRUE,
     data    |-> w.data,
     admin   |-> a.admin,
     ksPw    |-> IF ~w.ingress /\ Ready(u) THEN u.ksPw ELSE Empty,
     tsPw    |-> IF w.kafkaTls THEN u.tsPw ELSE Empty]

Exists(store)    == store.pw # Empty
Opens(store, pw) == store.pw = pw

\* The certificates in the unit truststore, under any alias.
Trusted(ts) ==
    ({ts.client[c] : c \in Clients} \ {NoCA})
    \cup (IF ts.bundle.issuer = "provider" THEN {ProviderCA} ELSE {})

\* Mutant: any client CA counts as a change.
TruststoreChangedAlways(ts, w) == \E c \in Clients : w.ca[c] # NoCA

\* TLSManager.truststore_changed: the fingerprint of a CA is taken with the
\* hash of its own signature and compared with keytool's SHA-256 ones.
Fingerprinted(ca, ts) == ca \in Sha256CAs /\ ca \in Trusted(ts)
TruststoreChanged(ts, w) ==
    \E c \in Clients : w.ca[c] # NoCA /\ ~Fingerprinted(w.ca[c], ts)

\* Mutant: update-status does nothing.
EventTasksNoStatus(e) ==
    CASE e \in {"start", "config"} -> <<"secrets", "reconcile">>
      [] e = "status"             -> <<>>
      [] e = "secret"             -> <<"secrets">>
      [] e = "relation"           -> <<"reconcile">>
      [] OTHER                    -> <<e>>

\* The handlers of an event: SecretsHandler observes config_changed before the
\* charm does, and update-status emits config_changed.
EventTasks(e) ==
    CASE e \in {"start", "config", "status"} -> <<"secrets", "reconcile">>
      [] e = "secret"               -> <<"secrets">>
      [] e = "relation"             -> <<"reconcile">>
      [] OTHER                      -> <<e>>

\* What a client says of its TLS is in a secret of its relation: "relation" is heard
\* when the databag changes with it (the secret is new, the brokers are others), else
\* at most "secret", which SecretsHandler leaves alone.
TlsDataChanges(w) == w.kafkaTls # world.kafkaTls \/ w.ca # world.ca
Heard(w) == IF TlsDataChanges(w) THEN SUBSET {"relation", "secret"} ELSE {{}}

\* The events Juju raises for a change of the world.
EventsOf(w, heard) ==
    heard \cup {e \in Events :
        \/ e = "config"   /\ w.data # world.data
        \/ e = "relation" /\ w.ingress # world.ingress
        \/ e = "ca_changed" /\ w.oauthCas # world.oauthCas /\ w.oauthCas # {}
        \/ e = "ca_removed" /\ w.oauthCas # world.oauthCas /\ w.oauthCas = {}
        \/ e = "secret"     /\ w.userPw # world.userPw
        \/ e = "cert"       /\ ~world.tls /\ w.tls
        \/ e = "tls_broken" /\ world.tls /\ ~w.tls}

-----------------------------------------------------------------------------
(* Juju, the operator and the other units *)

CanChange == changes < MaxChanges /\ changes' = changes + 1

\* A hook reads every relation and option once, so a change during a hook is
\* one after it.  A certificate relation is not removed while a certificate is
\* being handled, nor added again before its removal was.
Obsolete(w) == (IF w.tls THEN {} ELSE {"cert"})
               \cup (IF w.oauthCas # {} THEN {} ELSE {"ca_changed"})
CertRelationMayChange(w) ==
    /\ world.tls /\ ~w.tls => ~(event = "cert" /\ pc = "failed")
    /\ ~world.tls /\ w.tls => /\ "tls_broken" \notin pending
                              /\ ~(event = "tls_broken" /\ pc = "failed")
WorldChange ==
    /\ ~InHook /\ CanChange
    /\ \E w \in Worlds \ {world} :
        /\ CertRelationMayChange(w)
        /\ world' = w
        /\ issued' = IF ~world.tls /\ w.tls THEN issued + 1 ELSE issued
        /\ \E heard \in Heard(w) :
            /\ pending' = (pending \cup EventsOf(w, heard)) \ Obsolete(w)
            /\ silent' = (silent \/ (TlsDataChanges(w) /\ "relation" \notin heard))
    /\ UNCHANGED <<leader, commitVars, hookVars, machineVars, faults>>

\* The provider renews the unit's certificate.
CertRenewed ==
    /\ ~InHook /\ CanChange
    /\ world.tls
    /\ issued' = issued + 1
    /\ pending' = pending \cup {"cert"}
    /\ UNCHANGED <<world, leader, silent, commitVars, hookVars, machineVars, faults>>

\* Leadership moves between hooks; during one it is only lost, and only as a
\* fault: the lease outlives a hook of ordinary length.
LeadershipChange ==
    /\ CanChange
    /\ \/ pc = "idle" /\ leader' = ~leader
       \/ pc # "idle" /\ leader /\ "lease" \in Faults /\ leader' = FALSE
    /\ UNCHANGED <<world, issued, pending, silent, commitVars, hookVars, machineVars, faults>>

\* While another unit leads, its hooks create the application's passwords and
\* rotate the admin's (init_app_passwords, SecretsHandler run over there).
OtherLeaderCreates ==
    /\ ~leader
    /\ app.admin = Empty \/ app.javaPw = Empty
    /\ \E p \in FreshAbove(Changeit) : \E q \in FreshAbove(p) :
        app' = AppPasswords(app, p, q)
    /\ UNCHANGED <<jujuVars, unit, deferred, hookVars, machineVars, boundVars>>
OtherLeaderRotates ==
    /\ ~leader
    /\ world.userPw \notin {Empty, app.admin}
    /\ app' = [app EXCEPT !.admin = world.userPw]
    /\ UNCHANGED <<jujuVars, unit, deferred, hookVars, machineVars, boundVars>>

-----------------------------------------------------------------------------
(* The hook: dispatch, commit, failure *)

StartHook(e) ==
    /\ event' = e
    /\ buf' = [app |-> app, unit |-> unit, deferred |-> {}, dirty |-> FALSE]
    /\ redo' = deferred
    /\ work' = EventTasks(e)
    /\ silent' = (silent /\ "reconcile" \notin {EventTasks(e)[i] : i \in DOMAIN EventTasks(e)})
    /\ pc' = "next"
    /\ modified' = FALSE
    /\ UNCHANGED task

\* The first config-changed comes before any relation-changed hook.
Hook(e) ==
    /\ pc = "idle"
    /\ e \in pending \cup {"status"}
    /\ "start" \in pending => e = "start"
    /\ pending' = pending \ {e}
    /\ StartHook(e)
    /\ UNCHANGED <<world, issued, leader, commitVars, machineVars, boundVars>>

\* Juju retries a failed hook before it runs any other.
Retry ==
    /\ pc = "failed"
    /\ StartHook(event)
    /\ UNCHANGED <<world, issued, leader, pending, commitVars, machineVars, boundVars>>

\* Deferred notices are emitted again before the hook's own event, oldest
\* first: the first config-changed is older than any other.
Dispatch ==
    /\ pc = "next"
    /\ \/ \E t \in redo : /\ "reconcile" \in redo => t = "reconcile"
                          /\ redo' = redo \ {t}
                          /\ task' = t
                          /\ UNCHANGED work
       \/ /\ redo = {} /\ work # <<>>
          /\ task' = Head(work)
          /\ work' = Tail(work)
          /\ UNCHANGED redo
    /\ pc' = task'
    /\ modified' = FALSE
    /\ UNCHANGED <<event, buf, jujuVars, commitVars, machineVars, boundVars>>

\* Writes to the application databag are refused to a unit that lost the lead.
Commit ==
    /\ pc = "next" /\ redo = {} /\ work = <<>>
    /\ \/ /\ buf.dirty => leader
          /\ app' = IF buf.dirty THEN buf.app ELSE app
          /\ unit' = buf.unit
          /\ deferred' = buf.deferred
          /\ pc' = "idle"
       \/ /\ buf.dirty /\ ~leader
          /\ pc' = "failed"
          /\ UNCHANGED commitVars
    /\ UNCHANGED <<event, buf, redo, work, task, modified,
                   jujuVars, machineVars, boundVars>>

Crash ==
    /\ InHook
    /\ "crash" \in Faults /\ faults < MaxFaults
    /\ faults' = faults + 1
    /\ pc' = "failed"
    /\ UNCHANGED <<event, buf, redo, work, task, modified,
                   jujuVars, commitVars, machineVars, changes>>

-----------------------------------------------------------------------------
(* Steps of the handlers *)

Goto(step) == pc' = step
Keep == UNCHANGED <<event, redo, task, jujuVars, commitVars, boundVars>>
Defer ==
    /\ buf' = [buf EXCEPT !.deferred = @ \cup {task}]
    /\ Goto("next")
EmitConfigChanged == work' = EventTasks("config") \o work

\* SecretsHandler._on_secret_changed
Secrets ==
    /\ pc = "secrets"
    /\ IF leader /\ world.userPw \notin {Empty, buf.app.admin}
       THEN /\ buf' = [buf EXCEPT !.app.admin = world.userPw, !.dirty = TRUE]
            /\ EmitConfigChanged
       ELSE UNCHANGED <<buf, work>>
    /\ Goto("next")
    /\ UNCHANGED <<modified, machineVars>> /\ Keep

\* KafkaUiCharm._on_config_changed, first part: init_app_passwords.
Reconcile ==
    /\ pc = "reconcile"
    /\ \/ /\ leader /\ Empty \in {buf.app.admin, buf.app.javaPw}
          /\ \E p \in FreshAbove(Changeit) : \E q \in FreshAbove(p) :
              buf' = [buf EXCEPT !.app = AppPasswords(@, p, q), !.dirty = TRUE]
          /\ Goto("unit_tls")
       \/ /\ ~leader \/ Empty \notin {buf.app.admin, buf.app.javaPw}
          /\ buf.app.javaPw # Empty
          /\ Goto("unit_tls")
          /\ UNCHANGED buf
       \/ ~leader /\ buf.app.javaPw = Empty /\ Defer
    /\ UNCHANGED <<work, modified, machineVars>> /\ Keep

\* Where the handler goes on once TLSHandler.init_unit_tls is done.
AfterInitUnitTls == IF task = "reconcile" THEN "cacerts" ELSE "cert_store"

\* TLSHandler.init_unit_tls
InitUnitTls ==
    /\ pc = "unit_tls"
    /\ \/ /\ Ready(buf.unit)
          /\ Goto(AfterInitUnitTls)
          /\ UNCHANGED buf
       \/ /\ ~Ready(buf.unit)
          /\ \E p \in FreshAbove(Changeit) : \E q \in FreshAbove(p) :
              buf' = [buf EXCEPT !.unit = SelfSigned(@, p, q)]
          /\ Goto("set_truststore")
    /\ UNCHANGED <<work, modified, machineVars>> /\ Keep

\* TLSManager.configure: import the bundle in the truststore ...
ImportBundle(ts, u) ==
    [ts EXCEPT !.pw = u.tsPw,
               !.bundle = IF @ = NoCert THEN u.cert ELSE @]
SetTruststore ==
    /\ pc = "set_truststore"
    /\ Exists(disk.truststore) => Opens(disk.truststore, buf.unit.tsPw)
    /\ disk' = [disk EXCEPT !.truststore = ImportBundle(@, buf.unit)]
    /\ Goto("set_keystore")
    /\ UNCHANGED <<buf, work, modified, service>> /\ Keep

\* Mutant: a keystore that exists is left alone.
SetKeystoreOnce ==
    /\ pc = "set_keystore"
    /\ disk' = [disk EXCEPT !.keystore =
                    IF Exists(@) THEN @
                    ELSE [pw |-> buf.unit.ksPw, cert |-> buf.unit.cert]]
    /\ Goto(IF buf.unit.cert.issuer = "provider" THEN "emit_config" ELSE AfterInitUnitTls)
    /\ UNCHANGED <<buf, work, modified, service>> /\ Keep
\* Mutant: the keystore gets the truststore's password.
SetKeystoreWrongPassword ==
    /\ pc = "set_keystore"
    /\ disk' = [disk EXCEPT !.keystore = [pw |-> buf.unit.tsPw, cert |-> buf.unit.cert]]
    /\ Goto(IF buf.unit.cert.issuer = "provider" THEN "emit_config" ELSE AfterInitUnitTls)
    /\ UNCHANGED <<buf, work, modified, service>> /\ Keep

\* ... and overwrite the keystore.
SetKeystore ==
    /\ pc = "set_keystore"
    /\ disk' = [disk EXCEPT !.keystore = [pw |-> buf.unit.ksPw, cert |-> buf.unit.cert]]
    /\ Goto(IF buf.unit.cert.issuer = "provider" THEN "emit_config" ELSE AfterInitUnitTls)
    /\ UNCHANGED <<buf, work, modified, service>> /\ Keep

\* Mutant: *.jks is not among the patterns.
RemoveStoresNotJks(d) == [d EXCEPT !.keystore = NoKeystore]
\* Mutant: the truststore becomes something else than a truststore.
RemoveStoresConfused(d) == [d EXCEPT !.truststore = NoKeystore, !.keystore = NoKeystore]

\* TLSHandler._on_certificate_available
RemoveStores(d) == [d EXCEPT !.truststore = NoTruststore, !.keystore = NoKeystore]
CertAvailable ==
    /\ pc = "cert"
    /\ Goto("unit_tls")
    /\ UNCHANGED <<buf, work, modified, machineVars>> /\ Keep
\* Mutant: the stores are removed and not made again.
CertStoreNoConfigure ==
    /\ pc = "cert_store"
    /\ buf' = [buf EXCEPT !.unit.cert = [issuer |-> "provider", id |-> issued]]
    /\ disk' = RemoveStores(disk)
    /\ Goto("emit_config")
    /\ UNCHANGED <<work, modified, service>> /\ Keep
CertStore ==
    /\ pc = "cert_store"
    /\ buf' = [buf EXCEPT !.unit.cert = [issuer |-> "provider", id |-> issued]]
    /\ disk' = RemoveStores(disk)
    /\ Goto("set_truststore")
    /\ UNCHANGED <<work, modified, service>> /\ Keep
CertEmit ==
    /\ pc = "emit_config"
    /\ EmitConfigChanged
    /\ Goto("next")
    /\ UNCHANGED <<buf, modified, machineVars>> /\ Keep

\* TLSHandler._tls_relation_broken: only the leader goes on to config-changed.
TlsBroken ==
    /\ pc = "tls_broken"
    /\ buf' = [buf EXCEPT !.unit.cert = NoCert, !.dirty = @ \/ leader]
    /\ disk' = RemoveStores(disk)
    /\ Goto(IF leader THEN "emit_config" ELSE "next")
    /\ UNCHANGED <<work, modified, service>> /\ Keep

\* OAuthHandler._on_oauth_ca_changed and _on_oauth_ca_removed
CaChanged ==
    /\ pc = "ca_changed"
    /\ IF buf.app.javaPw = Empty \/ world.oauthCas = {}
       THEN Defer
       ELSE Goto("cacerts") /\ UNCHANGED buf
    /\ UNCHANGED <<work, modified, machineVars>> /\ Keep
CaRemoved ==
    /\ pc = "ca_removed"
    /\ IF buf.app.javaPw = Empty THEN Defer ELSE Goto("cacerts") /\ UNCHANGED buf
    /\ UNCHANGED <<work, modified, machineVars>> /\ Keep

\* OAuthHandler.reconcile_ca_truststore: copy the JDK's cacerts ...
Cacerts1 ==
    /\ pc = "cacerts"
    /\ IF Exists(disk.cacerts)
       THEN Goto("cacerts_sync") /\ UNCHANGED disk
       ELSE /\ disk' = [disk EXCEPT !.cacerts = [pw |-> Changeit, cas |-> {}]]
            /\ Goto("cacerts_pw")
    /\ UNCHANGED <<buf, work, modified, service>> /\ Keep
\* Mutant: the copy keeps the default password.
CacertsPasswordForgotten ==
    /\ pc = "cacerts_pw"
    /\ Goto("cacerts_sync")
    /\ UNCHANGED <<buf, work, modified, machineVars>> /\ Keep
\* ... give the copy the application's password ...
CacertsPassword ==
    /\ pc = "cacerts_pw"
    /\ Opens(disk.cacerts, Changeit)
    /\ disk' = [disk EXCEPT !.cacerts.pw = buf.app.javaPw]
    /\ Goto("cacerts_sync")
    /\ UNCHANGED <<buf, work, modified, service>> /\ Keep
\* Mutant: aliases that are not wanted any more stay.
CacertsSyncNoRemoval ==
    /\ pc = "cacerts_sync"
    /\ Opens(disk.cacerts, buf.app.javaPw)
    /\ \/ \E c \in world.oauthCas \ disk.cacerts.cas :
            /\ disk' = [disk EXCEPT !.cacerts.cas = @ \cup {c}]
            /\ modified' = TRUE
            /\ UNCHANGED pc
       \/ /\ world.oauthCas \subseteq disk.cacerts.cas
          /\ Goto(IF task = "reconcile" THEN "check"
                  ELSE IF modified THEN "restart" ELSE "next")
          /\ UNCHANGED <<disk, modified>>
    /\ UNCHANGED <<buf, work, service>> /\ Keep
\* ... and TLSManager.set_oauth_truststore: one keytool call per difference.
\* Only the handlers of the CA events look at the result.
CacertsSync ==
    /\ pc = "cacerts_sync"
    /\ Opens(disk.cacerts, buf.app.javaPw)
    /\ LET have == disk.cacerts.cas
           want == world.oauthCas
       IN  \/ \E c \in have \ want :
                /\ disk' = [disk EXCEPT !.cacerts.cas = @ \ {c}]
                /\ modified' = TRUE
                /\ UNCHANGED pc
           \/ /\ have \subseteq want
              /\ \E c \in want \ have :
                /\ disk' = [disk EXCEPT !.cacerts.cas = @ \cup {c}]
                /\ modified' = TRUE
                /\ UNCHANGED pc
           \/ /\ have = want
              /\ Goto(IF task = "reconcile" THEN "check"
                      ELSE IF modified THEN "restart" ELSE "next")
              /\ UNCHANGED <<disk, modified>>
    /\ UNCHANGED <<buf, work, service>> /\ Keep

\* Mutant: the environment is not set when only the configuration changed.
CheckSkipsEnvironment ==
    /\ pc = "check"
    /\ Exists(disk.truststore) => Opens(disk.truststore, buf.unit.tsPw)
    /\ Goto(IF TruststoreChanged(disk.truststore, world) THEN "update_truststore"
            ELSE IF disk.yml # Render(buf.app, buf.unit, world) THEN "write_config"
            ELSE "next")
    /\ UNCHANGED <<buf, work, modified, machineVars>> /\ Keep

\* _on_config_changed, second part: is there anything to apply?
Check ==
    /\ pc = "check"
    /\ Exists(disk.truststore) => Opens(disk.truststore, buf.unit.tsPw)
    /\ Goto(IF TruststoreChanged(disk.truststore, world) THEN "update_truststore"
            ELSE IF disk.yml # Render(buf.app, buf.unit, world) THEN "set_environment"
            ELSE "next")
    /\ UNCHANGED <<buf, work, modified, machineVars>> /\ Keep

\* TLSManager.update_truststore: one client's alias after the other.
UpdateTruststore ==
    /\ pc = "update_truststore"
    /\ Exists(disk.truststore) => Opens(disk.truststore, buf.unit.tsPw)
    /\ LET stale == {c \in Clients :
                        world.ca[c] \notin {NoCA, disk.truststore.client[c]}}
       IN  \/ \E c \in stale :
                /\ disk' = [disk EXCEPT !.truststore.client[c] = world.ca[c],
                                        !.truststore.pw = buf.unit.tsPw]
                /\ UNCHANGED pc
           \/ stale = {} /\ Goto("set_environment") /\ UNCHANGED disk
    /\ UNCHANGED <<buf, work, modified, service>> /\ Keep

SetEnvironment ==
    /\ pc = "set_environment"
    /\ disk' = [disk EXCEPT !.env = buf.app.javaPw]
    /\ Goto("write_config")
    /\ UNCHANGED <<buf, work, modified, service>> /\ Keep
\* Mutant: no restart after the configuration was written.
WriteConfigNoRestart ==
    /\ pc = "write_config"
    /\ disk' = [disk EXCEPT !.yml = Render(buf.app, buf.unit, world)]
    /\ Goto("next")
    /\ UNCHANGED <<buf, work, modified, service>> /\ Keep
WriteConfig ==
    /\ pc = "write_config"
    /\ disk' = [disk EXCEPT !.yml = Render(buf.app, buf.unit, world)]
    /\ Goto("restart")
    /\ UNCHANGED <<buf, work, modified, service>> /\ Keep

\* Workload.restart; a SnapError is logged and the handler goes on.
Restart ==
    /\ pc = "restart"
    /\ service' = [up |-> TRUE, loaded |-> disk]
    /\ Goto("next")
    /\ UNCHANGED <<buf, work, modified, disk>> /\ Keep
RestartFails ==
    /\ pc = "restart"
    /\ "restart" \in Faults /\ faults < MaxFaults
    /\ faults' = faults + 1
    /\ \E up \in {service.up, FALSE} : service' = [service EXCEPT !.up = up]
    /\ Goto("next")
    /\ UNCHANGED <<event, buf, redo, work, task, modified,
                   jujuVars, commitVars, disk, changes>>

\* keytool exits with an error on a store it cannot open; the handlers let
\* the exception go and the hook fails.
KeytoolRefused ==
    \/ /\ pc \in {"set_truststore", "check", "update_truststore"}
       /\ Exists(disk.truststore) /\ ~Opens(disk.truststore, buf.unit.tsPw)
    \/ pc = "cacerts_sync" /\ ~Opens(disk.cacerts, buf.app.javaPw)
KeytoolFails ==
    /\ KeytoolRefused
    /\ Goto("failed")
    /\ UNCHANGED <<buf, work, modified, machineVars>> /\ Keep

HandlerStep ==
    \/ Secrets \/ Reconcile \/ InitUnitTls \/ SetTruststore \/ SetKeystore
    \/ CertAvailable \/ CertStore \/ CertEmit \/ TlsBroken
    \/ CaChanged \/ CaRemoved \/ Cacerts1 \/ CacertsPassword \/ CacertsSync
    \/ Check \/ UpdateTruststore \/ SetEnvironment \/ WriteConfig
    \/ Restart \/ KeytoolFails

-----------------------------------------------------------------------------
Init ==
    /\ world \in Worlds /\ leader \in BOOLEAN
    /\ issued = IF world.tls THEN 1 ELSE 0
    /\ pending = {"start"} \cup (IF world.tls THEN {"cert"} ELSE {})
                           \cup (IF world.oauthCas # {} THEN {"ca_changed"} ELSE {})
    /\ silent = FALSE
    /\ app = [admin |-> Empty, javaPw |-> Empty]
    /\ unit = [ksPw |-> Empty, tsPw |-> Empty, cert |-> NoCert]
    /\ deferred = {}
    /\ event = "start"
    /\ buf = [app |-> app, unit |-> unit, deferred |-> {}, dirty |-> FALSE]
    /\ redo = {} /\ work = <<>> /\ task = "reconcile"
    /\ pc = "idle" /\ modified = FALSE
    /\ disk = [truststore |-> NoTruststore, keystore |-> NoKeystore,
               cacerts |-> [pw |-> Empty, cas |-> {}], env |-> Empty,
               yml |-> [written |-> FALSE, data |-> world.data, admin |-> Empty,
                        ksPw |-> Empty, tsPw |-> Empty]]
    /\ service = [up |-> FALSE, loaded |-> disk]
    /\ changes = 0 /\ faults = 0

Next ==
    \/ WorldChange \/ CertRenewed \/ LeadershipChange \/ OtherLeaderCreates \/ OtherLeaderRotates
    \/ \E e \in Events : Hook(e)
    \/ Retry \/ Dispatch \/ Commit \/ Crash
    \/ HandlerStep \/ RestartFails

Spec == Init /\ [][Next]_vars

\* The agent runs the hook it started and retries it when it fails; it serves
\* the queued events and its update-status timer in the end (only while it is
\* idle, hence strong fairness); the unit that leads creates and rotates
\* passwords in its own hooks.  Nothing makes the world change.
AgentStep == Retry \/ Dispatch \/ Commit \/ HandlerStep
ServeQueue == \E e \in pending : Hook(e)
Fairness ==
    /\ WF_vars(AgentStep)
    /\ SF_vars(ServeQueue) /\ SF_vars(Hook("status"))
    /\ WF_vars(OtherLeaderCreates \/ OtherLeaderRotates)
FairSpec == Spec /\ Fairness

-----------------------------------------------------------------------------
(* Properties.  The code's own words promise FilePasswordIsLive,           *)
(* ServedCertIsCurrent, ServerHasItsStores and OAuthCasAreTrusted; what    *)
(* the code does refutes these four (README, section 3, has the steps),    *)
(* and the runs show that the others hold.                                 *)

\* Every event was handled and none is deferred.
Quiescent == pc = "idle" /\ pending = {} /\ deferred = {}

\* The JVM that was started last can open the default truststore it was
\* pointed at: the password in /etc/environment is the one the copy of
\* cacerts was given, whatever hooks failed in between
\* (reconcile_ca_truststore, set_environment, restart).
JvmOpensCacerts ==
    service.up => service.loaded.env = service.loaded.cacerts.pw

\* When config-changed restarts the service, the stores that the new
\* application-local.yml names are on disk under the passwords it gives
\* (init_unit_tls, configure, remove_stores and write_config stay in step).
StoresOf(d) ==
    /\ d.yml.ksPw # Empty => Opens(d.keystore, d.yml.ksPw)
    /\ d.yml.tsPw # Empty => Opens(d.truststore, d.yml.tsPw)
ReconcileStartsServer == pc = "restart" /\ task = "reconcile" => StoresOf(disk)

\* keytool is never called on a store it cannot open: what is on disk and what
\* the databags say never part.
StoresOpen == ~KeytoolRefused

\* A password that protects a file is never replaced once it is committed:
\* the file would be lost with it.
StorePasswordsPermanent ==
    [][/\ app.javaPw # Empty => app'.javaPw = app.javaPw
       /\ unit.ksPw # Empty => unit'.ksPw = unit.ksPw
       /\ unit.tsPw # Empty => unit'.tsPw = unit.tsPw]_vars

\* Between hooks the keystore holds the certificate of the unit databag, and
\* both stores open with the databag's passwords, also after hooks that failed
\* halfway through a certificate's renewal or removal.
KeystoreServesUnitCert ==
    pc = "idle" /\ Ready(unit) =>
        /\ disk.keystore = [pw |-> unit.ksPw, cert |-> unit.cert]
        /\ Opens(disk.truststore, unit.tsPw)

\* Between hooks the truststore holds the bundle of the certificate that is in
\* the unit databag, not one of an earlier certificate (remove_stores before
\* set_truststore, which leaves an alias that exists alone).
TruststoreTrustsUnitCert ==
    pc = "idle" /\ Ready(unit) => disk.truststore.bundle = unit.cert

\* config-changed restarts the service only for a reason: it is down, or a file
\* it loaded is not what it was.  The nested config-changed of a password
\* rotation or of a certificate does not restart it twice.
RestartHasCause ==
    pc = "restart" /\ task = "reconcile" => ~service.up \/ service.loaded # disk

\* Once every event is handled the service runs, on the configuration file
\* that is on disk.
FileIsApplied == Quiescent => service.up /\ service.loaded.yml = disk.yml

\* Once every event is handled, the stores on disk trust what the relations
\* ask for: exactly the OAuth CAs, and every client CA.  A client CA that was
\* replaced in its secret alone is left out: nothing that is queued makes the unit
\* look at it, and it waits for the next config-changed (ConfigConverges).
TrustsClients ==
    \A c \in Clients : world.ca[c] # NoCA => world.ca[c] \in Trusted(disk.truststore)
TrustConverges ==
    Quiescent =>
        /\ disk.cacerts.cas = world.oauthCas
        /\ Ready(unit) /\ ~silent => TrustsClients

\* README: the admin password read from application-local.yml is the one to
\* log in with.
FilePasswordIsLive ==
    Quiescent /\ service.up => service.loaded.yml.admin = disk.yml.admin

\* _tls_relation_broken: "This config-changed will switch to internal TLS";
\* likewise for a new certificate.  The service serves the unit's certificate.
ServedCertIsCurrent ==
    Quiescent /\ service.up /\ Ready(unit) /\ ~world.ingress =>
        service.loaded.keystore.cert = unit.cert

\* The same comment: once the certificate relation is gone the service never
\* runs on a configuration whose stores were removed.
ServerHasItsStores == service.up => StoresOf(service.loaded)

\* README: the certificate_transfer relation is there "to trust the CA they
\* use".  The running JVM trusts the CAs that were transferred.
OAuthCasAreTrusted ==
    Quiescent /\ service.up => service.loaded.cacerts.cas = world.oauthCas

\* When the world stops changing, the service ends up running what the databags and
\* relations ask for, with the operator's admin password, and the truststore trusts
\* the clients' CAs, however little of the change Juju told the unit.
ConfigConverges ==
    <>[]/\ service.up
        /\ service.loaded.yml = Render(app, unit, world)
        /\ world.userPw # Empty => service.loaded.yml.admin = world.userPw
        /\ TrustsClients
=============================================================================
