--------------------------- MODULE UnitAgentProofs ---------------------------
(* Theorems about UnitAgent, for every value of its constants. *)
EXTENDS UnitAgent, TLAPS, SequenceTheorems

(* What the helpers return. *)
LEMMA FreshAboveType == \A n : FreshAbove(n) \subseteq Nat \ {Empty, Changeit}
BY PasswordsAssumption DEF FreshAbove

LEMMA EventTasksType == \A e \in Events : EventTasks(e) \in Seq(Tasks)
<1> SUFFICES ASSUME NEW e \in Events PROVE EventTasks(e) \in Seq(Tasks)
  OBVIOUS
<1>1. "secrets" \in Tasks /\ "reconcile" \in Tasks
  BY DEF Tasks
<1>2. CASE e \in {"start", "config", "status"}
  <2>1. EventTasks(e) = <<"secrets", "reconcile">>
    BY <1>2 DEF EventTasks
  <2>2. <<"secrets", "reconcile">> \in Seq(Tasks)
    BY <1>1
  <2> QED
    BY <2>1, <2>2
<1>3. CASE e \in {"secret", "relation"}
  <2>1. EventTasks(e) \in {<<"secrets">>, <<"reconcile">>}
    BY <1>3 DEF EventTasks
  <2>2. <<"secrets">> \in Seq(Tasks) /\ <<"reconcile">> \in Seq(Tasks)
    BY <1>1
  <2> QED
    BY <2>1, <2>2
<1>4. CASE e \notin {"start", "config", "status", "secret", "relation"}
  <2>1. EventTasks(e) = <<e>> /\ e \in Tasks
    BY <1>4 DEF EventTasks, Events, Tasks
  <2> QED
    BY <2>1
<1> QED
  BY <1>2, <1>3, <1>4

LEMMA WorldType == ASSUME world \in Worlds PROVE world \in World
BY WorldsAssumption

LEMMA PasswordTypes ==
    ASSUME NEW n, NEW p \in FreshAbove(n), NEW m, NEW q \in FreshAbove(m)
    PROVE  /\ \A a \in App : AppPasswords(a, p, q) \in App
           /\ \A u \in Unit : SelfSigned(u, p, q) \in Unit
<1>1. p \in Nat /\ q \in Nat
  BY FreshAboveType
<1> QED
  BY <1>1 DEF AppPasswords, SelfSigned, App, Unit, Cert

LEMMA RenderType ==
    ASSUME NEW a \in App, NEW u \in Unit, NEW w \in World
    PROVE  Render(a, u, w) \in Yml
BY DEF Render, App, Unit, World, Yml, Empty

(* TypeOK of the values a step makes. *)
LEMMA ImportBundleType ==
    ASSUME NEW ts \in Truststore, NEW u \in Unit
    PROVE  ImportBundle(ts, u) \in Truststore
BY DEF Truststore, Unit, ImportBundle, Cert

LEMMA NoStoresType == NoTruststore \in Truststore /\ NoKeystore \in Keystore
BY DEF NoTruststore, NoKeystore, Truststore, Keystore, NoCert, Cert, Empty

LEMMA RemoveStoresType == ASSUME NEW d \in Disk PROVE RemoveStores(d) \in Disk
BY NoStoresType DEF RemoveStores, Disk

-----------------------------------------------------------------------------
(* Type correctness. *)

LEMMA TypeInit == Init => TypeOK
<1> SUFFICES ASSUME Init PROVE TypeOK
  OBVIOUS
<1>1. world \in World
  BY WorldType DEF Init
<1>2. disk \in Disk
  <2>1. [pw |-> Empty, cas |-> {}] \in Cacerts
    BY DEF Cacerts, Empty
  <2>2. disk.yml \in Yml
    BY <1>1 DEF Init, Yml, World, Empty
  <2> QED
    BY <2>1, <2>2, NoStoresType DEF Init, Disk, Empty
<1>3. app \in App /\ unit \in Unit
  BY DEF Init, App, Unit, NoCert, Cert, Empty
<1>4. service \in Service
  BY <1>2 DEF Init, Service
<1>5. buf \in Buffer
  BY <1>3 DEF Init, Buffer
<1>6. changes \in 0..MaxChanges /\ faults \in 0..MaxFaults
  BY BoundsAssumption DEF Init
<1>7. /\ world \in Worlds /\ issued \in Nat /\ leader \in BOOLEAN /\ silent \in BOOLEAN
      /\ pending \subseteq Events /\ deferred \subseteq Tasks /\ event \in Events
      /\ redo \subseteq Tasks /\ task \in Tasks
      /\ pc \in Steps /\ modified \in BOOLEAN
  BY DEF Init, Events, Tasks, Steps
<1>8. work \in Seq(Tasks)
  BY DEF Init
<1> QED
  BY <1>2, <1>3, <1>4, <1>5, <1>6, <1>7, <1>8 DEF TypeOK

(* A handler's step leaves what Keep names alone: what is left to check. *)
LEMMA HandlerType ==
    ASSUME TypeOK, Keep,
           buf' \in Buffer, work' \in Seq(Tasks), pc' \in Steps, modified' \in BOOLEAN,
           disk' \in Disk, service' \in Service
    PROVE  TypeOK'
BY DEF TypeOK, Keep, jujuVars, commitVars, boundVars

LEMMA EmitType == ASSUME TypeOK, EmitConfigChanged PROVE work' \in Seq(Tasks)
<1>1. EventTasks("config") \in Seq(Tasks)
  BY EventTasksType DEF Events
<1>2. work \in Seq(Tasks)
  BY DEF TypeOK
<1> QED
  BY <1>1, <1>2, ConcatProperties DEF EmitConfigChanged

LEMMA DeferType ==
    ASSUME TypeOK, Defer PROVE buf' \in Buffer /\ pc' \in Steps
BY DEF TypeOK, Defer, Buffer, Goto, Steps

LEMMA SecretsType == TypeOK /\ Secrets => TypeOK'
<1> SUFFICES ASSUME TypeOK, Secrets PROVE TypeOK'
  OBVIOUS
<1>1. buf' \in Buffer
  <2>1. [buf.app EXCEPT !.admin = world.userPw] \in App
    BY WorldType DEF TypeOK, Buffer, App, World
  <2> QED
    BY <2>1 DEF TypeOK, Secrets, Buffer
<1>2. work' \in Seq(Tasks)
  BY EmitType DEF TypeOK, Secrets
<1> QED
  BY <1>1, <1>2, HandlerType DEF TypeOK, Secrets, Goto, Steps, machineVars

LEMMA ReconcileType == TypeOK /\ Reconcile => TypeOK'
<1> SUFFICES ASSUME TypeOK, Reconcile PROVE TypeOK'
  OBVIOUS
<1>1. buf' \in Buffer
  <2>1. CASE Defer
    BY <2>1, DeferType
  <2>2. CASE UNCHANGED buf
    BY <2>2 DEF TypeOK
  <2>3. CASE \E p \in FreshAbove(Changeit) : \E q \in FreshAbove(p) :
               buf' = [buf EXCEPT !.app = AppPasswords(@, p, q), !.dirty = TRUE]
    <3>1. PICK p \in FreshAbove(Changeit) : \E q \in FreshAbove(p) :
               buf' = [buf EXCEPT !.app = AppPasswords(buf.app, p, q), !.dirty = TRUE]
      BY <2>3
    <3>2. PICK q \in FreshAbove(p) :
               buf' = [buf EXCEPT !.app = AppPasswords(buf.app, p, q), !.dirty = TRUE]
      BY <3>1
    <3>3. AppPasswords(buf.app, p, q) \in App
      BY PasswordTypes DEF TypeOK, Buffer
    <3> QED
      BY <3>2, <3>3 DEF TypeOK, Buffer
  <2> QED
    BY <2>1, <2>2, <2>3 DEF Reconcile
<1>2. pc' \in Steps
  BY DEF Reconcile, Defer, Goto, Steps
<1> QED
  BY <1>1, <1>2, HandlerType DEF TypeOK, Reconcile, machineVars

LEMMA InitUnitTlsType == TypeOK /\ InitUnitTls => TypeOK'
<1> SUFFICES ASSUME TypeOK, InitUnitTls PROVE TypeOK'
  OBVIOUS
<1>1. buf' \in Buffer
  BY PasswordTypes DEF TypeOK, InitUnitTls, Buffer
<1>2. pc' \in Steps
  BY DEF InitUnitTls, AfterInitUnitTls, Goto, Steps
<1> QED
  BY <1>1, <1>2, HandlerType DEF TypeOK, InitUnitTls, machineVars

LEMMA SetTruststoreType == TypeOK /\ SetTruststore => TypeOK'
<1> SUFFICES ASSUME TypeOK, SetTruststore PROVE TypeOK'
  OBVIOUS
<1>1. disk' \in Disk
  BY ImportBundleType DEF TypeOK, SetTruststore, Disk, Buffer
<1> QED
  BY <1>1, HandlerType DEF TypeOK, SetTruststore, Goto, Steps

LEMMA SetKeystoreType == TypeOK /\ SetKeystore => TypeOK'
<1> SUFFICES ASSUME TypeOK, SetKeystore PROVE TypeOK'
  OBVIOUS
<1>1. [pw |-> buf.unit.ksPw, cert |-> buf.unit.cert] \in Keystore
  BY DEF TypeOK, Buffer, Unit, Keystore
<1>2. disk' \in Disk
  BY <1>1 DEF TypeOK, SetKeystore, Disk
<1>3. pc' \in Steps
  BY DEF SetKeystore, AfterInitUnitTls, Goto, Steps
<1> QED
  BY <1>2, <1>3, HandlerType DEF TypeOK, SetKeystore

LEMMA CertAvailableType == TypeOK /\ CertAvailable => TypeOK'
BY HandlerType DEF TypeOK, CertAvailable, Goto, Steps, machineVars

LEMMA CertStoreType == TypeOK /\ CertStore => TypeOK'
<1> SUFFICES ASSUME TypeOK, CertStore PROVE TypeOK'
  OBVIOUS
<1>1. [buf.unit EXCEPT !.cert = [issuer |-> "provider", id |-> issued]] \in Unit
  BY DEF TypeOK, Buffer, Unit, Cert
<1>2. buf' \in Buffer
  BY <1>1 DEF TypeOK, CertStore, Buffer
<1>3. disk' \in Disk
  BY RemoveStoresType DEF TypeOK, CertStore
<1> QED
  BY <1>2, <1>3, HandlerType DEF TypeOK, CertStore, Goto, Steps

LEMMA CertEmitType == TypeOK /\ CertEmit => TypeOK'
BY EmitType, HandlerType DEF TypeOK, CertEmit, Goto, Steps, machineVars

LEMMA TlsBrokenType == TypeOK /\ TlsBroken => TypeOK'
<1> SUFFICES ASSUME TypeOK, TlsBroken PROVE TypeOK'
  OBVIOUS
<1>1. [buf.unit EXCEPT !.cert = NoCert] \in Unit
  BY DEF TypeOK, Buffer, Unit, Cert, NoCert
<1>2. buf' \in Buffer
  BY <1>1 DEF TypeOK, TlsBroken, Buffer
<1>3. disk' \in Disk
  BY RemoveStoresType DEF TypeOK, TlsBroken
<1> QED
  BY <1>2, <1>3, HandlerType DEF TypeOK, TlsBroken, Goto, Steps

LEMMA CaChangedType == TypeOK /\ CaChanged => TypeOK'
<1> SUFFICES ASSUME TypeOK, CaChanged PROVE TypeOK'
  OBVIOUS
<1>1. buf' \in Buffer /\ pc' \in Steps
  BY DeferType DEF TypeOK, CaChanged, Goto, Steps
<1> QED
  BY <1>1, HandlerType DEF TypeOK, CaChanged, machineVars

LEMMA CaRemovedType == TypeOK /\ CaRemoved => TypeOK'
<1> SUFFICES ASSUME TypeOK, CaRemoved PROVE TypeOK'
  OBVIOUS
<1>1. buf' \in Buffer /\ pc' \in Steps
  BY DeferType DEF TypeOK, CaRemoved, Goto, Steps
<1> QED
  BY <1>1, HandlerType DEF TypeOK, CaRemoved, machineVars

LEMMA Cacerts1Type == TypeOK /\ Cacerts1 => TypeOK'
<1> SUFFICES ASSUME TypeOK, Cacerts1 PROVE TypeOK'
  OBVIOUS
<1>1. [pw |-> Changeit, cas |-> {}] \in Cacerts
  BY DEF Cacerts, Changeit
<1>2. disk' \in Disk
  BY <1>1 DEF TypeOK, Cacerts1, Disk
<1> QED
  BY <1>2, HandlerType DEF TypeOK, Cacerts1, Goto, Steps

LEMMA CacertsPasswordType == TypeOK /\ CacertsPassword => TypeOK'
<1> SUFFICES ASSUME TypeOK, CacertsPassword PROVE TypeOK'
  OBVIOUS
<1>1. [disk.cacerts EXCEPT !.pw = buf.app.javaPw] \in Cacerts
  BY DEF TypeOK, Disk, Cacerts, Buffer, App
<1>2. disk' \in Disk
  BY <1>1 DEF TypeOK, CacertsPassword, Disk
<1> QED
  BY <1>2, HandlerType DEF TypeOK, CacertsPassword, Goto, Steps

LEMMA CacertsSyncType == TypeOK /\ CacertsSync => TypeOK'
<1> SUFFICES ASSUME TypeOK, CacertsSync PROVE TypeOK'
  OBVIOUS
<1>1. world.oauthCas \subseteq CAs
  BY WorldType DEF TypeOK, World
<1>2. \A S \in SUBSET CAs : [disk EXCEPT !.cacerts.cas = S] \in Disk
  BY DEF TypeOK, Disk, Cacerts
<1>3. disk.cacerts.cas \subseteq CAs
  BY DEF TypeOK, Disk, Cacerts
<1>4. \/ disk' = disk
      \/ \E c \in CAs : \/ disk' = [disk EXCEPT !.cacerts.cas = disk.cacerts.cas \ {c}]
                        \/ disk' = [disk EXCEPT !.cacerts.cas = disk.cacerts.cas \cup {c}]
  BY <1>1, <1>3 DEF CacertsSync
<1>5. disk' \in Disk
  BY <1>2, <1>3, <1>4 DEF TypeOK
<1>6. pc' \in Steps /\ modified' \in BOOLEAN
  BY DEF TypeOK, CacertsSync, Goto, Steps
<1> QED
  BY <1>5, <1>6, HandlerType DEF TypeOK, CacertsSync

LEMMA CheckType == TypeOK /\ Check => TypeOK'
BY HandlerType DEF TypeOK, Check, Goto, Steps, machineVars

LEMMA UpdateTruststoreType == TypeOK /\ UpdateTruststore => TypeOK'
<1> SUFFICES ASSUME TypeOK, UpdateTruststore PROVE TypeOK'
  OBVIOUS
<1>1. \A c \in Clients :
        [disk.truststore EXCEPT !.client[c] = world.ca[c], !.pw = buf.unit.tsPw] \in Truststore
  BY WorldType DEF TypeOK, Disk, Truststore, World, Buffer, Unit
<1>2. disk' \in Disk
  BY ZenonT(30), <1>1 DEF TypeOK, UpdateTruststore, Disk
<1>3. pc' \in Steps
  BY DEF TypeOK, UpdateTruststore, Goto, Steps
<1> QED
  BY <1>2, <1>3, HandlerType DEF TypeOK, UpdateTruststore

LEMMA SetEnvironmentType == TypeOK /\ SetEnvironment => TypeOK'
<1> SUFFICES ASSUME TypeOK, SetEnvironment PROVE TypeOK'
  OBVIOUS
<1>1. disk' \in Disk
  BY DEF TypeOK, SetEnvironment, Disk, Buffer, App
<1> QED
  BY <1>1, HandlerType DEF TypeOK, SetEnvironment, Goto, Steps

LEMMA WriteConfigType == TypeOK /\ WriteConfig => TypeOK'
<1> SUFFICES ASSUME TypeOK, WriteConfig PROVE TypeOK'
  OBVIOUS
<1>1. Render(buf.app, buf.unit, world) \in Yml
  BY RenderType, WorldType DEF TypeOK, Buffer
<1>2. disk' \in Disk
  BY <1>1 DEF TypeOK, WriteConfig, Disk
<1> QED
  BY <1>2, HandlerType DEF TypeOK, WriteConfig, Goto, Steps

LEMMA RestartType == TypeOK /\ Restart => TypeOK'
<1> SUFFICES ASSUME TypeOK, Restart PROVE TypeOK'
  OBVIOUS
<1>1. service' \in Service
  BY DEF TypeOK, Restart, Service
<1> QED
  BY <1>1, HandlerType DEF TypeOK, Restart, Goto, Steps

LEMMA KeytoolFailsType == TypeOK /\ KeytoolFails => TypeOK'
BY HandlerType DEF TypeOK, KeytoolFails, Goto, Steps, machineVars

LEMMA StartHookType ==
    ASSUME TypeOK, NEW e \in Events, StartHook(e),
           pending' \subseteq Events,
           UNCHANGED <<world, issued, leader, commitVars, machineVars, boundVars>>
    PROVE  TypeOK'
<1>1. buf' \in Buffer
  BY DEF TypeOK, StartHook, Buffer
<1>2. work' \in Seq(Tasks)
  BY EventTasksType DEF StartHook
<1> QED
  BY <1>1, <1>2 DEF TypeOK, StartHook, Steps, commitVars, machineVars, boundVars

LEMMA DispatchType == TypeOK /\ Dispatch => TypeOK'
<1> SUFFICES ASSUME TypeOK, Dispatch PROVE TypeOK'
  OBVIOUS
<1>1. task' \in Tasks /\ redo' \subseteq Tasks /\ work' \in Seq(Tasks)
  <2>1. CASE redo = {} /\ work # <<>> /\ task' = Head(work) /\ work' = Tail(work)
             /\ UNCHANGED redo
    BY <2>1, HeadTailProperties DEF TypeOK
  <2> QED
    BY <2>1 DEF TypeOK, Dispatch
<1>2. pc' \in Steps
  BY <1>1 DEF Dispatch, Steps
<1> QED
  BY <1>1, <1>2 DEF TypeOK, Dispatch, jujuVars, commitVars, machineVars, boundVars

LEMMA CommitType == TypeOK /\ Commit => TypeOK'
BY DEF TypeOK, Commit, Buffer, Steps, jujuVars, commitVars, machineVars, boundVars

LEMMA FaultType == TypeOK /\ (Crash \/ RestartFails) => TypeOK'
<1> SUFFICES ASSUME TypeOK, Crash \/ RestartFails PROVE TypeOK'
  OBVIOUS
<1>1. faults' \in 0..MaxFaults
  BY BoundsAssumption DEF TypeOK, Crash, RestartFails
<1>2. service' \in Service
  BY DEF TypeOK, Service, Crash, RestartFails, machineVars
<1> QED
  BY <1>1, <1>2 DEF TypeOK, Crash, RestartFails, Goto, Steps,
                    jujuVars, commitVars, machineVars

LEMMA HeardEvents ==
    ASSUME NEW v, NEW heard \in Heard(v) PROVE heard \subseteq {"relation", "secret"}
BY DEF Heard

(* Juju, the operator and the other units leave the hook and the machine alone. *)
LEMMA WorldChangeType == TypeOK /\ WorldChange => TypeOK'
<1> SUFFICES ASSUME TypeOK, WorldChange PROVE TypeOK'
  OBVIOUS
<1>1. changes' \in 0..MaxChanges
  BY BoundsAssumption DEF TypeOK, WorldChange, CanChange
<1>2. world' \in Worlds /\ issued' \in Nat
  BY DEF TypeOK, WorldChange
<1>3. pending' \subseteq Events
  BY HeardEvents DEF TypeOK, WorldChange, EventsOf, Events
<1>4. silent' \in BOOLEAN
  BY DEF TypeOK, WorldChange
<1> QED
  BY <1>1, <1>2, <1>3, <1>4 DEF TypeOK, WorldChange, commitVars, hookVars, machineVars

LEMMA CertRenewedType == TypeOK /\ CertRenewed => TypeOK'
<1> SUFFICES ASSUME TypeOK, CertRenewed PROVE TypeOK'
  OBVIOUS
<1>1. changes' \in 0..MaxChanges
  BY BoundsAssumption DEF TypeOK, CertRenewed, CanChange
<1>2. issued' \in Nat /\ pending' \subseteq Events
  BY DEF TypeOK, CertRenewed, Events
<1> QED
  BY <1>1, <1>2 DEF TypeOK, CertRenewed, commitVars, hookVars, machineVars

LEMMA LeadershipChangeType == TypeOK /\ LeadershipChange => TypeOK'
<1> SUFFICES ASSUME TypeOK, LeadershipChange PROVE TypeOK'
  OBVIOUS
<1>1. changes' \in 0..MaxChanges
  BY BoundsAssumption DEF TypeOK, LeadershipChange, CanChange
<1> QED
  BY <1>1 DEF TypeOK, LeadershipChange, commitVars, hookVars, machineVars

LEMMA OtherLeaderType ==
    TypeOK /\ (OtherLeaderCreates \/ OtherLeaderRotates) => TypeOK'
<1> SUFFICES ASSUME TypeOK, OtherLeaderCreates \/ OtherLeaderRotates PROVE TypeOK'
  OBVIOUS
<1>1. app' \in App
  <2>1. CASE OtherLeaderCreates
    <3>1. PICK p \in FreshAbove(Changeit) : \E q \in FreshAbove(p) :
                app' = AppPasswords(app, p, q)
      BY <2>1 DEF OtherLeaderCreates
    <3>2. PICK q \in FreshAbove(p) : app' = AppPasswords(app, p, q)
      BY <3>1
    <3> QED
      BY <3>2, PasswordTypes DEF TypeOK
  <2>2. CASE OtherLeaderRotates
    BY <2>2, WorldType DEF TypeOK, OtherLeaderRotates, App, World
  <2> QED
    BY <2>1, <2>2
<1> QED
  BY <1>1 DEF TypeOK, OtherLeaderCreates, OtherLeaderRotates,
              jujuVars, hookVars, machineVars, boundVars

(* TypeOK is inductive. *)
LEMMA TypeNext == TypeOK /\ [Next]_vars => TypeOK'
<1> SUFFICES ASSUME TypeOK, [Next]_vars PROVE TypeOK'
  OBVIOUS
<1>1. CASE WorldChange \/ CertRenewed \/ LeadershipChange
           \/ OtherLeaderCreates \/ OtherLeaderRotates
  BY <1>1, WorldChangeType, CertRenewedType, LeadershipChangeType, OtherLeaderType
<1>2. ASSUME NEW e \in Events, Hook(e) PROVE TypeOK'
  <2>1. pending' \subseteq Events
    BY <1>2 DEF TypeOK, Hook
  <2> QED
    BY <1>2, <2>1, StartHookType DEF Hook
<1>3. CASE Retry
  <2>1. event \in Events /\ pending' \subseteq Events
    BY <1>3 DEF TypeOK, Retry, jujuVars
  <2> QED
    BY <1>3, <2>1, StartHookType DEF Retry, jujuVars
<1>4. CASE Dispatch \/ Commit \/ Crash \/ RestartFails
  BY <1>4, DispatchType, CommitType, FaultType
<1>5. CASE HandlerStep
  BY <1>5, SecretsType, ReconcileType, InitUnitTlsType, SetTruststoreType,
     SetKeystoreType, CertAvailableType, CertStoreType, CertEmitType, TlsBrokenType,
     CaChangedType, CaRemovedType, Cacerts1Type, CacertsPasswordType, CacertsSyncType,
     CheckType, UpdateTruststoreType, SetEnvironmentType, WriteConfigType, RestartType,
     KeytoolFailsType
  DEF HandlerStep
<1>6. CASE UNCHANGED vars
  BY <1>6 DEF TypeOK, vars, jujuVars, commitVars, hookVars, machineVars, boundVars
<1> QED
  BY <1>1, <1>2, <1>3, <1>4, <1>5, <1>6 DEF Next

\* Every variable keeps its type: the passwords, certificates, files and
\* buffered writes a hook leaves are always of the shapes the handlers expect.
THEOREM TypeCorrect == Spec => []TypeOK
BY TypeInit, TypeNext, PTL DEF Spec

-----------------------------------------------------------------------------
(* Passwords that protect files are never replaced.                        *)
(*                                                                         *)
(* A commit writes what the hook buffered, so the buffer must never hold   *)
(* another password than the one that is committed.  For the unit's own    *)
(* databag that is so because only its hooks write it.  The application's  *)
(* is also written by the leader of the moment: a buffer made under one    *)
(* leadership must never be committed under a later one, and is not since  *)
(* the lead is not regained before the hook has ended.                     *)

PreservesApp(a, b)  == a.javaPw # Empty => b.javaPw = a.javaPw
PreservesUnit(u, v) == /\ u.ksPw # Empty => v.ksPw = u.ksPw
                       /\ u.tsPw # Empty => v.tsPw = u.tsPw

BufferPreserves ==
    InHook => /\ leader => PreservesApp(app, buf.app)
              /\ PreservesUnit(unit, buf.unit)

LEMMA HandlersKeep ==
    ASSUME HandlerStep \/ RestartFails
    PROVE  UNCHANGED <<leader, app, unit, deferred, event, redo, task>> /\ InHook
BY DEF HandlerStep, RestartFails, Secrets, Reconcile, InitUnitTls, SetTruststore,
       SetKeystore, CertAvailable, CertStore, CertEmit, TlsBroken, CaChanged, CaRemoved,
       Cacerts1, CacertsPassword, CacertsSync, Check, UpdateTruststore, SetEnvironment,
       WriteConfig, Restart, KeytoolFails, KeytoolRefused, Keep, InHook,
       jujuVars, commitVars

LEMMA HandlersPreserve ==
    ASSUME TypeOK, HandlerStep \/ RestartFails
    PROVE  /\ PreservesApp(buf.app, buf'.app)
           /\ PreservesUnit(buf.unit, buf'.unit)
<1> DEFINE P == /\ PreservesApp(buf.app, buf'.app)
                /\ PreservesUnit(buf.unit, buf'.unit)
<1>0. ASSUME UNCHANGED buf PROVE P
  BY <1>0 DEF PreservesApp, PreservesUnit
<1>1. CASE Secrets
  <2>1. CASE UNCHANGED buf
    BY <2>1, <1>0
  <2>2. CASE buf' = [buf EXCEPT !.app.admin = world.userPw, !.dirty = TRUE]
    <3>1. buf'.app.javaPw = buf.app.javaPw /\ buf'.unit = buf.unit
      BY <2>2 DEF TypeOK, Buffer, App
    <3> QED
      BY <3>1 DEF PreservesApp, PreservesUnit
  <2> QED
    BY <1>1, <2>1, <2>2 DEF Secrets
<1>2. CASE Reconcile
  <2>1. CASE UNCHANGED buf
    BY <2>1, <1>0
  <2>2. CASE Defer
    BY <2>2 DEF TypeOK, Defer, Buffer, PreservesApp, PreservesUnit
  <2>3. ASSUME NEW p, NEW q,
               buf' = [buf EXCEPT !.app = AppPasswords(buf.app, p, q), !.dirty = TRUE]
        PROVE  P
    <3>1. buf'.app = AppPasswords(buf.app, p, q) /\ buf'.unit = buf.unit
      BY <2>3 DEF TypeOK, Buffer
    <3> QED
      BY <3>1 DEF AppPasswords, PreservesApp, PreservesUnit
  <2> QED
    BY <1>2, <2>1, <2>2, <2>3 DEF Reconcile
<1>3. CASE InitUnitTls
  <2>1. CASE UNCHANGED buf
    BY <2>1, <1>0
  <2>2. ASSUME NEW p, NEW q,
               buf' = [buf EXCEPT !.unit = SelfSigned(buf.unit, p, q)]
        PROVE  P
    <3>1. buf'.unit = SelfSigned(buf.unit, p, q) /\ buf'.app = buf.app
      BY <2>2 DEF TypeOK, Buffer
    <3> QED
      BY <3>1 DEF SelfSigned, PreservesApp, PreservesUnit
  <2> QED
    BY <1>3, <2>1, <2>2 DEF InitUnitTls
<1>4. CASE CertStore \/ TlsBroken
  <2>1. PICK c : buf'.unit = [buf.unit EXCEPT !.cert = c] /\ buf'.app = buf.app
    <3>1. CASE CertStore
      BY <3>1 DEF CertStore, TypeOK, Buffer
    <3>2. CASE TlsBroken
      BY <3>2 DEF TlsBroken, TypeOK, Buffer
    <3> QED
      BY <1>4, <3>1, <3>2
  <2>2. buf'.unit.ksPw = buf.unit.ksPw /\ buf'.unit.tsPw = buf.unit.tsPw
    BY <2>1 DEF TypeOK, Buffer, Unit
  <2> QED
    BY <2>1, <2>2 DEF PreservesApp, PreservesUnit
<1>5. CASE CaChanged \/ CaRemoved
  <2>1. CASE UNCHANGED buf
    BY <2>1, <1>0
  <2>2. CASE Defer
    BY <2>2 DEF TypeOK, Defer, Buffer, PreservesApp, PreservesUnit
  <2> QED
    BY <1>5, <2>1, <2>2 DEF CaChanged, CaRemoved
<1>6. CASE \/ SetTruststore \/ SetKeystore \/ CertAvailable \/ CertEmit
           \/ Cacerts1 \/ CacertsPassword \/ CacertsSync
           \/ Check \/ UpdateTruststore \/ SetEnvironment \/ WriteConfig
           \/ Restart \/ RestartFails \/ KeytoolFails
  <2>1. UNCHANGED buf
    BY <1>6 DEF SetTruststore, SetKeystore, CertAvailable, CertEmit, Cacerts1,
       CacertsPassword, CacertsSync, Check, UpdateTruststore, SetEnvironment, WriteConfig,
       Restart, RestartFails, KeytoolFails
  <2> QED
    BY <2>1, <1>0
<1> QED
  BY <1>1, <1>2, <1>3, <1>4, <1>5, <1>6 DEF HandlerStep

\* Only Commit and the other leader write what is committed.
LEMMA BufferPreservesNext ==
    TypeOK /\ BufferPreserves /\ [Next]_vars => BufferPreserves'
<1> SUFFICES ASSUME TypeOK, BufferPreserves, [Next]_vars PROVE BufferPreserves'
  OBVIOUS
<1>1. CASE HandlerStep \/ RestartFails
  BY <1>1, HandlersKeep, HandlersPreserve
     DEF BufferPreserves, PreservesApp, PreservesUnit, InHook
<1>2. ASSUME NEW e, StartHook(e), UNCHANGED <<leader, app, unit>> PROVE BufferPreserves'
  BY <1>2 DEF StartHook, BufferPreserves, PreservesApp, PreservesUnit
<1>3. CASE Dispatch
  BY <1>3 DEF Dispatch, BufferPreserves, PreservesApp, PreservesUnit, InHook,
              jujuVars, commitVars
<1>4. CASE Commit \/ Crash
  BY <1>4 DEF Commit, Crash, BufferPreserves, InHook
<1>5. CASE WorldChange \/ CertRenewed
  BY <1>5 DEF WorldChange, CertRenewed, BufferPreserves, InHook, commitVars, hookVars
<1>6. CASE LeadershipChange
  BY <1>6 DEF LeadershipChange, BufferPreserves, PreservesApp, PreservesUnit, InHook,
              commitVars, hookVars
<1>7. CASE OtherLeaderCreates \/ OtherLeaderRotates
  BY <1>7 DEF OtherLeaderCreates, OtherLeaderRotates, BufferPreserves, PreservesUnit,
              InHook, jujuVars, hookVars
<1>8. CASE UNCHANGED vars
  BY <1>8 DEF vars, BufferPreserves, PreservesApp, PreservesUnit, InHook,
              jujuVars, commitVars, hookVars
<1> QED
  BY <1>1, <1>2, <1>3, <1>4, <1>5, <1>6, <1>7, <1>8
     DEF Next, Hook, Retry, commitVars, jujuVars

LEMMA CommitsPreserve ==
    ASSUME TypeOK, BufferPreserves, [Next]_vars
    PROVE  PreservesApp(app, app') /\ PreservesUnit(unit, unit')
<1>1. CASE Commit
  <2>1. InHook
    BY <1>1 DEF Commit, InHook
  <2> QED
    BY <1>1, <2>1 DEF Commit, BufferPreserves, PreservesApp, PreservesUnit, commitVars
<1>2. CASE OtherLeaderCreates
  <2>1. PICK p, q : app' = AppPasswords(app, p, q)
    BY <1>2 DEF OtherLeaderCreates
  <2> QED
    BY <1>2, <2>1 DEF OtherLeaderCreates, AppPasswords, PreservesApp, PreservesUnit
<1>3. CASE OtherLeaderRotates
  BY <1>3 DEF OtherLeaderRotates, TypeOK, App, PreservesApp, PreservesUnit
<1>4. ASSUME UNCHANGED <<app, unit>> PROVE PreservesApp(app, app') /\ PreservesUnit(unit, unit')
  BY <1>4 DEF PreservesApp, PreservesUnit
<1>5. CASE HandlerStep \/ RestartFails
  BY <1>4, <1>5, HandlersKeep
<1>6. CASE \/ WorldChange \/ CertRenewed \/ LeadershipChange \/ Retry \/ Dispatch \/ Crash
           \/ (\E e \in Events : Hook(e)) \/ UNCHANGED vars
  BY <1>4, <1>6 DEF WorldChange, CertRenewed, LeadershipChange, Retry, Dispatch, Crash,
                    Hook, vars, commitVars
<1> QED
  BY <1>1, <1>2, <1>3, <1>5, <1>6 DEF Next

\* A password that protects a file is never replaced once it is committed,
\* whatever hooks crash, whichever unit leads and whatever relations change:
\* init_app_passwords and init_unit_tls make each of them once.
THEOREM PasswordsPermanent == Spec => StorePasswordsPermanent
<1>1. Init => BufferPreserves
  BY DEF Init, BufferPreserves, InHook
<1>2. TypeOK /\ BufferPreserves /\ [Next]_vars =>
        [/\ app.javaPw # Empty => app'.javaPw = app.javaPw
         /\ unit.ksPw # Empty => unit'.ksPw = unit.ksPw
         /\ unit.tsPw # Empty => unit'.tsPw = unit.tsPw]_vars
  BY CommitsPreserve DEF PreservesApp, PreservesUnit
<1> QED
  BY <1>1, <1>2, TypeCorrect, BufferPreservesNext, PTL DEF Spec, StorePasswordsPermanent


-----------------------------------------------------------------------------
(***************************************************************************)
(* The JVM can open the truststore it is started with: JvmOpensCacerts, for *)
(* every value of UnitAgent's constants and every fault.                    *)
(*                                                                         *)
(* The password of the copied cacerts and the one in /etc/environment are  *)
(* written by different steps, and two different handlers restart the      *)
(* service.  config-changed sets both before it restarts.  The handlers of *)
(* the OAuth CAs set only the first, and rely on a config-changed having   *)
(* gone before them: that is EnvironmentFirst, the part of the inductive   *)
(* invariant about the order in which hooks, deferred handlers and retries *)
(* come.                                                                   *)
(***************************************************************************)

Applying == {"check", "update_truststore", "set_environment", "write_config"}
Copying  == {"cacerts", "cacerts_pw", "cacerts_sync"}
Configuring == {"unit_tls", "set_truststore", "set_keystore"}
ConfigTasks == {"secrets", "reconcile"}

\* Which handler can be at which step.
TaskInv ==
    /\ pc \in Tasks => task = pc
    /\ pc \in {"cert_store", "emit_config"} => task # "reconcile"
    /\ pc \in {"set_truststore", "set_keystore"} /\ task = "reconcile" =>
            buf.unit.cert.issuer = "self"
    /\ pc \in Applying => task = "reconcile"
    /\ pc \in Copying => task \in {"reconcile", "ca_changed", "ca_removed"}

\* The passwords of the truststore's copy and of the environment ...
PasswordsAgree ==
    /\ JvmOpensCacerts
    /\ disk.env # Empty => disk.cacerts.pw = disk.env
    /\ disk.yml.written => disk.env # Empty
\* ... and what a handler may rely on at its next step.
StepKnows ==
    /\ pc = "cacerts_pw" => disk.env = Empty
    /\ pc \in Copying \cup Applying => buf.app.javaPw # Empty
    /\ pc \in Configuring /\ task = "reconcile" => buf.app.javaPw # Empty
    /\ pc \in Applying => disk.cacerts.pw = buf.app.javaPw
    /\ pc \in {"write_config", "restart"} => disk.env # Empty
    /\ pc \in Copying /\ disk.env = Empty => task = "reconcile"

EnvInv == PasswordsAgree /\ StepKnows

HasReconcile(s) == \E i \in 1..Len(s) : s[i] = "reconcile"

\* The hook of the first config-changed runs nothing but config-changed.
FirstHookInv ==
    /\ "start" \in pending => pc = "idle" /\ deferred = {}
    /\ pc # "idle" /\ event = "start" => deferred = {}
    /\ InHook /\ event = "start" => redo = {} /\ work \in Seq(ConfigTasks)

\* A config-changed that was deferred cannot be overtaken by a password.
DeferredInv ==
    InHook /\ "reconcile" \in buf.deferred => ~leader /\ buf.app.javaPw = Empty

\* Until the environment is set, config-changed comes before the handlers of
\* the OAuth CAs.
EnvironmentFirst ==
    disk.env = Empty =>
        /\ pc = "idle" => "start" \in pending \/ "reconcile" \in deferred
        /\ pc # "idle" => event = "start" \/ "reconcile" \in deferred
        /\ InHook /\ (pc = "next" \/ task # "reconcile") =>
                \/ "reconcile" \in redo \cup buf.deferred
                \/ event = "start" /\ HasReconcile(work)
        /\ pc \in {"ca_changed", "ca_removed"} => buf.app.javaPw = Empty

JvmInv == TaskInv /\ EnvInv /\ FirstHookInv /\ DeferredInv /\ EnvironmentFirst

-----------------------------------------------------------------------------
(* Sequences of handlers. *)

LEMMA ConfigTasksType ==
    /\ EventTasks("config") = <<"secrets", "reconcile">>
    /\ EventTasks("start") = <<"secrets", "reconcile">>
    /\ <<"secrets", "reconcile">> \in Seq(ConfigTasks)
BY DEF EventTasks, ConfigTasks

LEMMA HasReconcileConfig == HasReconcile(<<"secrets", "reconcile">>)
<1>1. 2 \in 1..Len(<<"secrets", "reconcile">>)
  OBVIOUS
<1>2. <<"secrets", "reconcile">>[2] = "reconcile"
  OBVIOUS
<1> QED
  BY <1>1, <1>2 DEF HasReconcile

LEMMA HasReconcileTail ==
    ASSUME NEW s \in Seq(Tasks), HasReconcile(s), Head(s) # "reconcile"
    PROVE  HasReconcile(Tail(s))
<1>1. PICK i \in 1..Len(s) : s[i] = "reconcile"
  BY DEF HasReconcile
<1>2. i # 1 /\ s # <<>>
  BY <1>1
<1>3. i - 1 \in 1..Len(Tail(s)) /\ Tail(s)[i - 1] = s[i]
  BY <1>1, <1>2, HeadTailProperties
<1> QED
  BY <1>1, <1>3 DEF HasReconcile

LEMMA HasReconcileConcat ==
    ASSUME NEW s \in Seq(Tasks), NEW r \in Seq(Tasks), HasReconcile(s)
    PROVE  HasReconcile(r \o s)
<1>1. PICK i \in 1..Len(s) : s[i] = "reconcile"
  BY DEF HasReconcile
<1>2. i + Len(r) \in 1..Len(r \o s) /\ (r \o s)[i + Len(r)] = s[i]
  BY <1>1, ConcatProperties
<1> QED
  BY <1>1, <1>2 DEF HasReconcile

-----------------------------------------------------------------------------
(* Which handler is at which step. *)

LEMMA TaskInvHandler ==
    ASSUME TypeOK, TaskInv, HandlerStep \/ RestartFails
    PROVE  TaskInv'
<1> USE HandlersKeep DEF TaskInv, Tasks, Applying, Copying
<1>1. CASE Secrets
  BY <1>1 DEF Secrets, Goto
<1>2. CASE Reconcile
  BY <1>2 DEF Reconcile, Defer, Goto
<1>3. CASE InitUnitTls
  <2>1. CASE Ready(buf.unit)
    BY <1>3, <2>1 DEF InitUnitTls, AfterInitUnitTls, Goto
  <2>2. CASE ~Ready(buf.unit)
    <3>1. PICK q, r : buf' = [buf EXCEPT !.unit = SelfSigned(buf.unit, q, r)]
      BY <1>3, <2>2 DEF InitUnitTls
    <3>2. buf'.unit.cert.issuer = "self"
      BY <3>1 DEF SelfSigned, TypeOK, Buffer
    <3> QED
      BY <1>3, <2>2, <3>2 DEF InitUnitTls, Goto
  <2> QED
    BY <2>1, <2>2
<1>4. CASE SetTruststore
  BY <1>4 DEF SetTruststore, Goto
<1>5. CASE SetKeystore
  BY <1>5 DEF SetKeystore, AfterInitUnitTls, Goto
<1>6. CASE CertAvailable \/ CertStore \/ CertEmit \/ TlsBroken
  BY <1>6 DEF CertAvailable, CertStore, CertEmit, TlsBroken, Goto
<1>7. CASE CaChanged \/ CaRemoved
  BY <1>7 DEF CaChanged, CaRemoved, Defer, Goto
<1>8. CASE Cacerts1 \/ CacertsPassword \/ CacertsSync
  BY <1>8 DEF Cacerts1, CacertsPassword, CacertsSync, Goto
<1>9. CASE Check \/ UpdateTruststore \/ SetEnvironment \/ WriteConfig
  BY <1>9 DEF Check, UpdateTruststore, SetEnvironment, WriteConfig, Goto
<1>10. CASE Restart \/ RestartFails \/ KeytoolFails
  BY <1>10 DEF Restart, RestartFails, KeytoolFails, Goto
<1> QED
  BY <1>1, <1>2, <1>3, <1>4, <1>5, <1>6, <1>7, <1>8, <1>9, <1>10 DEF HandlerStep

LEMMA TaskInvNext == TypeOK /\ TaskInv /\ [Next]_vars => TaskInv'
<1> SUFFICES ASSUME TypeOK, TaskInv, [Next]_vars PROVE TaskInv'
  OBVIOUS
<1> USE DEF TaskInv, Tasks, Applying, Copying
<1>1. CASE HandlerStep \/ RestartFails
  BY <1>1, TaskInvHandler
<1>2. ASSUME NEW e, StartHook(e) PROVE TaskInv'
  BY <1>2 DEF StartHook
<1>3. CASE Dispatch
  <2>1. pc' = task' /\ task' \in Tasks
    BY <1>3, DispatchType DEF Dispatch, TypeOK
  <2> QED
    BY <2>1
<1>4. CASE Commit \/ Crash
  BY <1>4 DEF Commit, Crash
<1>5. CASE UNCHANGED hookVars
  BY <1>5 DEF hookVars
<1> QED
  BY <1>1, <1>2, <1>3, <1>4, <1>5
     DEF Next, Hook, Retry, WorldChange, CertRenewed, LeadershipChange,
         OtherLeaderCreates, OtherLeaderRotates, vars

-----------------------------------------------------------------------------
(* The passwords. *)

\* What a step of a handler does to the passwords and to the file.
LEMMA EnvKept ==
    ASSUME TypeOK, HandlerStep \/ RestartFails,
           ~CacertsPassword, ~Cacerts1, ~SetEnvironment, ~WriteConfig
    PROVE  /\ disk'.env = disk.env
           /\ disk'.cacerts.pw = disk.cacerts.pw
           /\ disk'.yml = disk.yml
<1>1. CASE UNCHANGED disk
  BY <1>1
<1>2. CASE SetTruststore
  BY <1>2 DEF SetTruststore, TypeOK, Disk
<1>3. CASE SetKeystore
  BY <1>3 DEF SetKeystore, TypeOK, Disk
<1>4. CASE CertStore \/ TlsBroken
  BY <1>4 DEF CertStore, TlsBroken, RemoveStores, TypeOK, Disk
<1>5. CASE CacertsSync
  <2>1. CASE UNCHANGED disk
    BY <2>1
  <2>2. CASE \E S : disk' = [disk EXCEPT !.cacerts.cas = S]
    BY <2>2 DEF TypeOK, Disk, Cacerts
  <2> QED
    BY <1>5, <2>1, <2>2 DEF CacertsSync
<1>6. CASE UpdateTruststore
  <2>1. CASE UNCHANGED disk
    BY <2>1
  <2>2. CASE \E t : disk' = [disk EXCEPT !.truststore = t]
    BY <2>2 DEF TypeOK, Disk
  <2>3. ASSUME NEW c, disk' = [disk EXCEPT !.truststore.client[c] = world.ca[c],
                                           !.truststore.pw = buf.unit.tsPw]
        PROVE  \E t : disk' = [disk EXCEPT !.truststore = t]
    <3>1. disk' = [disk EXCEPT !.truststore = disk'.truststore]
      BY <2>3 DEF TypeOK, Disk
    <3> QED
      BY <3>1
  <2> QED
    BY <1>6, <2>1, <2>2, <2>3 DEF UpdateTruststore
<1>7. CASE \/ Secrets \/ Reconcile \/ InitUnitTls \/ CertAvailable \/ CertEmit
           \/ CaChanged \/ CaRemoved \/ Check \/ Restart \/ RestartFails \/ KeytoolFails
  <2>1. UNCHANGED disk
    BY <1>7 DEF Secrets, Reconcile, InitUnitTls, CertAvailable, CertEmit, CaChanged,
                CaRemoved, Check, Restart, RestartFails, KeytoolFails, machineVars
  <2> QED
    BY <2>1
<1> QED
  BY <1>1, <1>2, <1>3, <1>4, <1>5, <1>6, <1>7 DEF HandlerStep

\* The default truststore's password, once made, stays in the buffer.
LEMMA JavaPwKept ==
    ASSUME TypeOK, HandlerStep \/ RestartFails, buf.app.javaPw # Empty
    PROVE  buf'.app.javaPw = buf.app.javaPw
BY HandlersPreserve DEF PreservesApp

LEMMA EnvInvHandler ==
    ASSUME TypeOK, TaskInv, EnvInv, EnvironmentFirst, HandlerStep \/ RestartFails
    PROVE  EnvInv'
<1> USE HandlersKeep, JavaPwKept DEF EnvInv, PasswordsAgree, StepKnows, Applying, Copying, Configuring, Tasks
<1>1. CASE Cacerts1
  <2>1. UNCHANGED <<service, buf>>
    BY <1>1 DEF Cacerts1
  <2>2. CASE Exists(disk.cacerts)
    BY <1>1, <2>1, <2>2 DEF Cacerts1, EnvInv, TaskInv, JvmOpensCacerts, Goto
  <2>3. CASE ~Exists(disk.cacerts)
    <3>1. disk.env = Empty
      BY <2>3 DEF EnvInv, Exists
    <3>2. disk'.env = Empty /\ disk'.yml = disk.yml
      BY <1>1, <2>3, <3>1 DEF Cacerts1, TypeOK, Disk
    <3> QED
      BY <1>1, <2>1, <2>3, <3>1, <3>2 DEF Cacerts1, EnvInv, TaskInv, JvmOpensCacerts, Goto
  <2> QED
    BY <2>2, <2>3
<1>2. CASE CacertsPassword
  <2>1. disk'.env = Empty /\ disk'.yml = disk.yml
    BY <1>2 DEF CacertsPassword, EnvInv, TypeOK, Disk
  <2> QED
    BY <1>2, <2>1 DEF CacertsPassword, EnvInv, JvmOpensCacerts, Goto
<1>3. CASE SetEnvironment
  <2>1. /\ disk'.env = buf.app.javaPw /\ disk'.cacerts = disk.cacerts
        /\ disk'.yml = disk.yml
    BY <1>3 DEF SetEnvironment, TypeOK, Disk
  <2> QED
    BY <1>3, <2>1 DEF SetEnvironment, EnvInv, TaskInv, JvmOpensCacerts, Goto
<1>4. CASE WriteConfig
  <2>1. disk'.env = disk.env /\ disk'.cacerts = disk.cacerts
    BY <1>4 DEF WriteConfig, TypeOK, Disk
  <2> QED
    BY <1>4, <2>1 DEF WriteConfig, EnvInv, JvmOpensCacerts, Goto
<1>5. CASE Restart
  <2>1. service'.loaded = disk /\ disk' = disk
    BY <1>5 DEF Restart
  <2> QED
    BY <1>5, <2>1 DEF Restart, EnvInv, JvmOpensCacerts, Goto
<1>6. CASE RestartFails
  <2>1. service'.loaded = service.loaded /\ service'.up \in {service.up, FALSE} /\ disk' = disk
    BY <1>6 DEF RestartFails, TypeOK, Service
  <2> QED
    BY <1>6, <2>1 DEF RestartFails, EnvInv, JvmOpensCacerts, Goto
<1>7. CASE ~Cacerts1 /\ ~CacertsPassword /\ ~SetEnvironment /\ ~WriteConfig
           /\ ~Restart /\ ~RestartFails
  <2>1. /\ disk'.env = disk.env
        /\ disk'.cacerts.pw = disk.cacerts.pw
        /\ disk'.yml = disk.yml
    BY <1>7, EnvKept
  <2>2. UNCHANGED service
    BY <1>7 DEF HandlerStep, Secrets, Reconcile, InitUnitTls, SetTruststore, SetKeystore,
       CertAvailable, CertStore, CertEmit, TlsBroken, CaChanged, CaRemoved, CacertsSync,
       Check, UpdateTruststore, KeytoolFails, machineVars
  <2>3. PasswordsAgree'
    BY <2>1, <2>2 DEF JvmOpensCacerts
  <2>4. StepKnows'
    <3>1. CASE Secrets
      BY <2>1, <3>1 DEF Secrets, Goto
    <3>2. CASE Reconcile
      <4>1. pc' = "unit_tls" => buf'.app.javaPw # Empty
        <5>1. ASSUME NEW q \in FreshAbove(Changeit), NEW r \in FreshAbove(q),
                     buf' = [buf EXCEPT !.app = AppPasswords(buf.app, q, r), !.dirty = TRUE]
              PROVE  buf'.app.javaPw # Empty
          <6>1. r # Empty
            BY FreshAboveType
          <6>2. buf'.app = AppPasswords(buf.app, q, r)
            BY <5>1 DEF TypeOK, Buffer
          <6> QED
            BY <6>1, <6>2 DEF AppPasswords
        <5> QED
          BY <3>2, <5>1 DEF Reconcile, Defer, Goto
      <4>2. pc' \in {"unit_tls", "next"} /\ task = "reconcile"
        BY <3>2 DEF Reconcile, Defer, Goto, TaskInv
      <4> QED
        BY <2>1, <4>1, <4>2
    <3>3. CASE InitUnitTls
      BY <2>1, <3>3 DEF InitUnitTls, AfterInitUnitTls, Goto
    <3>4. CASE SetTruststore
      BY <2>1, <3>4 DEF SetTruststore, Goto
    <3>5. CASE SetKeystore
      BY <2>1, <3>5 DEF SetKeystore, AfterInitUnitTls, Goto
    <3>6. CASE CertAvailable \/ CertStore \/ CertEmit \/ TlsBroken
      BY <2>1, <3>6 DEF CertAvailable, CertStore, CertEmit, TlsBroken, TaskInv, Goto
    <3>7. CASE CaChanged \/ CaRemoved
      BY <2>1, <3>7 DEF CaChanged, CaRemoved, Defer, TaskInv, EnvironmentFirst, Goto
    <3>8. CASE CacertsSync
      BY <2>1, <3>8 DEF CacertsSync, TaskInv, Goto, Opens
    <3>9. CASE Check \/ UpdateTruststore
      BY <2>1, <3>9 DEF Check, UpdateTruststore, Goto
    <3>10. CASE KeytoolFails
      BY <2>1, <3>10 DEF KeytoolFails, Goto
    <3> QED
      BY <1>7, <3>1, <3>2, <3>3, <3>4, <3>5, <3>6, <3>7, <3>8, <3>9, <3>10 DEF HandlerStep
  <2> QED
    BY <2>3, <2>4
<1> QED
  BY <1>1, <1>2, <1>3, <1>4, <1>5, <1>6, <1>7

LEMMA EnvInvNext ==
    TypeOK /\ TaskInv /\ EnvInv /\ EnvironmentFirst /\ [Next]_vars => EnvInv'
<1> SUFFICES ASSUME TypeOK, TaskInv, EnvInv, EnvironmentFirst, [Next]_vars PROVE EnvInv'
  OBVIOUS
<1> USE DEF EnvInv, PasswordsAgree, StepKnows, JvmOpensCacerts,
            Applying, Copying, Configuring
<1>1. CASE HandlerStep \/ RestartFails
  BY <1>1, EnvInvHandler
<1>2. ASSUME NEW e, StartHook(e), UNCHANGED machineVars PROVE EnvInv'
  BY <1>2 DEF StartHook, machineVars
<1>3. CASE Dispatch
  <2>1. pc' \in Tasks
    BY <1>3, DispatchType DEF Dispatch, TypeOK
  <2> QED
    BY <1>3, <2>1 DEF Dispatch, Tasks, machineVars
<1>4. CASE Commit \/ Crash
  BY <1>4 DEF Commit, Crash, machineVars
<1>5. CASE UNCHANGED <<hookVars, machineVars>>
  BY <1>5 DEF hookVars, machineVars
<1> QED
  BY <1>1, <1>2, <1>3, <1>4, <1>5
     DEF Next, Hook, Retry, WorldChange, CertRenewed, LeadershipChange,
         OtherLeaderCreates, OtherLeaderRotates, vars

-----------------------------------------------------------------------------
(* The order of the handlers. *)

LEMMA FirstHookHandler ==
    ASSUME TypeOK, FirstHookInv, HandlerStep \/ RestartFails
    PROVE  FirstHookInv'
<1>1. UNCHANGED pending
  BY DEF HandlerStep, RestartFails, Secrets, Reconcile, InitUnitTls, SetTruststore,
     SetKeystore, CertAvailable, CertStore, CertEmit, TlsBroken, CaChanged, CaRemoved,
     Cacerts1, CacertsPassword, CacertsSync, Check, UpdateTruststore, SetEnvironment,
     WriteConfig, Restart, KeytoolFails, Keep, jujuVars
<1>2. pc \notin {"idle", "failed"}
  BY HandlersKeep DEF InHook
<1>3. work' = work \/ EmitConfigChanged
  BY DEF HandlerStep, RestartFails, Secrets, Reconcile, InitUnitTls, SetTruststore,
     SetKeystore, CertAvailable, CertStore, CertEmit, TlsBroken, CaChanged, CaRemoved,
     Cacerts1, CacertsPassword, CacertsSync, Check, UpdateTruststore, SetEnvironment,
     WriteConfig, Restart, KeytoolFails
<1>4. work \in Seq(ConfigTasks) => work' \in Seq(ConfigTasks)
  BY <1>3, ConfigTasksType, ConcatProperties DEF EmitConfigChanged
<1> QED
  BY <1>1, <1>2, <1>4, HandlersKeep DEF FirstHookInv, InHook

LEMMA FirstHookNext == TypeOK /\ FirstHookInv /\ [Next]_vars => FirstHookInv'
<1> SUFFICES ASSUME TypeOK, FirstHookInv, [Next]_vars PROVE FirstHookInv'
  OBVIOUS
<1> USE DEF FirstHookInv, InHook
<1>1. CASE HandlerStep \/ RestartFails
  BY <1>1, FirstHookHandler
<1>2. ASSUME NEW e \in Events, Hook(e) PROVE FirstHookInv'
  <2>1. "start" \notin pending' /\ pc' = "next" /\ redo' = deferred /\ deferred' = deferred
    BY <1>2 DEF Hook, StartHook, commitVars
  <2>2. event' = "start" => deferred = {} /\ work' \in Seq(ConfigTasks)
    BY <1>2, ConfigTasksType DEF Hook, StartHook
  <2> QED
    BY <2>1, <2>2
<1>3. CASE Retry
  <2>1. "start" \notin pending' /\ pc' = "next" /\ redo' = deferred /\ deferred' = deferred
        /\ event' = event /\ pc = "failed"
    BY <1>3 DEF Retry, StartHook, commitVars, jujuVars
  <2>2. event' = "start" => work' \in Seq(ConfigTasks)
    BY <1>3, <2>1, ConfigTasksType DEF Retry, StartHook
  <2> QED
    BY <2>1, <2>2
<1>4. CASE Dispatch
  <2>1. work \in Seq(ConfigTasks) /\ work # <<>> => Tail(work) \in Seq(ConfigTasks)
    BY HeadTailProperties
  <2> QED
    BY <1>4, <2>1 DEF Dispatch, jujuVars, commitVars
<1>5. CASE Commit \/ Crash
  BY <1>5 DEF Commit, Crash, jujuVars, commitVars
<1>6. CASE WorldChange
  <2>1. "start" \in pending' => "start" \in pending
    BY <1>6, HeardEvents DEF WorldChange, EventsOf
  <2> QED
    BY <1>6, <2>1 DEF WorldChange, commitVars, hookVars
<1>7. CASE CertRenewed \/ LeadershipChange \/ OtherLeaderCreates \/ OtherLeaderRotates
           \/ UNCHANGED vars
  BY <1>7 DEF CertRenewed, LeadershipChange, OtherLeaderCreates, OtherLeaderRotates,
              vars, jujuVars, commitVars, hookVars
<1> QED
  BY <1>1, <1>2, <1>3, <1>4, <1>5, <1>6, <1>7 DEF Next

\* What a handler defers.
LEMMA DeferredKept ==
    ASSUME TypeOK, HandlerStep \/ RestartFails
    PROVE  \/ buf'.deferred = buf.deferred
           \/ Defer /\ buf'.deferred = buf.deferred \cup {task}
<1>1. CASE buf' = [buf EXCEPT !.app.admin = world.userPw, !.dirty = TRUE]
  BY <1>1 DEF TypeOK, Buffer
<1>2. CASE \E a : buf' = [buf EXCEPT !.app = a, !.dirty = TRUE]
  BY <1>2 DEF TypeOK, Buffer
<1>3. CASE \E u : buf' = [buf EXCEPT !.unit = u]
  BY <1>3 DEF TypeOK, Buffer
<1>4. CASE Defer
  BY <1>4 DEF Defer, TypeOK, Buffer
<1>5. CASE CertStore \/ TlsBroken
  BY <1>5 DEF CertStore, TlsBroken, TypeOK, Buffer
<1>6. CASE Secrets
  BY <1>1, <1>6 DEF Secrets
<1>7. CASE Reconcile
  BY <1>2, <1>4, <1>7 DEF Reconcile
<1>8. CASE InitUnitTls
  BY <1>3, <1>8 DEF InitUnitTls
<1>9. CASE CaChanged \/ CaRemoved
  BY <1>4, <1>9 DEF CaChanged, CaRemoved
<1>10. CASE \/ SetTruststore \/ SetKeystore \/ CertAvailable \/ CertEmit
           \/ Cacerts1 \/ CacertsPassword \/ CacertsSync
           \/ Check \/ UpdateTruststore \/ SetEnvironment \/ WriteConfig
           \/ Restart \/ RestartFails \/ KeytoolFails
  BY <1>10 DEF SetTruststore, SetKeystore, CertAvailable, CertEmit, Cacerts1,
       CacertsPassword, CacertsSync, Check, UpdateTruststore, SetEnvironment, WriteConfig,
       Restart, RestartFails, KeytoolFails
<1> QED
  BY <1>5, <1>6, <1>7, <1>8, <1>9, <1>10 DEF HandlerStep

\* Only the leader's config-changed makes the passwords: a follower that
\* deferred it sees none appear in the same hook.
LEMMA FollowerMakesNoPassword ==
    ASSUME TypeOK, HandlerStep \/ RestartFails, ~leader, buf.app.javaPw = Empty
    PROVE  buf'.app.javaPw = Empty
<1>1. CASE Reconcile
  BY <1>1 DEF Reconcile, Defer, TypeOK, Buffer
<1>2. CASE Secrets
  BY <1>2 DEF Secrets
<1>3. CASE InitUnitTls
  <2>1. CASE \E u : buf' = [buf EXCEPT !.unit = u]
    BY <2>1 DEF TypeOK, Buffer
  <2> QED
    BY <1>3, <2>1 DEF InitUnitTls
<1>4. CASE CertStore \/ TlsBroken
  BY <1>4 DEF CertStore, TlsBroken, TypeOK, Buffer
<1>5. CASE CaChanged \/ CaRemoved
  BY <1>5 DEF CaChanged, CaRemoved, Defer, TypeOK, Buffer
<1>6. CASE \/ SetTruststore \/ SetKeystore \/ CertAvailable \/ CertEmit
           \/ Cacerts1 \/ CacertsPassword \/ CacertsSync
           \/ Check \/ UpdateTruststore \/ SetEnvironment \/ WriteConfig
           \/ Restart \/ RestartFails \/ KeytoolFails
  BY <1>6 DEF SetTruststore, SetKeystore, CertAvailable, CertEmit, Cacerts1,
       CacertsPassword, CacertsSync, Check, UpdateTruststore, SetEnvironment, WriteConfig,
       Restart, RestartFails, KeytoolFails
<1> QED
  BY <1>1, <1>2, <1>3, <1>4, <1>5, <1>6 DEF HandlerStep

LEMMA DeferredInvNext ==
    TypeOK /\ TaskInv /\ DeferredInv /\ [Next]_vars => DeferredInv'
<1> SUFFICES ASSUME TypeOK, TaskInv, DeferredInv, [Next]_vars PROVE DeferredInv'
  OBVIOUS
<1>1. CASE HandlerStep \/ RestartFails
  <2>1. CASE "reconcile" \in buf.deferred
    BY <1>1, <2>1, HandlersKeep, FollowerMakesNoPassword DEF DeferredInv
  <2>2. CASE "reconcile" \notin buf.deferred /\ "reconcile" \in buf'.deferred
    <3>1. Defer /\ task = "reconcile"
      BY <1>1, <2>2, DeferredKept
    <3>2. Reconcile \/ CaChanged \/ CaRemoved
      BY <1>1, <2>2 DEF HandlerStep, RestartFails, Secrets, InitUnitTls, SetTruststore,
         SetKeystore, CertAvailable, CertStore, CertEmit, TlsBroken, Cacerts1,
         CacertsPassword, CacertsSync, Check, UpdateTruststore, SetEnvironment,
         WriteConfig, Restart, KeytoolFails, TypeOK, Buffer
    <3>3. ~leader /\ buf.app.javaPw = Empty
      BY <3>1, <3>2 DEF Reconcile, CaChanged, CaRemoved, TaskInv, Tasks, Defer, Goto
    <3> QED
      BY <1>1, <3>3, HandlersKeep, FollowerMakesNoPassword DEF DeferredInv
  <2> QED
    BY <2>1, <2>2 DEF DeferredInv
<1>2. ASSUME NEW e, StartHook(e) PROVE DeferredInv'
  BY <1>2 DEF StartHook, DeferredInv
<1>3. CASE Dispatch
  BY <1>3 DEF Dispatch, DeferredInv, InHook, jujuVars
<1>4. CASE Commit \/ Crash
  BY <1>4 DEF Commit, Crash, DeferredInv, InHook
<1>5. CASE WorldChange \/ CertRenewed \/ LeadershipChange
  BY <1>5 DEF WorldChange, CertRenewed, LeadershipChange, DeferredInv, InHook, hookVars
<1>6. CASE OtherLeaderCreates \/ OtherLeaderRotates \/ UNCHANGED vars
  BY <1>6 DEF OtherLeaderCreates, OtherLeaderRotates, DeferredInv, InHook, vars,
              hookVars, jujuVars
<1> QED
  BY <1>1, <1>2, <1>3, <1>4, <1>5, <1>6 DEF Next, Hook, Retry

LEMMA EnvNeverCleared ==
    ASSUME TypeOK, EnvInv, HandlerStep \/ RestartFails, disk'.env = Empty
    PROVE  disk.env = Empty
<1>1. CASE Cacerts1 \/ CacertsPassword \/ WriteConfig
  BY <1>1 DEF Cacerts1, CacertsPassword, WriteConfig, TypeOK, Disk
<1>2. CASE SetEnvironment
  BY <1>2 DEF SetEnvironment, EnvInv, StepKnows, Applying, TypeOK, Disk
<1> QED
  BY <1>1, <1>2, EnvKept

\* config-changed does not end before it has set the environment, unless it is
\* deferred.
LEMMA ReconcileEnds ==
    ASSUME TypeOK, TaskInv, EnvInv, HandlerStep \/ RestartFails,
           task = "reconcile", pc' = "next", disk.env = Empty
    PROVE  "reconcile" \in buf'.deferred
<1> USE DEF Goto, TaskInv, Tasks
<1>1. CASE Reconcile
  BY <1>1, DeferredKept DEF Reconcile, Defer, TypeOK, Buffer
<1>2. CASE Check
  <2>1. disk.yml = Render(buf.app, buf.unit, world)
    BY <1>2 DEF Check
  <2>2. disk.yml.written
    BY <2>1 DEF Render
  <2> QED
    BY <2>2 DEF EnvInv, PasswordsAgree
<1>3. CASE Restart \/ RestartFails
  BY <1>3 DEF Restart, RestartFails, EnvInv, StepKnows
<1>4. CASE \/ Secrets \/ InitUnitTls \/ SetTruststore \/ SetKeystore \/ CertAvailable
           \/ CertStore \/ CertEmit \/ TlsBroken \/ CaChanged \/ CaRemoved
  BY <1>4 DEF Secrets, InitUnitTls, SetTruststore, SetKeystore, CertAvailable, CertStore,
              CertEmit, TlsBroken, CaChanged, CaRemoved, AfterInitUnitTls
<1>5. CASE \/ Cacerts1 \/ CacertsPassword \/ CacertsSync \/ UpdateTruststore
           \/ SetEnvironment \/ WriteConfig \/ KeytoolFails
  BY <1>5 DEF Cacerts1, CacertsPassword, CacertsSync, UpdateTruststore,
              SetEnvironment, WriteConfig, KeytoolFails
<1> QED
  BY <1>1, <1>2, <1>3, <1>4, <1>5 DEF HandlerStep

LEMMA EnvironmentFirstHandler ==
    ASSUME TypeOK, TaskInv, EnvInv, EnvironmentFirst, HandlerStep \/ RestartFails
    PROVE  EnvironmentFirst'
<1> SUFFICES ASSUME disk'.env = Empty PROVE EnvironmentFirst'
  BY DEF EnvironmentFirst
<1>1. disk.env = Empty
  BY EnvNeverCleared
<1>2. pc' \notin {"idle", "ca_changed", "ca_removed"}
  BY DEF HandlerStep, RestartFails, Secrets, Reconcile, InitUnitTls, SetTruststore,
     SetKeystore, CertAvailable, CertStore, CertEmit, TlsBroken, CaChanged, CaRemoved,
     Cacerts1, CacertsPassword, CacertsSync, Check, UpdateTruststore, SetEnvironment,
     WriteConfig, Restart, KeytoolFails, AfterInitUnitTls, Defer, Goto
<1>3. event = "start" \/ "reconcile" \in deferred
  BY <1>1, HandlersKeep DEF EnvironmentFirst, InHook
<1>4. ASSUME InHook', pc' = "next" \/ task # "reconcile"
      PROVE  \/ "reconcile" \in redo \cup buf'.deferred
             \/ event = "start" /\ HasReconcile(work')
  <2>1. CASE task = "reconcile"
    BY <1>1, <1>4, <2>1, ReconcileEnds
  <2>2. CASE task # "reconcile"
    <3>1. \/ "reconcile" \in redo \cup buf.deferred
          \/ event = "start" /\ HasReconcile(work)
      BY <1>1, <2>2, HandlersKeep DEF EnvironmentFirst
    <3>2. buf.deferred \subseteq buf'.deferred
      BY DeferredKept
    <3>3. HasReconcile(work) => HasReconcile(work')
      <4>1. work' = work \/ EmitConfigChanged
        BY DEF HandlerStep, RestartFails, Secrets, Reconcile, InitUnitTls, SetTruststore,
           SetKeystore, CertAvailable, CertStore, CertEmit, TlsBroken, CaChanged, CaRemoved,
           Cacerts1, CacertsPassword, CacertsSync, Check, UpdateTruststore, SetEnvironment,
           WriteConfig, Restart, KeytoolFails
      <4>2. EventTasks("config") \in Seq(Tasks) /\ work \in Seq(Tasks)
        BY EventTasksType DEF Events, TypeOK
      <4> QED
        BY <4>1, <4>2, HasReconcileConcat DEF EmitConfigChanged
    <3> QED
      BY <3>1, <3>2, <3>3
  <2> QED
    BY <2>1, <2>2
<1> QED
  BY <1>2, <1>3, <1>4, HandlersKeep DEF EnvironmentFirst

LEMMA EnvironmentFirstNext == TypeOK /\ JvmInv /\ [Next]_vars => EnvironmentFirst'
<1> SUFFICES ASSUME TypeOK, JvmInv, [Next]_vars PROVE EnvironmentFirst'
  OBVIOUS
<1> USE DEF JvmInv
<1>1. CASE HandlerStep \/ RestartFails
  BY <1>1, EnvironmentFirstHandler
<1>2. ASSUME NEW e, StartHook(e), UNCHANGED <<deferred, disk>>,
             disk.env = Empty => e = "start" \/ "reconcile" \in deferred
      PROVE  EnvironmentFirst'
  <2>1. pc' = "next" /\ event' = e /\ redo' = deferred
    BY <1>2 DEF StartHook
  <2>2. e = "start" => HasReconcile(work')
    BY <1>2, ConfigTasksType, HasReconcileConfig DEF StartHook
  <2> QED
    BY <1>2, <2>1, <2>2 DEF EnvironmentFirst
<1>3. ASSUME NEW e \in Events, Hook(e) PROVE EnvironmentFirst'
  BY <1>2, <1>3 DEF Hook, EnvironmentFirst, commitVars, machineVars
<1>4. CASE Retry
  BY <1>2, <1>4 DEF Retry, EnvironmentFirst, commitVars, machineVars
<1>5. CASE Dispatch
  <2> SUFFICES ASSUME disk.env = Empty PROVE EnvironmentFirst'
    BY <1>5 DEF Dispatch, EnvironmentFirst, machineVars
  <2>1. UNCHANGED <<event, buf, deferred, disk>> /\ pc = "next" /\ InHook
    BY <1>5 DEF Dispatch, commitVars, machineVars, InHook
  <2>2. pc' = task' /\ task' \in Tasks
    BY <1>5, DispatchType DEF Dispatch, TypeOK
  <2>3. task' # "reconcile" =>
           \/ "reconcile" \in buf.deferred
           \/ event = "start" /\ HasReconcile(work') /\ task' \in ConfigTasks
    <3> SUFFICES ASSUME task' # "reconcile", "reconcile" \notin buf.deferred
                 PROVE  event = "start" /\ HasReconcile(work') /\ task' \in ConfigTasks
      OBVIOUS
    <3>1. "reconcile" \notin redo
      BY <1>5 DEF Dispatch
    <3>2. event = "start" /\ HasReconcile(work)
      BY <2>1, <3>1 DEF EnvironmentFirst
    <3>3. redo = {} /\ work \in Seq(ConfigTasks)
      BY <2>1, <3>2 DEF FirstHookInv
    <3>4. work # <<>> /\ task' = Head(work) /\ work' = Tail(work)
      BY <1>5, <3>3 DEF Dispatch
    <3>5. task' \in ConfigTasks
      BY <3>3, <3>4, HeadTailProperties
    <3>6. HasReconcile(work')
      BY <3>2, <3>4, HasReconcileTail DEF TypeOK
    <3> QED
      BY <3>2, <3>5, <3>6
  <2>4. task' \in {"ca_changed", "ca_removed"} => buf.app.javaPw = Empty
    BY <2>1, <2>3 DEF DeferredInv, ConfigTasks
  <2>5. event = "start" \/ "reconcile" \in deferred
    BY <2>1 DEF EnvironmentFirst
  <2> QED
    BY <2>1, <2>2, <2>3, <2>4, <2>5 DEF EnvironmentFirst, Tasks
<1>6. CASE Commit
  <2>1. ~HasReconcile(<<>>)
    BY DEF HasReconcile
  <2>2. disk.env = Empty => "reconcile" \in buf.deferred
                            /\ (event = "start" \/ "reconcile" \in deferred)
    BY <1>6, <2>1 DEF Commit, EnvironmentFirst, InHook
  <2>3. /\ UNCHANGED <<disk, event>>
        /\ \/ pc' = "idle" /\ deferred' = buf.deferred
           \/ pc' = "failed" /\ deferred' = deferred
    BY <1>6 DEF Commit, commitVars, machineVars
  <2> QED
    BY <2>2, <2>3 DEF EnvironmentFirst, InHook
<1>7. CASE Crash
  BY <1>7 DEF Crash, EnvironmentFirst, InHook, commitVars, machineVars
<1>8. CASE WorldChange \/ CertRenewed
  <2>1. "start" \in pending => "start" \in pending'
    BY <1>8 DEF WorldChange, CertRenewed, Obsolete
  <2> QED
    BY <1>8, <2>1 DEF WorldChange, CertRenewed, EnvironmentFirst, InHook,
                      commitVars, hookVars, machineVars
<1>9. CASE LeadershipChange \/ OtherLeaderCreates \/ OtherLeaderRotates \/ UNCHANGED vars
  BY <1>9 DEF LeadershipChange, OtherLeaderCreates, OtherLeaderRotates, EnvironmentFirst,
              InHook, vars, jujuVars, commitVars, hookVars, machineVars
<1> QED
  BY <1>1, <1>3, <1>4, <1>5, <1>6, <1>7, <1>8, <1>9 DEF Next

-----------------------------------------------------------------------------
LEMMA JvmInvInit == Init => JvmInv
BY DEF Init, JvmInv, TaskInv, EnvInv, PasswordsAgree, StepKnows, JvmOpensCacerts,
       FirstHookInv, DeferredInv, EnvironmentFirst, InHook, Tasks, Applying, Copying,
       Configuring, Empty

\* Whatever hooks crash, whichever unit leads and however relations change,
\* the JVM that was started last can open its default truststore: the password
\* set_environment gave it is the one reconcile_ca_truststore gave the file.
THEOREM JvmOpensItsTruststore == Spec => []JvmOpensCacerts
<1>1. TypeOK /\ JvmInv /\ [Next]_vars => JvmInv'
  BY TaskInvNext, EnvInvNext, FirstHookNext, DeferredInvNext, EnvironmentFirstNext
     DEF JvmInv
<1>2. JvmInv => JvmOpensCacerts
  BY DEF JvmInv, EnvInv, PasswordsAgree
<1> QED
  BY <1>1, <1>2, JvmInvInit, TypeCorrect, PTL DEF Spec

-----------------------------------------------------------------------------
(***************************************************************************)
(* The stores on disk and the databag stay in step, for every value of     *)
(* UnitAgent's constants: KeystoreServesUnitCert under every fault, and    *)
(* TruststoreTrustsUnitCert, ReconcileStartsServer and StoresOpen as long  *)
(* as no hook is cut short.                                                *)
(*                                                                         *)
(* Files are written at once, the databag when the hook commits, so in the *)
(* middle of a hook the two differ.  What saves the commit is that the     *)
(* hooks which replace a certificate that was committed, those of a new    *)
(* certificate and of a removed relation, begin by removing the stores and *)
(* are retried until they have ended: RenewalAhead.                        *)
(***************************************************************************)

\* The handlers that replace or drop the unit's certificate.
Renewals   == {"cert", "tls_broken"}
Deferrable == {"reconcile", "ca_changed", "ca_removed"}

\* A renewal is run by its own event's hook, after the deferred handlers, and
\* is never deferred itself.
RenewalInv ==
    /\ deferred \subseteq Deferrable /\ buf.deferred \subseteq Deferrable
    /\ InHook => redo \subseteq Deferrable
    /\ InHook => \/ work \in Seq(Tasks \ Renewals)
                 \/ event \in Renewals /\ work = <<event>>
    /\ InHook /\ pc # "next" /\ task \notin Deferrable =>
           redo = {} /\ work \in Seq(Tasks \ Renewals)
    /\ InHook /\ pc # "next" /\ task \in Renewals => event = task
    /\ pc \in Configuring => task \in {"reconcile", "cert"}
    /\ pc = "cert_store" => task = "cert"
    /\ pc = "emit_config" => task \in Renewals

\* The hook has yet to remove the stores.
RenewalAhead ==
    /\ event \in Renewals
    /\ \/ work = <<event>>
       \/ pc = event
       \/ task = "cert" /\ pc \in {"unit_tls", "cert_store"}
       \/ task = "cert" /\ pc \in {"set_truststore", "set_keystore"}
                        /\ buf.unit.cert.issuer = "self"

StoresServe(u) ==
    /\ disk.keystore = [pw |-> u.ksPw, cert |-> u.cert]
    /\ Opens(disk.truststore, u.tsPw)

\* What is committed is what is on disk, or its replacement is on its way.
CommittedServed ==
    /\ pc = "idle" /\ Ready(unit) => StoresServe(unit)
    /\ pc = "failed" /\ Ready(unit) => StoresServe(unit) \/ event \in Renewals
    /\ InHook /\ Ready(unit) =>
           (buf.unit = unit /\ StoresServe(unit)) \/ event \in Renewals
\* The same of what the hook is about to commit.
BufferServed ==
    InHook /\ Ready(buf.unit) =>
        \/ RenewalAhead
        \/ StoresServe(buf.unit)
        \/ pc = "set_truststore"
        \/ pc = "set_keystore" /\ Opens(disk.truststore, buf.unit.tsPw)

KeystoreInv == TaskInv /\ RenewalInv /\ CommittedServed /\ BufferServed

-----------------------------------------------------------------------------
(* What the steps of the handlers do to the stores and to the certificate. *)

\* The steps that neither write a store nor remove one.
LEMMA StoresKept ==
    ASSUME TypeOK, HandlerStep \/ RestartFails,
           ~SetTruststore, ~SetKeystore, ~CertStore, ~TlsBroken, ~UpdateTruststore
    PROVE  disk'.truststore = disk.truststore /\ disk'.keystore = disk.keystore
<1>1. CASE UNCHANGED disk
  BY <1>1
<1>2. CASE Cacerts1
  BY <1>2 DEF Cacerts1, TypeOK, Disk
<1>3. CASE CacertsPassword
  BY <1>3 DEF CacertsPassword, TypeOK, Disk
<1>4. CASE CacertsSync
  <2>1. CASE \E S : disk' = [disk EXCEPT !.cacerts.cas = S]
    BY <2>1 DEF TypeOK, Disk
  <2> QED
    BY <1>1, <1>4, <2>1 DEF CacertsSync
<1>5. CASE SetEnvironment \/ WriteConfig
  BY <1>5 DEF SetEnvironment, WriteConfig, TypeOK, Disk
<1>6. CASE \/ Secrets \/ Reconcile \/ InitUnitTls \/ CertAvailable \/ CertEmit
           \/ CaChanged \/ CaRemoved \/ Check \/ Restart \/ RestartFails \/ KeytoolFails
  <2>1. UNCHANGED disk
    BY <1>6 DEF Secrets, Reconcile, InitUnitTls, CertAvailable, CertEmit, CaChanged,
                CaRemoved, Check, Restart, RestartFails, KeytoolFails, machineVars
  <2> QED
    BY <2>1
<1> QED
  BY <1>2, <1>3, <1>4, <1>5, <1>6 DEF HandlerStep

LEMMA SetTruststoreDoes ==
    ASSUME TypeOK, SetTruststore
    PROVE  /\ disk'.truststore.pw = buf.unit.tsPw
           /\ disk'.truststore.client = disk.truststore.client
           /\ disk'.truststore.bundle = IF disk.truststore.bundle = NoCert
                                        THEN buf.unit.cert ELSE disk.truststore.bundle
           /\ disk'.keystore = disk.keystore
<1>1. disk'.truststore = ImportBundle(disk.truststore, buf.unit)
      /\ disk'.keystore = disk.keystore
  BY DEF SetTruststore, TypeOK, Disk
<1>2. disk.truststore \in Truststore
  BY DEF TypeOK, Disk
<1> QED
  BY <1>1, <1>2 DEF ImportBundle, Truststore

LEMMA SetKeystoreDoes ==
    ASSUME TypeOK, SetKeystore
    PROVE  /\ disk'.keystore = [pw |-> buf.unit.ksPw, cert |-> buf.unit.cert]
           /\ disk'.truststore = disk.truststore
BY DEF SetKeystore, TypeOK, Disk

LEMMA UpdateTruststoreDoes ==
    ASSUME TypeOK, UpdateTruststore
    PROVE  /\ disk'.keystore = disk.keystore
           /\ disk'.truststore.bundle = disk.truststore.bundle
           /\ \/ disk' = disk
              \/ disk'.truststore.pw = buf.unit.tsPw
<1>1. disk.truststore \in Truststore /\ disk \in Disk
  BY DEF TypeOK, Disk
<1>2. ASSUME NEW c, disk' = [disk EXCEPT !.truststore.client[c] = world.ca[c],
                                         !.truststore.pw = buf.unit.tsPw]
      PROVE  /\ disk'.keystore = disk.keystore
             /\ disk'.truststore.bundle = disk.truststore.bundle
             /\ disk'.truststore.pw = buf.unit.tsPw
  BY <1>1, <1>2 DEF Disk, Truststore
<1>3. CASE disk' = disk
  BY <1>3
<1> QED
  BY <1>2, <1>3 DEF UpdateTruststore

LEMMA RemovesStores ==
    ASSUME TypeOK, CertStore \/ TlsBroken
    PROVE  disk'.truststore = NoTruststore /\ disk'.keystore = NoKeystore
BY DEF CertStore, TlsBroken, RemoveStores, TypeOK, Disk

\* The unit's databag is written by init_unit_tls and by the renewals alone.
LEMMA UnitKept ==
    ASSUME TypeOK, HandlerStep \/ RestartFails, ~InitUnitTls, ~CertStore, ~TlsBroken
    PROVE  buf'.unit = buf.unit
<1>1. CASE Secrets
  BY <1>1 DEF Secrets, TypeOK, Buffer
<1>2. CASE Reconcile
  <2>1. CASE \E a : buf' = [buf EXCEPT !.app = a, !.dirty = TRUE]
    BY <2>1 DEF TypeOK, Buffer
  <2> QED
    BY <1>2, <2>1 DEF Reconcile, Defer, TypeOK, Buffer
<1>3. CASE CaChanged \/ CaRemoved
  BY <1>3 DEF CaChanged, CaRemoved, Defer, TypeOK, Buffer
<1>4. CASE \/ SetTruststore \/ SetKeystore \/ CertAvailable \/ CertEmit
           \/ Cacerts1 \/ CacertsPassword \/ CacertsSync
           \/ Check \/ UpdateTruststore \/ SetEnvironment \/ WriteConfig
           \/ Restart \/ RestartFails \/ KeytoolFails
  <2>1. UNCHANGED buf
    BY <1>4 DEF SetTruststore, SetKeystore, CertAvailable, CertEmit, Cacerts1,
       CacertsPassword, CacertsSync, Check, UpdateTruststore, SetEnvironment, WriteConfig,
       Restart, RestartFails, KeytoolFails
  <2> QED
    BY <2>1
<1> QED
  BY <1>1, <1>2, <1>3, <1>4 DEF HandlerStep

\* init_unit_tls leaves a certificate alone and else makes a new one.
LEMMA InitUnitTlsDoes ==
    ASSUME TypeOK, InitUnitTls
    PROVE  IF Ready(buf.unit) THEN UNCHANGED buf /\ pc' = AfterInitUnitTls
           ELSE pc' = "set_truststore" /\ buf'.unit.cert.issuer = "self" /\ Ready(buf'.unit)
<1>1. CASE Ready(buf.unit)
  BY <1>1 DEF InitUnitTls, Goto
<1>2. CASE ~Ready(buf.unit)
  <2>1. PICK p, q : buf' = [buf EXCEPT !.unit = SelfSigned(buf.unit, p, q)]
    BY <1>2 DEF InitUnitTls
  <2>2. buf'.unit.cert = [issuer |-> "self", id |-> p]
    BY <2>1 DEF SelfSigned, TypeOK, Buffer
  <2> QED
    BY <1>2, <2>2 DEF InitUnitTls, Ready, NoCert, Goto
<1> QED
  BY <1>1, <1>2

\* A hook's list of handlers only grows by those of config-changed.
LEMMA WorkKept ==
    ASSUME HandlerStep \/ RestartFails
    PROVE  work' = work \/ ((Secrets \/ CertEmit) /\ EmitConfigChanged)
BY DEF HandlerStep, RestartFails, Secrets, Reconcile, InitUnitTls, SetTruststore,
   SetKeystore, CertAvailable, CertStore, CertEmit, TlsBroken, CaChanged, CaRemoved,
   Cacerts1, CacertsPassword, CacertsSync, Check, UpdateTruststore, SetEnvironment,
   WriteConfig, Restart, KeytoolFails

-----------------------------------------------------------------------------
(* Renewals *)

LEMMA ConfigTasksOther ==
    /\ <<"secrets", "reconcile">> \in Seq(Tasks \ Renewals)
    /\ <<"secrets">> \in Seq(Tasks \ Renewals)
    /\ <<"reconcile">> \in Seq(Tasks \ Renewals)
<1>1. "secrets" \in Tasks \ Renewals /\ "reconcile" \in Tasks \ Renewals
  BY DEF Tasks, Renewals
<1> QED
  BY <1>1

LEMMA EventTasksRenewal ==
    ASSUME NEW e \in Events
    PROVE  \/ EventTasks(e) \in Seq(Tasks \ Renewals)
           \/ e \in Renewals /\ EventTasks(e) = <<e>>
<1>1. CASE e \in {"start", "config", "status"}
  BY <1>1, ConfigTasksOther DEF EventTasks
<1>2. CASE e \in {"secret", "relation"}
  BY <1>2, ConfigTasksOther DEF EventTasks
<1>3. CASE e \in Renewals
  BY <1>3 DEF EventTasks, Renewals
<1>4. CASE e \in {"ca_changed", "ca_removed"}
  <2>1. EventTasks(e) = <<e>> /\ e \in Tasks \ Renewals
    BY <1>4 DEF EventTasks, Tasks, Renewals
  <2> QED
    BY <2>1
<1> QED
  BY <1>1, <1>2, <1>3, <1>4 DEF Events, Renewals

LEMMA RenewalStart ==
    ASSUME TypeOK, RenewalInv, NEW e \in Events, StartHook(e), UNCHANGED deferred
    PROVE  RenewalInv'
<1>1. \/ work' \in Seq(Tasks \ Renewals)
      \/ event' \in Renewals /\ work' = <<event'>>
  BY EventTasksRenewal DEF StartHook
<1>2. pc' = "next" /\ redo' = deferred /\ buf'.deferred = {}
  BY DEF StartHook
<1> QED
  BY <1>1, <1>2 DEF RenewalInv, Configuring, Deferrable

LEMMA RenewalDispatch ==
    ASSUME TypeOK, RenewalInv, Dispatch
    PROVE  RenewalInv'
<1>1. InHook /\ pc' = task' /\ UNCHANGED <<event, buf, deferred>>
  BY DEF Dispatch, InHook, commitVars
<1>2. task' \in Tasks
  BY DispatchType DEF TypeOK
<1>3. CASE task' \in redo /\ redo' = redo \ {task'} /\ UNCHANGED work
  <2>1. task' \in Deferrable
    BY <1>1, <1>3 DEF RenewalInv
  <2> QED
    BY <1>1, <1>3, <2>1 DEF RenewalInv, Deferrable, Renewals, Configuring
<1>4. CASE redo = {} /\ work # <<>> /\ task' = Head(work) /\ work' = Tail(work)
           /\ UNCHANGED redo
  <2>1. work' \in Seq(Tasks \ Renewals) /\ (task' \in Renewals => event = task')
    <3>1. CASE work \in Seq(Tasks \ Renewals)
      BY <1>4, <3>1, HeadTailProperties
    <3>2. CASE event \in Renewals /\ work = <<event>>
      BY <1>4, <3>2
    <3> QED
      BY <1>1, <3>1, <3>2 DEF RenewalInv
  <2> QED
    BY <1>1, <1>2, <1>4, <2>1 DEF RenewalInv, Tasks, Configuring
<1> QED
  BY <1>3, <1>4 DEF Dispatch

LEMMA RenewalHandler ==
    ASSUME TypeOK, TaskInv, RenewalInv, HandlerStep \/ RestartFails
    PROVE  RenewalInv'
<1>1. UNCHANGED <<deferred, event, redo, task>> /\ InHook /\ pc # "next"
  <2>1. pc # "next"
    BY DEF HandlerStep, RestartFails, Secrets, Reconcile, InitUnitTls, SetTruststore,
       SetKeystore, CertAvailable, CertStore, CertEmit, TlsBroken, CaChanged, CaRemoved,
       Cacerts1, CacertsPassword, CacertsSync, Check, UpdateTruststore, SetEnvironment,
       WriteConfig, Restart, KeytoolFails, KeytoolRefused
  <2> QED
    BY <2>1, HandlersKeep
<1>2. buf'.deferred \subseteq Deferrable
  <2>1. CASE Reconcile \/ CaChanged \/ CaRemoved
    <3>1. task \in Deferrable
      BY <2>1 DEF Reconcile, CaChanged, CaRemoved, TaskInv, Tasks, Deferrable
    <3> QED
      BY <3>1, DeferredKept DEF RenewalInv
  <2>2. CASE ~Reconcile /\ ~CaChanged /\ ~CaRemoved
    <3>1. buf'.deferred = buf.deferred
      <4>1. CASE UNCHANGED buf
        BY <4>1
      <4>2. CASE Secrets
        BY <4>2 DEF Secrets, TypeOK, Buffer
      <4>3. CASE InitUnitTls
        <5>1. CASE \E u : buf' = [buf EXCEPT !.unit = u]
          BY <5>1 DEF TypeOK, Buffer
        <5> QED
          BY <4>1, <4>3, <5>1 DEF InitUnitTls
      <4>4. CASE CertStore \/ TlsBroken
        BY <4>4 DEF CertStore, TlsBroken, TypeOK, Buffer
      <4> QED
        BY <2>2, <4>1, <4>2, <4>3, <4>4
           DEF HandlerStep, RestartFails, SetTruststore, SetKeystore, CertAvailable,
               CertEmit, Cacerts1, CacertsPassword, CacertsSync, Check,
               UpdateTruststore, SetEnvironment, WriteConfig, Restart, KeytoolFails
    <3> QED
      BY <3>1 DEF RenewalInv
  <2> QED
    BY <2>1, <2>2
<1>3. /\ work \in Seq(Tasks \ Renewals) => work' \in Seq(Tasks \ Renewals)
      /\ work' # work => work' \in Seq(Tasks \ Renewals)
  <2>1. CASE work' = work
    BY <2>1
  <2>2. CASE (Secrets \/ CertEmit) /\ EmitConfigChanged
    <3>1. task \notin Deferrable
      BY <2>2 DEF Secrets, CertEmit, TaskInv, RenewalInv, Tasks, Deferrable, Renewals
    <3>2. work \in Seq(Tasks \ Renewals)
      BY <1>1, <3>1 DEF RenewalInv
    <3>3. work' = <<"secrets", "reconcile">> \o work
      BY <2>2, ConfigTasksType DEF EmitConfigChanged
    <3> QED
      BY <3>2, <3>3, ConfigTasksOther, ConcatProperties
  <2> QED
    BY <2>1, <2>2, WorkKept
<1>4. /\ pc' \in Configuring => task \in {"reconcile", "cert"}
      /\ pc' = "cert_store" => task = "cert"
      /\ pc' = "emit_config" => task \in Renewals
  <2> USE DEF RenewalInv, TaskInv, Configuring, Renewals, Tasks, Goto
  <2>1. CASE Reconcile \/ InitUnitTls \/ SetTruststore \/ SetKeystore
    <3>1. CASE Reconcile
      BY <3>1 DEF Reconcile, Defer
    <3>2. CASE InitUnitTls
      BY <3>2, InitUnitTlsDoes DEF InitUnitTls, AfterInitUnitTls
    <3>3. CASE SetTruststore
      BY <3>3 DEF SetTruststore
    <3>4. CASE SetKeystore
      BY <3>4 DEF SetKeystore, AfterInitUnitTls
    <3> QED
      BY <2>1, <3>1, <3>2, <3>3, <3>4
  <2>2. CASE CertAvailable \/ CertStore \/ CertEmit \/ TlsBroken
    BY <2>2 DEF CertAvailable, CertStore, CertEmit, TlsBroken
  <2>3. CASE \/ Secrets \/ CaChanged \/ CaRemoved \/ Cacerts1 \/ CacertsPassword
             \/ CacertsSync \/ Check \/ UpdateTruststore \/ SetEnvironment
             \/ WriteConfig \/ Restart \/ RestartFails \/ KeytoolFails
    BY <2>3 DEF Secrets, CaChanged, CaRemoved, Cacerts1, CacertsPassword, CacertsSync,
                Check, UpdateTruststore, SetEnvironment, WriteConfig, Restart,
                RestartFails, KeytoolFails, Defer
  <2> QED
    BY <2>1, <2>2, <2>3 DEF HandlerStep
<1> QED
  BY <1>1, <1>2, <1>3, <1>4 DEF RenewalInv

LEMMA RenewalNext == TypeOK /\ TaskInv /\ RenewalInv /\ [Next]_vars => RenewalInv'
<1> SUFFICES ASSUME TypeOK, TaskInv, RenewalInv, [Next]_vars PROVE RenewalInv'
  OBVIOUS
<1>1. CASE HandlerStep \/ RestartFails
  BY <1>1, RenewalHandler
<1>2. ASSUME NEW e \in Events, Hook(e) PROVE RenewalInv'
  BY <1>2, RenewalStart DEF Hook, commitVars
<1>3. CASE Retry
  BY <1>3, RenewalStart DEF Retry, commitVars, TypeOK
<1>4. CASE Dispatch
  BY <1>4, RenewalDispatch
<1>5. CASE Commit \/ Crash
  BY <1>5 DEF Commit, Crash, RenewalInv, InHook, Configuring, commitVars
<1>6. CASE UNCHANGED <<deferred, hookVars>>
  BY <1>6 DEF RenewalInv, InHook, hookVars
<1> QED
  BY <1>1, <1>2, <1>3, <1>4, <1>5, <1>6
     DEF Next, WorldChange, CertRenewed, LeadershipChange, OtherLeaderCreates,
         OtherLeaderRotates, vars, commitVars

-----------------------------------------------------------------------------
(* The keystore *)

LEMMA CommittedServedHandler ==
    ASSUME TypeOK, TaskInv, RenewalInv, HandlerStep \/ RestartFails,
           event \notin Renewals, Ready(unit), buf.unit = unit, StoresServe(unit)
    PROVE  buf'.unit = unit /\ StoresServe(unit)'
<1>1. ~CertStore /\ ~TlsBroken
  BY HandlersKeep DEF CertStore, TlsBroken, RenewalInv, TaskInv, Tasks, Renewals
<1>2. UNCHANGED unit
  BY HandlersKeep
<1>3. buf'.unit = unit
  <2>1. CASE InitUnitTls
    BY <2>1, InitUnitTlsDoes
  <2> QED
    BY <1>1, <2>1, UnitKept
<1>4. /\ disk'.keystore = [pw |-> unit.ksPw, cert |-> unit.cert]
      /\ disk'.truststore.pw = unit.tsPw
  <2>1. /\ disk.keystore = [pw |-> unit.ksPw, cert |-> unit.cert]
        /\ disk.truststore.pw = unit.tsPw
    BY DEF StoresServe, Opens
  <2>2. CASE SetTruststore
    BY <2>1, <2>2, SetTruststoreDoes
  <2>3. CASE SetKeystore
    BY <2>1, <2>3, SetKeystoreDoes
  <2>4. CASE UpdateTruststore
    BY <2>1, <2>4, UpdateTruststoreDoes
  <2> QED
    BY <1>1, <2>1, <2>2, <2>3, <2>4, StoresKept
<1> QED
  BY <1>2, <1>3, <1>4 DEF StoresServe, Opens

LEMMA CommittedServedNext ==
    TypeOK /\ KeystoreInv /\ [Next]_vars => CommittedServed'
<1> SUFFICES ASSUME TypeOK, KeystoreInv, [Next]_vars PROVE CommittedServed'
  OBVIOUS
<1> USE DEF KeystoreInv
<1>1. CASE HandlerStep \/ RestartFails
  <2>1. UNCHANGED <<unit, event>> /\ InHook /\ pc' # "idle"
    <3>1. pc' # "idle"
      BY <1>1 DEF HandlerStep, RestartFails, Secrets, Reconcile, InitUnitTls,
         SetTruststore, SetKeystore, CertAvailable, CertStore, CertEmit, TlsBroken,
         CaChanged, CaRemoved, Cacerts1, CacertsPassword, CacertsSync, Check,
         UpdateTruststore, SetEnvironment, WriteConfig, Restart, KeytoolFails,
         AfterInitUnitTls, Defer, Goto
    <3> QED
      BY <1>1, <3>1, HandlersKeep
  <2>2. Ready(unit) /\ event \notin Renewals => buf'.unit = unit /\ StoresServe(unit)'
    BY <1>1, <2>1, CommittedServedHandler DEF CommittedServed
  <2> QED
    BY <2>1, <2>2 DEF CommittedServed, InHook
<1>2. ASSUME NEW e, StartHook(e), UNCHANGED <<unit, disk>>, pc \in {"idle", "failed"},
             pc = "failed" => e = event
      PROVE  CommittedServed'
  BY <1>2 DEF StartHook, CommittedServed, StoresServe, InHook
<1>3. CASE Dispatch
  <2>1. pc' \in Tasks
    BY <1>3, DispatchType DEF Dispatch, TypeOK
  <2> QED
    BY <1>3, <2>1 DEF Dispatch, CommittedServed, StoresServe, InHook, Tasks,
                      commitVars, machineVars
<1>4. CASE Commit
  <2>1. InHook /\ UNCHANGED <<disk, event, buf>>
    BY <1>4 DEF Commit, InHook, machineVars
  <2>2. CASE pc' = "idle" /\ unit' = buf.unit
    <3>1. Ready(buf.unit) => StoresServe(buf.unit)
      BY <1>4, <2>1 DEF Commit, BufferServed, RenewalAhead, Renewals
    <3> QED
      BY <2>1, <2>2, <3>1 DEF CommittedServed, StoresServe, InHook
  <2>3. CASE pc' = "failed" /\ UNCHANGED unit
    BY <2>1, <2>3 DEF CommittedServed, StoresServe, InHook
  <2> QED
    BY <1>4, <2>2, <2>3 DEF Commit, commitVars
<1>5. CASE Crash
  BY <1>5 DEF Crash, CommittedServed, StoresServe, InHook, commitVars, machineVars
<1>6. CASE UNCHANGED <<unit, hookVars, machineVars>>
  BY <1>6 DEF CommittedServed, StoresServe, InHook, hookVars, machineVars
<1> QED
  BY <1>1, <1>2, <1>3, <1>4, <1>5, <1>6
     DEF Next, Hook, Retry, WorldChange, CertRenewed, LeadershipChange,
         OtherLeaderCreates, OtherLeaderRotates, vars, commitVars, machineVars

LEMMA BufferServedHandler ==
    ASSUME TypeOK, KeystoreInv, HandlerStep \/ RestartFails
    PROVE  BufferServed'
<1> USE HandlersKeep DEF KeystoreInv
<1> SUFFICES ASSUME InHook', Ready(buf'.unit)
             PROVE  \/ RenewalAhead'
                    \/ StoresServe(buf.unit)'
                    \/ pc' = "set_truststore"
                    \/ pc' = "set_keystore" /\ Opens(disk.truststore, buf.unit.tsPw)'
  BY DEF BufferServed
<1>1. CASE InitUnitTls
  <2>1. CASE Ready(buf.unit)
    <3>1. UNCHANGED <<buf, event, task, work>> /\ pc' = AfterInitUnitTls /\ pc = "unit_tls"
      BY <1>1, <2>1, InitUnitTlsDoes DEF InitUnitTls
    <3>2. UNCHANGED disk
      BY <1>1 DEF InitUnitTls, machineVars
    <3>3. RenewalAhead \/ StoresServe(buf.unit)
      BY <2>1, <3>1 DEF BufferServed
    <3>4. RenewalAhead => RenewalAhead'
      BY <3>1 DEF RenewalAhead, AfterInitUnitTls, Renewals, RenewalInv, Configuring
    <3> QED
      BY <3>1, <3>2, <3>3, <3>4 DEF StoresServe
  <2>2. CASE ~Ready(buf.unit)
    BY <1>1, <2>2, InitUnitTlsDoes
  <2> QED
    BY <2>1, <2>2
<1>2. CASE SetTruststore
  BY <1>2, SetTruststoreDoes DEF SetTruststore, Goto, Opens
<1>3. CASE SetKeystore
  <2>1. UNCHANGED <<buf, event, task, work>> /\ pc = "set_keystore" /\ Ready(buf.unit)
    BY <1>3 DEF SetKeystore
  <2>2. CASE RenewalAhead
    <3>1. work = <<event>> \/ (task = "cert" /\ buf.unit.cert.issuer = "self")
      BY <2>1, <2>2 DEF RenewalAhead, Renewals
    <3> QED
      BY <1>3, <2>1, <2>2, <3>1 DEF RenewalAhead, SetKeystore, AfterInitUnitTls, Goto
  <2>3. CASE Opens(disk.truststore, buf.unit.tsPw)
    BY <1>3, <2>1, <2>3, SetKeystoreDoes DEF StoresServe, Opens
  <2> QED
    BY <2>1, <2>2, <2>3 DEF BufferServed, StoresServe
<1>4. CASE CertAvailable
  BY <1>4 DEF CertAvailable, RenewalAhead, RenewalInv, TaskInv, Tasks, Renewals, Goto
<1>5. CASE CertStore
  BY <1>5 DEF CertStore, Goto
<1>6. CASE TlsBroken
  BY <1>6 DEF TlsBroken, Ready, TypeOK, Buffer, Unit
<1>7. CASE ~InitUnitTls /\ ~SetTruststore /\ ~SetKeystore /\ ~CertAvailable
           /\ ~CertStore /\ ~TlsBroken
  <2>1. buf'.unit = buf.unit
    BY <1>7, UnitKept
  <2>2. pc \notin {"unit_tls", "set_truststore", "set_keystore", "cert", "cert_store",
                   "tls_broken", "next"}
    BY <1>7 DEF HandlerStep, RestartFails, Secrets, Reconcile, CertEmit, CaChanged,
       CaRemoved, Cacerts1, CacertsPassword, CacertsSync, Check, UpdateTruststore,
       SetEnvironment, WriteConfig, Restart, KeytoolFails, Goto, InHook
  <2>3. CASE RenewalAhead
    <3>1. event \in Renewals /\ work = <<event>>
      BY <2>2, <2>3 DEF RenewalAhead, Renewals
    <3>2. task \in Deferrable
      <4>1. work \notin Seq(Tasks \ Renewals)
        BY <3>1
      <4> QED
        BY <2>2, <4>1 DEF RenewalInv
    <3>3. work' = work
      BY <3>2, WorkKept DEF Secrets, CertEmit, TaskInv, RenewalInv, Tasks, Deferrable, Renewals
    <3> QED
      BY <3>1, <3>3 DEF RenewalAhead
  <2>4. CASE StoresServe(buf.unit)
    <3>1. CASE UpdateTruststore
      BY <2>1, <2>4, <3>1, UpdateTruststoreDoes DEF StoresServe, Opens
    <3>2. CASE ~UpdateTruststore
      BY <1>7, <2>1, <2>4, <3>2, StoresKept DEF StoresServe, Opens
    <3> QED
      BY <3>1, <3>2
  <2> QED
    BY <2>1, <2>2, <2>3, <2>4 DEF BufferServed
<1> QED
  BY <1>1, <1>2, <1>3, <1>4, <1>5, <1>6, <1>7

LEMMA BufferServedNext ==
    TypeOK /\ KeystoreInv /\ [Next]_vars => BufferServed'
<1> SUFFICES ASSUME TypeOK, KeystoreInv, [Next]_vars PROVE BufferServed'
  OBVIOUS
<1>1. CASE HandlerStep \/ RestartFails
  BY <1>1, BufferServedHandler
<1>2. ASSUME NEW e \in Events, StartHook(e), UNCHANGED <<unit, disk>>,
             pc \in {"idle", "failed"}, pc = "failed" => e = event
      PROVE  BufferServed'
  <2>1. buf'.unit = unit /\ event' = e /\ work' = EventTasks(e)
    BY <1>2 DEF StartHook
  <2>2. Ready(unit) => StoresServe(unit) \/ e \in Renewals
    BY <1>2 DEF KeystoreInv, CommittedServed
  <2>3. e \in Renewals => RenewalAhead'
    BY <2>1 DEF RenewalAhead, Renewals, EventTasks
  <2> QED
    BY <1>2, <2>1, <2>2, <2>3 DEF BufferServed, StoresServe
<1>3. CASE Dispatch
  <2>1. UNCHANGED <<event, buf, disk>> /\ pc = "next" /\ InHook /\ pc' = task'
    BY <1>3 DEF Dispatch, machineVars, InHook
  <2>2. CASE RenewalAhead
    <3>1. event \in Renewals /\ work = <<event>>
      BY <2>1, <2>2 DEF RenewalAhead, Renewals
    <3>2. work' = work \/ task' = event
      BY <1>3, <3>1 DEF Dispatch
    <3> QED
      BY <2>1, <3>1, <3>2 DEF RenewalAhead, BufferServed
  <2>3. CASE ~RenewalAhead
    BY <2>1, <2>3 DEF KeystoreInv, BufferServed, StoresServe
  <2> QED
    BY <2>2, <2>3
<1>4. CASE Commit \/ Crash
  BY <1>4 DEF Commit, Crash, BufferServed, InHook
<1>5. CASE UNCHANGED <<hookVars, machineVars>>
  BY <1>5 DEF KeystoreInv, BufferServed, RenewalAhead, StoresServe, InHook,
              hookVars, machineVars
<1> QED
  BY <1>1, <1>2, <1>3, <1>4, <1>5
     DEF Next, Hook, Retry, WorldChange, CertRenewed, LeadershipChange, TypeOK,
         OtherLeaderCreates, OtherLeaderRotates, vars, commitVars, machineVars

LEMMA RenewalInit == Init => RenewalInv
BY DEF Init, RenewalInv, InHook, Configuring

\* Between hooks the keystore holds the certificate of the unit databag under
\* its password, and the truststore opens with its own: whatever crashes,
\* leases and restarts went before, a hook that left the stores of another
\* certificate behind is run again before any other, and removes them.
THEOREM KeystoreServes == Spec => []KeystoreServesUnitCert
<1>1. Init => KeystoreInv
  BY RenewalInit, JvmInvInit
     DEF Init, KeystoreInv, JvmInv, CommittedServed, BufferServed, InHook, Ready
<1>2. TypeOK /\ KeystoreInv /\ [Next]_vars => KeystoreInv'
  BY TaskInvNext, RenewalNext, CommittedServedNext, BufferServedNext DEF KeystoreInv
<1>3. KeystoreInv => KeystoreServesUnitCert
  BY DEF KeystoreInv, CommittedServed, StoresServe, KeystoreServesUnitCert
<1> QED
  BY <1>1, <1>2, <1>3, TypeCorrect, PTL DEF Spec

-----------------------------------------------------------------------------
(* As long as no hook is cut short, none fails. *)

\* Hooks are not killed, and the lead outlives them.
HooksEnd == Faults \subseteq {"restart"}

\* The handlers do what follows only with the unit's certificate in hand.
CertificateInHand ==
    /\ pc \in Copying \cup Applying \cup {"restart"} /\ task = "reconcile" => Ready(buf.unit)
    /\ pc \in {"set_truststore", "set_keystore", "cert_store"} => Ready(buf.unit)
\* config-changed restarts the service on the file it has just rendered.
FileRendered ==
    pc = "restart" /\ task = "reconcile" => disk.yml = Render(buf.app, buf.unit, world)

\* The truststore of a certificate; none without one.
TruststoreFollows(u) ==
    IF Ready(u) THEN Opens(disk.truststore, u.tsPw) /\ disk.truststore.bundle = u.cert
                ELSE disk.truststore = NoTruststore
TruststoreInv ==
    /\ pc = "idle" => TruststoreFollows(unit)
    /\ pc = "set_truststore" => disk.truststore = NoTruststore
    /\ InHook /\ pc # "set_truststore" => TruststoreFollows(buf.unit)
KeystoreFollows ==
    /\ pc = "idle" /\ Ready(unit) => disk.keystore.pw = unit.ksPw
    /\ InHook /\ Ready(buf.unit) /\ pc \notin {"set_truststore", "set_keystore"} =>
           disk.keystore.pw = buf.unit.ksPw

\* The copied cacerts has the password that is, or will be, committed.
CacertsOpens(pw) == Exists(disk.cacerts) => Opens(disk.cacerts, pw)
CacertsInv ==
    /\ pc = "idle" => CacertsOpens(app.javaPw)
    /\ InHook /\ pc # "cacerts_pw" => CacertsOpens(buf.app.javaPw)
    /\ pc = "cacerts_sync" => Opens(disk.cacerts, buf.app.javaPw)
    /\ InHook /\ ~buf.dirty => buf.app.javaPw \in {Empty, app.javaPw}
LeadKept == pc # "failed" /\ (InHook /\ buf.dirty => leader)

OrderInv  == JvmInv /\ RenewalInv /\ CertificateInHand /\ FileRendered
SmoothInv == TruststoreInv /\ KeystoreFollows /\ CacertsInv /\ LeadKept

LEMMA CertificateInHandHandler ==
    ASSUME TypeOK, TaskInv, CertificateInHand, HandlerStep \/ RestartFails
    PROVE  CertificateInHand'
<1> USE HandlersKeep DEF CertificateInHand, TaskInv, Tasks, Copying, Applying, Goto
<1>1. CASE InitUnitTls
  BY <1>1, InitUnitTlsDoes DEF AfterInitUnitTls
<1>2. CASE CertStore
  <2>1. buf'.unit.cert = [issuer |-> "provider", id |-> issued]
    BY <1>2 DEF CertStore, TypeOK, Buffer, Unit
  <2> QED
    BY <1>2, <2>1 DEF CertStore, Ready, NoCert
<1>3. CASE TlsBroken
  BY <1>3 DEF TlsBroken
<1>4. CASE SetTruststore \/ SetKeystore
  BY <1>4 DEF SetTruststore, SetKeystore, AfterInitUnitTls
<1>5. CASE \/ Secrets \/ Reconcile \/ CertAvailable \/ CertEmit \/ CaChanged \/ CaRemoved
           \/ Restart \/ RestartFails \/ KeytoolFails
  BY <1>5 DEF Secrets, Reconcile, CertAvailable, CertEmit, CaChanged, CaRemoved,
              Restart, RestartFails, KeytoolFails, Defer
<1>6. CASE \/ Cacerts1 \/ CacertsPassword \/ CacertsSync
           \/ Check \/ UpdateTruststore \/ SetEnvironment \/ WriteConfig
  BY <1>6 DEF Cacerts1, CacertsPassword, CacertsSync, Check, UpdateTruststore,
              SetEnvironment, WriteConfig
<1> QED
  BY <1>1, <1>2, <1>3, <1>4, <1>5, <1>6 DEF HandlerStep

LEMMA FileRenderedHandler ==
    ASSUME TypeOK, TaskInv, HandlerStep \/ RestartFails
    PROVE  FileRendered'
<1>1. CASE WriteConfig
  <2>1. UNCHANGED <<buf, world>>
    BY <1>1 DEF WriteConfig, Keep, jujuVars
  <2>2. disk'.yml = Render(buf.app, buf.unit, world)
    BY <1>1 DEF WriteConfig, TypeOK, Disk
  <2> QED
    BY <2>1, <2>2 DEF FileRendered, Render
<1>2. CASE ~WriteConfig
  <2>1. ~(pc' = "restart" /\ task' = "reconcile")
    BY <1>2, HandlersKeep
       DEF HandlerStep, RestartFails, Secrets, Reconcile, InitUnitTls, SetTruststore,
           SetKeystore, CertAvailable, CertStore, CertEmit, TlsBroken, CaChanged,
           CaRemoved, Cacerts1, CacertsPassword, CacertsSync, Check, UpdateTruststore,
           SetEnvironment, Restart, KeytoolFails, AfterInitUnitTls, Defer, Goto
  <2> QED
    BY <2>1 DEF FileRendered
<1> QED
  BY <1>1, <1>2

LEMMA OrderNext == TypeOK /\ OrderInv /\ [Next]_vars => OrderInv'
<1> SUFFICES ASSUME TypeOK, OrderInv, [Next]_vars PROVE OrderInv'
  OBVIOUS
<1>1. JvmInv' /\ RenewalInv'
  BY TaskInvNext, EnvInvNext, FirstHookNext, DeferredInvNext, EnvironmentFirstNext,
     RenewalNext DEF OrderInv, JvmInv
<1>2. CertificateInHand' /\ FileRendered'
  <2> USE DEF CertificateInHand, FileRendered, Copying, Applying
  <2>1. CASE HandlerStep \/ RestartFails
    BY <2>1, CertificateInHandHandler, FileRenderedHandler DEF OrderInv, JvmInv
  <2>2. CASE pc' \in Tasks \cup {"next", "idle", "failed"}
    BY <2>2 DEF Tasks
  <2>3. CASE Dispatch
    BY <2>2, <2>3, DispatchType DEF Dispatch, TypeOK
  <2>4. CASE UNCHANGED <<hookVars, machineVars>> /\ (UNCHANGED world \/ ~InHook)
    BY <2>4 DEF OrderInv, hookVars, machineVars, Render, Ready, InHook
  <2> QED
    BY <2>1, <2>2, <2>3, <2>4
       DEF Next, Hook, Retry, StartHook, Commit, Crash, WorldChange, CertRenewed,
           LeadershipChange, OtherLeaderCreates, OtherLeaderRotates, vars, jujuVars
<1> QED
  BY <1>1, <1>2 DEF OrderInv

LEMMA OrderInit == Init => OrderInv
BY JvmInvInit, RenewalInit
   DEF Init, OrderInv, CertificateInHand, FileRendered, Copying, Applying

LEMMA OrderCorrect == Spec => []OrderInv
BY OrderInit, OrderNext, TypeCorrect, PTL DEF Spec

-----------------------------------------------------------------------------
(* keytool is not refused *)

LEMMA KeytoolWorks ==
    ASSUME OrderInv, SmoothInv PROVE ~KeytoolRefused
<1> USE DEF OrderInv, SmoothInv
<1>1. pc = "set_truststore" => ~Exists(disk.truststore)
  BY DEF TruststoreInv, NoTruststore, Exists
<1>2. pc \in {"check", "update_truststore"} => Opens(disk.truststore, buf.unit.tsPw)
  <2> SUFFICES ASSUME pc \in {"check", "update_truststore"}
               PROVE  Opens(disk.truststore, buf.unit.tsPw)
    OBVIOUS
  <2>1. task = "reconcile" /\ Ready(buf.unit)
    BY DEF JvmInv, TaskInv, Applying, CertificateInHand
  <2> QED
    BY <2>1 DEF TruststoreInv, TruststoreFollows, InHook
<1>3. pc = "cacerts_sync" => Opens(disk.cacerts, buf.app.javaPw)
  BY DEF CacertsInv
<1> QED
  BY <1>1, <1>2, <1>3 DEF KeytoolRefused

\* What is written to the application's databag, and by whom.
LEMMA DirtyKept ==
    ASSUME TypeOK, HandlerStep \/ RestartFails
    PROVE  /\ ~buf'.dirty => ~buf.dirty /\ buf'.app.javaPw = buf.app.javaPw
           /\ buf'.dirty => buf.dirty \/ leader
<1>1. CASE UNCHANGED buf
  BY <1>1
<1>2. CASE Secrets
  BY <1>1, <1>2 DEF Secrets, TypeOK, Buffer
<1>3. CASE Reconcile
  <2>1. ASSUME leader, NEW a, buf' = [buf EXCEPT !.app = a, !.dirty = TRUE]
        PROVE  buf'.dirty /\ leader
    BY <2>1 DEF TypeOK, Buffer
  <2>2. CASE Defer
    BY <2>2 DEF Defer, TypeOK, Buffer
  <2> QED
    BY <1>1, <1>3, <2>1, <2>2 DEF Reconcile
<1>4. CASE InitUnitTls
  <2>1. CASE \E u : buf' = [buf EXCEPT !.unit = u]
    BY <2>1 DEF TypeOK, Buffer
  <2> QED
    BY <1>1, <1>4, <2>1 DEF InitUnitTls
<1>5. CASE CertStore
  BY <1>5 DEF CertStore, TypeOK, Buffer
<1>6. CASE TlsBroken
  <2>1. buf'.dirty = (buf.dirty \/ leader) /\ buf'.app = buf.app
    BY <1>6 DEF TlsBroken, TypeOK, Buffer
  <2> QED
    BY <2>1
<1>7. CASE CaChanged \/ CaRemoved
  BY <1>1, <1>7 DEF CaChanged, CaRemoved, Defer, TypeOK, Buffer
<1> QED
  BY <1>1, <1>2, <1>3, <1>4, <1>5, <1>6, <1>7
     DEF HandlerStep, RestartFails, SetTruststore, SetKeystore, CertAvailable, CertEmit,
         Cacerts1, CacertsPassword, CacertsSync, Check, UpdateTruststore, SetEnvironment,
         WriteConfig, Restart, KeytoolFails

LEMMA TruststoreHandler ==
    ASSUME TypeOK, OrderInv, SmoothInv, HandlerStep \/ RestartFails
    PROVE  TruststoreInv' /\ KeystoreFollows'
<1> USE HandlersKeep DEF TruststoreFollows, Opens
<1>0. ~KeytoolFails
  BY KeytoolWorks DEF KeytoolFails
<1>1. CASE InitUnitTls
  <2>1. UNCHANGED <<disk, unit>> /\ pc = "unit_tls" /\ InHook
    BY <1>1 DEF InitUnitTls, machineVars
  <2>2. CASE Ready(buf.unit)
    <3>1. UNCHANGED buf /\ pc' \in {"cacerts", "cert_store"}
      BY <1>1, <2>2, InitUnitTlsDoes DEF AfterInitUnitTls
    <3> QED
      BY <2>1, <3>1 DEF SmoothInv, TruststoreInv, KeystoreFollows, InHook
  <2>3. CASE ~Ready(buf.unit)
    <3>1. pc' = "set_truststore" /\ disk.truststore = NoTruststore
      BY <1>1, <2>1, <2>3, InitUnitTlsDoes DEF SmoothInv, TruststoreInv
    <3> QED
      BY <2>1, <3>1 DEF TruststoreInv, KeystoreFollows
  <2> QED
    BY <2>2, <2>3
<1>2. CASE SetTruststore
  <2>1. Ready(buf.unit) /\ disk.truststore.bundle = NoCert
    BY <1>2 DEF SetTruststore, OrderInv, CertificateInHand, SmoothInv, TruststoreInv,
                NoTruststore
  <2>2. UNCHANGED buf /\ pc' = "set_keystore"
    BY <1>2 DEF SetTruststore, Goto
  <2> QED
    BY <1>2, <2>1, <2>2, SetTruststoreDoes DEF TruststoreInv, KeystoreFollows
<1>3. CASE SetKeystore
  <2>1. UNCHANGED buf /\ pc = "set_keystore" /\ pc' \in {"emit_config", "cacerts", "cert_store"}
    BY <1>3 DEF SetKeystore, AfterInitUnitTls, Goto
  <2>2. disk'.truststore = disk.truststore /\ disk'.keystore.pw = buf.unit.ksPw
    BY <1>3, SetKeystoreDoes
  <2> QED
    BY <2>1, <2>2 DEF SmoothInv, TruststoreInv, KeystoreFollows
<1>4. CASE CertStore
  <2>1. pc' = "set_truststore" /\ disk'.truststore = NoTruststore
    BY <1>4, RemovesStores DEF CertStore, Goto
  <2> QED
    BY <2>1 DEF TruststoreInv, KeystoreFollows
<1>5. CASE TlsBroken
  <2>1. ~Ready(buf'.unit) /\ disk'.truststore = NoTruststore
    BY <1>5, RemovesStores DEF TlsBroken, Ready, TypeOK, Buffer, Unit
  <2>2. pc' \in {"emit_config", "next"}
    BY <1>5 DEF TlsBroken, Goto
  <2> QED
    BY <2>1, <2>2 DEF TruststoreInv, KeystoreFollows
<1>6. CASE UpdateTruststore
  <2>1. UNCHANGED buf /\ pc' # "set_truststore" /\ pc' # "idle" /\ pc = "update_truststore"
    BY <1>6 DEF UpdateTruststore, Goto
  <2>2. Ready(buf.unit)
    BY <2>1 DEF OrderInv, JvmInv, TaskInv, CertificateInHand, Applying
  <2> QED
    BY <1>6, <2>1, <2>2, UpdateTruststoreDoes DEF SmoothInv, TruststoreInv, KeystoreFollows
<1>7. CASE ~InitUnitTls /\ ~SetTruststore /\ ~SetKeystore /\ ~CertStore /\ ~TlsBroken
           /\ ~UpdateTruststore
  <2>1. /\ buf'.unit = buf.unit /\ disk'.truststore = disk.truststore
        /\ disk'.keystore = disk.keystore
    BY <1>7, UnitKept, StoresKept
  <2>2. /\ pc \notin {"set_truststore", "set_keystore"}
        /\ pc' \notin {"set_truststore", "set_keystore", "idle"}
    BY <1>0, <1>7 DEF HandlerStep, RestartFails, Secrets, Reconcile, CertAvailable,
       CertEmit, CaChanged, CaRemoved, Cacerts1, CacertsPassword, CacertsSync, Check,
       SetEnvironment, WriteConfig, Restart, Defer, Goto
  <2> QED
    BY <2>1, <2>2 DEF SmoothInv, TruststoreInv, KeystoreFollows
<1> QED
  BY <1>1, <1>2, <1>3, <1>4, <1>5, <1>6, <1>7

LEMMA CacertsHandler ==
    ASSUME TypeOK, OrderInv, SmoothInv, HandlerStep \/ RestartFails
    PROVE  CacertsInv' /\ LeadKept'
<1> USE HandlersKeep DEF CacertsOpens, Opens, Exists
<1>0. ~KeytoolFails
  BY KeytoolWorks DEF KeytoolFails
<1>1. LeadKept'
  <2>1. pc' # "failed"
    BY <1>0 DEF HandlerStep, RestartFails, Secrets, Reconcile, InitUnitTls, SetTruststore,
       SetKeystore, CertAvailable, CertStore, CertEmit, TlsBroken, CaChanged, CaRemoved,
       Cacerts1, CacertsPassword, CacertsSync, Check, UpdateTruststore, SetEnvironment,
       WriteConfig, Restart, AfterInitUnitTls, Defer, Goto
  <2> QED
    BY <2>1, DirtyKept DEF SmoothInv, LeadKept
<1>2. ~buf'.dirty => buf'.app.javaPw \in {Empty, app'.javaPw}
  BY DirtyKept DEF SmoothInv, CacertsInv
<1>3. pc' # "idle"
  BY DEF HandlerStep, RestartFails, Secrets, Reconcile, InitUnitTls, SetTruststore,
     SetKeystore, CertAvailable, CertStore, CertEmit, TlsBroken, CaChanged, CaRemoved,
     Cacerts1, CacertsPassword, CacertsSync, Check, UpdateTruststore, SetEnvironment,
     WriteConfig, Restart, KeytoolFails, AfterInitUnitTls, Defer, Goto
<1>4. /\ InHook' /\ pc' # "cacerts_pw" => CacertsOpens(buf.app.javaPw)'
      /\ pc' = "cacerts_sync" => Opens(disk.cacerts, buf.app.javaPw)'
  <2>1. CASE Cacerts1
    <3>1. UNCHANGED buf /\ pc = "cacerts"
      BY <2>1 DEF Cacerts1
    <3>2. CASE Exists(disk.cacerts)
      BY <2>1, <3>1, <3>2 DEF Cacerts1, SmoothInv, CacertsInv, Goto
    <3>3. CASE ~Exists(disk.cacerts)
      BY <2>1, <3>3 DEF Cacerts1, Goto
    <3> QED
      BY <3>2, <3>3
  <2>2. CASE CacertsPassword
    BY <2>2 DEF CacertsPassword, Goto, TypeOK, Disk, Cacerts
  <2>3. CASE ~Cacerts1 /\ ~CacertsPassword
    <3>1. disk'.cacerts.pw = disk.cacerts.pw
      <4>1. CASE SetEnvironment \/ WriteConfig
        BY <4>1 DEF SetEnvironment, WriteConfig, TypeOK, Disk
      <4> QED
        BY <2>3, <4>1, EnvKept
    <3>2. pc # "cacerts_pw" /\ (pc' = "cacerts_sync" => pc = "cacerts_sync" /\ UNCHANGED buf)
      BY <1>0, <2>3 DEF HandlerStep, RestartFails, Secrets, Reconcile, InitUnitTls,
         SetTruststore, SetKeystore, CertAvailable, CertStore, CertEmit, TlsBroken,
         CaChanged, CaRemoved, CacertsSync, Check, UpdateTruststore, SetEnvironment,
         WriteConfig, Restart, AfterInitUnitTls, Defer, Goto
    <3>3. disk.cacerts.pw # Empty => disk.cacerts.pw = buf.app.javaPw
      BY <3>2 DEF SmoothInv, CacertsInv
    <3>4. buf.app.javaPw # Empty => buf'.app.javaPw = buf.app.javaPw
      BY JavaPwKept
    <3> QED
      BY <3>1, <3>2, <3>3, <3>4 DEF SmoothInv, CacertsInv
  <2> QED
    BY <2>1, <2>2, <2>3
<1> QED
  BY <1>1, <1>2, <1>3, <1>4 DEF CacertsInv

LEMMA SmoothNext ==
    ASSUME HooksEnd PROVE TypeOK /\ OrderInv /\ SmoothInv /\ [Next]_vars => SmoothInv'
<1> SUFFICES ASSUME TypeOK, OrderInv, SmoothInv, [Next]_vars PROVE SmoothInv'
  OBVIOUS
<1> USE DEF SmoothInv, TruststoreInv, TruststoreFollows, KeystoreFollows, CacertsInv,
            CacertsOpens, LeadKept
<1>1. CASE HandlerStep \/ RestartFails
  BY <1>1, TruststoreHandler, CacertsHandler DEF SmoothInv
<1>2. ASSUME NEW e \in Events, Hook(e) PROVE SmoothInv'
  <2>1. /\ pc = "idle" /\ pc' = "next" /\ UNCHANGED <<app, unit, disk, leader>>
        /\ buf'.app = app /\ buf'.unit = unit /\ buf'.dirty = FALSE
    BY <1>2 DEF Hook, StartHook, commitVars, machineVars
  <2> QED
    BY <2>1 DEF InHook
<1>3. CASE Retry
  BY <1>3 DEF Retry
<1>4. CASE Dispatch
  <2>1. /\ pc = "next" /\ pc' \in Tasks /\ UNCHANGED <<app, unit, disk, leader, buf>>
    BY <1>4, DispatchType DEF Dispatch, TypeOK, commitVars, machineVars, jujuVars
  <2> QED
    BY <2>1 DEF InHook, Tasks
<1>5. CASE Commit
  <2>1. /\ pc = "next" /\ pc' = "idle" /\ UNCHANGED disk /\ unit' = buf.unit
        /\ app' = IF buf.dirty THEN buf.app ELSE app
    BY <1>5 DEF Commit, InHook, machineVars
  <2>2. CacertsOpens(app'.javaPw)
    BY <2>1 DEF InHook, Exists, Opens
  <2> QED
    BY <2>1, <2>2 DEF InHook
<1>6. CASE Crash
  BY <1>6 DEF Crash, HooksEnd
<1>7. CASE LeadershipChange
  <2>1. pc = "idle" /\ UNCHANGED <<app, unit, disk, pc>>
    BY <1>7 DEF LeadershipChange, HooksEnd, commitVars, hookVars, machineVars
  <2> QED
    BY <2>1 DEF InHook
<1>8. CASE OtherLeaderCreates \/ OtherLeaderRotates
  <2>1. app.javaPw # Empty => app'.javaPw = app.javaPw
    BY <1>8, CommitsPreserve, BufferPreservesNext
       DEF OtherLeaderCreates, OtherLeaderRotates, AppPasswords, TypeOK, App
  <2>2. UNCHANGED <<unit, buf, disk, pc, leader>>
    BY <1>8 DEF OtherLeaderCreates, OtherLeaderRotates, hookVars, machineVars, jujuVars
  <2> QED
    BY <2>1, <2>2 DEF InHook, Exists, Opens
<1>9. CASE UNCHANGED <<app, unit, leader, hookVars, machineVars>>
  BY <1>9 DEF hookVars, machineVars, InHook
<1> QED
  BY <1>1, <1>2, <1>3, <1>4, <1>5, <1>6, <1>7, <1>8, <1>9
     DEF Next, WorldChange, CertRenewed, vars, jujuVars, commitVars

LEMMA SmoothInit == Init => SmoothInv
BY DEF Init, SmoothInv, TruststoreInv, TruststoreFollows, KeystoreFollows, CacertsInv,
       CacertsOpens, LeadKept, Ready, InHook, Exists

LEMMA SmoothCorrect == ASSUME HooksEnd PROVE Spec => []SmoothInv
<1>1. TypeOK /\ OrderInv /\ SmoothInv /\ [Next]_vars => SmoothInv'
  BY SmoothNext
<1> QED
  BY <1>1, SmoothInit, OrderCorrect, TypeCorrect, PTL DEF Spec

\* As long as no hook is cut short, keytool is never called on a store it
\* cannot open: a truststore is there only with the certificate of the databag
\* and under its password, the copied cacerts only under the application's.
THEOREM KeytoolOpensStores == ASSUME HooksEnd PROVE Spec => []StoresOpen
<1>1. OrderInv /\ SmoothInv => StoresOpen
  BY KeytoolWorks DEF StoresOpen
<1> QED
  BY <1>1, OrderCorrect, SmoothCorrect, PTL

\* As long as no hook is cut short, the truststore between hooks holds the
\* bundle of the unit's certificate: whoever drops a certificate removes the
\* truststore with it, so that set_truststore never finds an earlier alias.
THEOREM TruststoreTrusts == ASSUME HooksEnd PROVE Spec => []TruststoreTrustsUnitCert
<1>1. SmoothInv => TruststoreTrustsUnitCert
  BY DEF SmoothInv, TruststoreInv, TruststoreFollows, TruststoreTrustsUnitCert
<1> QED
  BY <1>1, SmoothCorrect, PTL

\* As long as no hook is cut short, config-changed restarts the service on a
\* file whose stores are on disk under the passwords that the file gives.
THEOREM ReconcileStartsTheServer == ASSUME HooksEnd PROVE Spec => []ReconcileStartsServer
<1>1. OrderInv /\ SmoothInv => ReconcileStartsServer
  <2> SUFFICES ASSUME OrderInv, SmoothInv, pc = "restart", task = "reconcile"
               PROVE  StoresOf(disk)
    BY DEF ReconcileStartsServer
  <2>1. Ready(buf.unit) /\ disk.yml = Render(buf.app, buf.unit, world)
    BY DEF OrderInv, CertificateInHand, FileRendered
  <2>2. disk.keystore.pw = buf.unit.ksPw /\ disk.truststore.pw = buf.unit.tsPw
    BY <2>1 DEF SmoothInv, KeystoreFollows, TruststoreInv, TruststoreFollows, InHook, Opens
  <2> QED
    BY <2>1, <2>2 DEF StoresOf, Render, Opens
<1> QED
  BY <1>1, OrderCorrect, SmoothCorrect, PTL

=============================================================================
