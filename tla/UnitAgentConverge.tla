-------------------------- MODULE UnitAgentConverge --------------------------
(***************************************************************************)
(* What is applied and trusted once every event was handled, for every     *)
(* value of UnitAgent's constants: FileIsApplied, TrustConverges and       *)
(* RestartHasCause.                                                        *)
(*                                                                         *)
(* Nothing remembers that a file is out of date but the queue of events,   *)
(* the deferred handlers and the hook that is run again.  The invariants   *)
(* say for each file that it is up to date or that one of these will see   *)
(* to it: of what is committed, for a hook that fails, and of the hook's   *)
(* buffer, for one that ends.                                              *)
(***************************************************************************)
EXTENDS UnitAgentProofs

\* Hooks are not killed and the service starts when it is restarted.
RestartsEnd == Faults \subseteq {"lease"}
\* Nothing fails.
NoFaults == Faults = {}
\* Every CA's own signature uses SHA-256, as keytool's fingerprints do.
Sha256Only == Sha256CAs = CAs

FileInv ==
    /\ pc # "restart" => service.loaded.yml = disk.yml
    /\ (disk.env # Empty /\ pc \notin {"write_config", "restart"}) => service.up

-----------------------------------------------------------------------------
(* The OAuth CAs *)

SyncEvents == {"start", "ca_changed", "ca_removed"}
HasSync(s) == \E i \in 1..Len(s) : s[i] \in Deferrable
CasSynced  == disk.cacerts.cas = world.oauthCas
CasAwaited == \E e \in SyncEvents : e \in pending

\* The hook has yet to synchronise the CAs.
SyncAhead ==
    \/ redo # {}
    \/ HasSync(work)
    \/ task \in Deferrable /\ pc \in Deferrable \cup Configuring \cup Copying

CasInv ==
    /\ "ca_changed" \in pending => world.oauthCas # {}
    /\ ~Exists(disk.cacerts) => disk.cacerts.cas = {}
    /\ \/ CasSynced \/ CasAwaited \/ deferred # {}
       \/ pc # "idle" /\ event \in SyncEvents
    /\ InHook => CasSynced \/ CasAwaited \/ buf.deferred # {} \/ SyncAhead

-----------------------------------------------------------------------------
(* The clients' CAs *)

\* The events whose own handler is config-changed's.
Reconciling == {"start", "config", "status", "relation"}
RelationAwaited == "start" \in pending \/ "relation" \in pending

\* config-changed is yet to run, or yet to compare the CAs.
ReconcileAhead ==
    \/ "reconcile" \in redo
    \/ HasReconcile(work)
    \/ /\ task = "reconcile"
       /\ pc \in {"reconcile", "check", "update_truststore"} \cup Configuring \cup Copying
\* A renewal is yet to run, or has yet to call config-changed.
RenewalUnfinished ==
    event \in Renewals /\ (work = <<event>> \/ (task = event /\ pc # "next"))

\* Why a client's CA may be missing from the truststore.
CommittedCause ==
    \/ ~Ready(unit) \/ RelationAwaited \/ "reconcile" \in deferred
    \/ pc # "idle" /\ event \in Reconciling \cup Renewals
TrustInv ==
    /\ pc = "restart" => task \in Deferrable
    /\ \/ silent
       \/ TrustsClients /\ pc # "update_truststore"
       \/ CommittedCause
       \/ HooksEnd /\ pc = "update_truststore"
    /\ InHook => \/ silent \/ ~Ready(buf.unit) \/ TrustsClients \/ RelationAwaited
                 \/ "reconcile" \in buf.deferred
                 \/ ReconcileAhead \/ RenewalUnfinished

-----------------------------------------------------------------------------
(* The causes of a restart *)

\* The truststores that a new certificate must not be in.
Bundles == {disk.truststore.bundle, service.loaded.truststore.bundle}
\* A certificate that waits to be handled is newer than those in use.
CertInv ==
    /\ \A b \in Bundles : b.issuer = "provider" => b.id <= issued
    /\ "cert" \in pending \/ (InHook /\ event = "cert" /\ RenewalAhead) =>
           \A b \in Bundles : b.issuer = "provider" => b.id < issued
    /\ InHook /\ event = "cert" => "cert" \notin pending
    /\ pc = "set_truststore" => buf.unit.cert # service.loaded.truststore.bundle
    /\ pc \in {"set_truststore", "set_keystore"} => buf.unit.cert.issuer # "none"
    /\ \A u \in {unit, buf.unit} : u.cert.issuer = "provider" => u.cert.id <= issued

\* The service's truststore is the one on disk, or another certificate's.
LoadedInv ==
    /\ \A d \in {disk, service.loaded} :
           d.truststore.bundle = NoCert => d.truststore = NoTruststore
    /\ service.up /\ pc \notin {"update_truststore", "set_environment", "write_config", "restart"} =>
           \/ service.loaded.truststore = disk.truststore
           \/ service.loaded.truststore.bundle # disk.truststore.bundle

\* The truststore will differ from the one the service loaded.
NewCa ==
    \/ service.loaded.truststore.bundle # disk.truststore.bundle
    \/ \E c \in Clients : /\ world.ca[c] # NoCA
                          /\ world.ca[c] # service.loaded.truststore.client[c]
CauseInv ==
    service.up =>
        /\ pc = "update_truststore" => NewCa
        /\ pc \in {"set_environment", "write_config"} =>
               \/ service.loaded.truststore # disk.truststore
               \/ service.loaded.yml # Render(buf.app, buf.unit, world)
        /\ pc = "restart" /\ task = "reconcile" => service.loaded # disk

-----------------------------------------------------------------------------
(* The configuration file *)

LEMMA FileHandler ==
    ASSUME TypeOK, EnvInv, TaskInv, FileInv, HandlerStep
    PROVE  FileInv'
<1> USE DEF FileInv, Goto
<1>1. CASE Restart
  BY <1>1 DEF Restart
<1>2. CASE WriteConfig
  BY <1>2 DEF WriteConfig
<1>3. CASE SetEnvironment
  <2>1. disk'.yml = disk.yml
    BY <1>3 DEF SetEnvironment, TypeOK, Disk
  <2> QED
    BY <1>3, <2>1 DEF SetEnvironment
<1>4. CASE ~Restart /\ ~WriteConfig /\ ~SetEnvironment
  <2>1. UNCHANGED service /\ pc \notin {"write_config", "restart"}
    BY <1>4 DEF HandlerStep, Secrets, Reconcile, InitUnitTls, SetTruststore,
       SetKeystore, CertAvailable, CertStore, CertEmit, TlsBroken, CaChanged, CaRemoved,
       Cacerts1, CacertsPassword, CacertsSync, Check, UpdateTruststore, KeytoolFails,
       KeytoolRefused, machineVars
  <2>2. disk'.env = disk.env /\ disk'.yml = disk.yml
    <3>1. CASE Cacerts1 \/ CacertsPassword
      BY <3>1 DEF Cacerts1, CacertsPassword, TypeOK, Disk
    <3> QED
      BY <1>4, <3>1, EnvKept
  <2> QED
    BY <2>1, <2>2
<1> QED
  BY <1>1, <1>2, <1>3, <1>4

LEMMA FileNext ==
    ASSUME RestartsEnd
    PROVE  TypeOK /\ OrderInv /\ FileInv /\ [Next]_vars => FileInv'
<1> SUFFICES ASSUME TypeOK, OrderInv, FileInv, [Next]_vars PROVE FileInv'
  OBVIOUS
<1>1. CASE HandlerStep
  BY <1>1, FileHandler DEF OrderInv, JvmInv
<1>2. CASE Crash \/ RestartFails
  BY <1>2 DEF Crash, RestartFails, RestartsEnd
<1>3. CASE Dispatch
  <2>1. pc = "next" /\ UNCHANGED <<disk, service>>
    BY <1>3 DEF Dispatch, machineVars
  <2> QED
    BY <2>1 DEF FileInv
<1>4. CASE pc \in {"idle", "failed", "next"} /\ UNCHANGED machineVars
  BY <1>4 DEF FileInv, machineVars
<1>5. CASE UNCHANGED <<hookVars, machineVars>>
  BY <1>5 DEF FileInv, hookVars, machineVars
<1> QED
  BY <1>1, <1>2, <1>3, <1>4, <1>5
     DEF Next, Hook, Retry, Commit, WorldChange, CertRenewed, LeadershipChange,
         OtherLeaderCreates, OtherLeaderRotates, vars

LEMMA FileInit == Init => FileInv
<1> SUFFICES ASSUME Init PROVE FileInv
  OBVIOUS
<1>1. service.loaded = disk /\ disk.env = Empty
  BY DEF Init
<1> QED
  BY <1>1 DEF FileInv

\* As long as hooks are not killed and the service starts, once every event
\* is handled the service runs, on the configuration file that is on disk: no
\* hook that writes the file leaves the restart out, and none ends before the
\* first config-changed has written it.
THEOREM FileApplied == ASSUME RestartsEnd PROVE Spec => []FileIsApplied
<1>1. TypeOK /\ OrderInv /\ FileInv /\ [Next]_vars => FileInv'
  BY FileNext
<1>2. OrderInv /\ FileInv => FileIsApplied
  BY DEF OrderInv, JvmInv, EnvironmentFirst, FileInv, FileIsApplied, Quiescent
<1> QED
  BY <1>1, <1>2, FileInit, OrderCorrect, TypeCorrect, PTL DEF Spec

-----------------------------------------------------------------------------
(* The OAuth CAs *)

LEMMA HasSyncTail ==
    ASSUME NEW s \in Seq(Tasks), HasSync(s), Head(s) \notin Deferrable
    PROVE  HasSync(Tail(s))
<1>1. PICK i \in 1..Len(s) : s[i] \in Deferrable
  BY DEF HasSync
<1>2. i # 1 /\ s # <<>>
  BY <1>1
<1>3. i - 1 \in 1..Len(Tail(s)) /\ Tail(s)[i - 1] = s[i]
  BY <1>1, <1>2, HeadTailProperties
<1> QED
  BY <1>1, <1>3 DEF HasSync

LEMMA HasSyncConcat ==
    ASSUME NEW s \in Seq(Tasks), NEW r \in Seq(Tasks), HasSync(s)
    PROVE  HasSync(r \o s)
<1>1. PICK i \in 1..Len(s) : s[i] \in Deferrable
  BY DEF HasSync
<1>2. i + Len(r) \in 1..Len(r \o s) /\ (r \o s)[i + Len(r)] = s[i]
  BY <1>1, ConcatProperties
<1> QED
  BY <1>1, <1>2 DEF HasSync

LEMMA HasSyncEvent ==
    ASSUME NEW e \in SyncEvents PROVE HasSync(EventTasks(e))
<1>1. CASE e = "start"
  <2>1. EventTasks(e) = <<"secrets", "reconcile">>
    BY <1>1 DEF EventTasks
  <2>2. 2 \in 1..Len(EventTasks(e)) /\ EventTasks(e)[2] = "reconcile"
    BY <2>1
  <2> QED
    BY <2>2 DEF HasSync, Deferrable
<1>2. CASE e \in {"ca_changed", "ca_removed"}
  <2>1. EventTasks(e) = <<e>>
    BY <1>2 DEF EventTasks
  <2>2. 1 \in 1..Len(EventTasks(e)) /\ EventTasks(e)[1] = e
    BY <2>1
  <2> QED
    BY <1>2, <2>2 DEF HasSync, Deferrable
<1> QED
  BY <1>1, <1>2 DEF SyncEvents

\* What the steps of the handlers do to the copied cacerts.
LEMMA CasKept ==
    ASSUME TypeOK, HandlerStep \/ RestartFails, ~Cacerts1, ~CacertsPassword, ~CacertsSync
    PROVE  disk'.cacerts = disk.cacerts
<1>1. CASE UNCHANGED disk
  BY <1>1
<1>2. CASE SetTruststore \/ SetKeystore
  BY <1>2 DEF SetTruststore, SetKeystore, TypeOK, Disk
<1>3. CASE CertStore \/ TlsBroken
  BY <1>3 DEF CertStore, TlsBroken, RemoveStores, TypeOK, Disk
<1>4. CASE UpdateTruststore
  <2>1. ASSUME NEW c, disk' = [disk EXCEPT !.truststore.client[c] = world.ca[c],
                                           !.truststore.pw = buf.unit.tsPw]
        PROVE  disk'.cacerts = disk.cacerts
    BY <2>1 DEF TypeOK, Disk
  <2> QED
    BY <1>1, <1>4, <2>1 DEF UpdateTruststore
<1>5. CASE SetEnvironment \/ WriteConfig
  BY <1>5 DEF SetEnvironment, WriteConfig, TypeOK, Disk
<1>6. CASE \/ Secrets \/ Reconcile \/ InitUnitTls \/ CertAvailable \/ CertEmit
           \/ CaChanged \/ CaRemoved \/ Check \/ Restart \/ RestartFails \/ KeytoolFails
  <2>1. UNCHANGED disk
    BY <1>6 DEF Secrets, Reconcile, InitUnitTls, CertAvailable, CertEmit, CaChanged,
                CaRemoved, Check, Restart, RestartFails, KeytoolFails, machineVars
  <2> QED
    BY <2>1
<1> QED
  BY <1>2, <1>3, <1>4, <1>5, <1>6 DEF HandlerStep

LEMMA CacertsSyncDoes ==
    ASSUME TypeOK, CacertsSync
    PROVE  /\ disk'.cacerts.pw = disk.cacerts.pw
           /\ CasSynced => UNCHANGED disk
           /\ \/ pc' = pc
              \/ /\ CasSynced
                 /\ pc' \in {"check", "restart", "next"}
                 /\ pc' = "check" <=> task = "reconcile"
<1>1. disk'.cacerts.pw = disk.cacerts.pw
  <2>1. CASE \E S : disk' = [disk EXCEPT !.cacerts.cas = S]
    BY <2>1 DEF TypeOK, Disk, Cacerts
  <2>2. CASE UNCHANGED disk
    BY <2>2
  <2> QED
    BY <2>1, <2>2 DEF CacertsSync
<1>2. CASE CasSynced
  BY <1>1, <1>2 DEF CasSynced, CacertsSync, Goto
<1>3. CASE ~CasSynced
  BY <1>1, <1>3 DEF CasSynced, CacertsSync, Goto
<1> QED
  BY <1>2, <1>3

LEMMA CasSyncedKept ==
    ASSUME TypeOK, EnvInv, CasInv, HandlerStep \/ RestartFails
    PROVE  /\ CasSynced => CasSynced'
           /\ ~Exists(disk.cacerts)' => disk'.cacerts.cas = {}
<1>1. UNCHANGED world
  BY DEF HandlerStep, RestartFails, Secrets, Reconcile, InitUnitTls, SetTruststore,
     SetKeystore, CertAvailable, CertStore, CertEmit, TlsBroken, CaChanged, CaRemoved,
     Cacerts1, CacertsPassword, CacertsSync, Check, UpdateTruststore, SetEnvironment,
     WriteConfig, Restart, KeytoolFails, Keep, jujuVars
<1>2. CASE Cacerts1
  <2>1. CASE Exists(disk.cacerts)
    BY <1>1, <1>2, <2>1 DEF Cacerts1, CasSynced
  <2>2. CASE ~Exists(disk.cacerts)
    <3>1. disk.cacerts.cas = {}
      BY <2>2 DEF CasInv
    <3>2. disk'.cacerts = [pw |-> Changeit, cas |-> {}]
      BY <1>2, <2>2 DEF Cacerts1, TypeOK, Disk
    <3> QED
      BY <1>1, <3>1, <3>2 DEF CasSynced
  <2> QED
    BY <2>1, <2>2
<1>3. CASE CacertsPassword
  <2>1. disk'.cacerts.cas = disk.cacerts.cas /\ Exists(disk.cacerts)
    BY <1>3 DEF CacertsPassword, TypeOK, Disk, Cacerts, Exists, Opens, Empty, Changeit
  <2>2. disk'.cacerts.pw # Empty
    BY <1>3 DEF CacertsPassword, TypeOK, Disk, Cacerts, EnvInv, StepKnows, Copying
  <2> QED
    BY <1>1, <2>1, <2>2 DEF CasSynced, Exists
<1>4. CASE CacertsSync
  <2>1. disk'.cacerts.pw # Empty
    BY <1>4, CacertsSyncDoes DEF CacertsSync, EnvInv, StepKnows, Copying, Opens
  <2> QED
    BY <1>1, <1>4, <2>1, CacertsSyncDoes DEF CasSynced, Exists
<1>5. CASE ~Cacerts1 /\ ~CacertsPassword /\ ~CacertsSync
  BY <1>1, <1>5, CasKept DEF CasSynced, CasInv, Exists
<1> QED
  BY <1>2, <1>3, <1>4, <1>5

\* What a handler's step never touches: the world and the queue.
LEMMA JujuKept ==
    ASSUME HandlerStep \/ RestartFails
    PROVE  /\ UNCHANGED <<world, issued, leader, pending, silent>>
           /\ pc \notin {"idle", "failed", "next"} /\ pc' # "idle"
BY DEF HandlerStep, RestartFails, Secrets, Reconcile, InitUnitTls, SetTruststore,
   SetKeystore, CertAvailable, CertStore, CertEmit, TlsBroken, CaChanged, CaRemoved,
   Cacerts1, CacertsPassword, CacertsSync, Check, UpdateTruststore, SetEnvironment,
   WriteConfig, Restart, KeytoolFails, KeytoolRefused, AfterInitUnitTls, Defer, Goto,
   Keep, jujuVars

\* A handler that synchronises the CAs goes on to do it, or defers.
LEMMA SyncRuns ==
    ASSUME TypeOK, TaskInv, RenewalInv, HandlerStep \/ RestartFails,
           task \in Deferrable, pc \in Deferrable \cup Configuring \cup Copying
    PROVE  \/ pc' \in Configuring \cup Copying
           \/ CasSynced \/ buf'.deferred # {} \/ pc' = "failed"
<1> USE DEF TaskInv, Deferrable, Configuring, Copying, Tasks, Goto
<1>1. CASE Defer
  BY <1>1 DEF Defer, TypeOK, Buffer
<1>2. CASE Reconcile \/ CaChanged \/ CaRemoved
  BY <1>1, <1>2 DEF Reconcile, CaChanged, CaRemoved
<1>3. CASE InitUnitTls \/ SetTruststore \/ SetKeystore
  <2>1. task = "reconcile"
    BY <1>3 DEF InitUnitTls, SetTruststore, SetKeystore, RenewalInv
  <2> QED
    BY <1>3, <2>1 DEF InitUnitTls, SetTruststore, SetKeystore, AfterInitUnitTls
<1>4. CASE Cacerts1 \/ CacertsPassword
  BY <1>4 DEF Cacerts1, CacertsPassword
<1>5. CASE CacertsSync
  <2>1. pc = "cacerts_sync"
    BY <1>5 DEF CacertsSync
  <2> QED
    BY <1>5, <2>1, CacertsSyncDoes
<1>6. CASE KeytoolFails
  BY <1>6 DEF KeytoolFails
<1> QED
  BY <1>2, <1>3, <1>4, <1>5, <1>6
     DEF HandlerStep, RestartFails, Secrets, CertAvailable, CertStore, CertEmit, TlsBroken,
         Check, UpdateTruststore, SetEnvironment, WriteConfig, Restart

LEMMA CasHandler ==
    ASSUME TypeOK, OrderInv, CasInv, HandlerStep \/ RestartFails
    PROVE  CasInv'
<1> USE HandlersKeep, JujuKept DEF OrderInv, JvmInv
<1>1. (CasSynced => CasSynced') /\ (~Exists(disk.cacerts)' => disk'.cacerts.cas = {})
  BY CasSyncedKept
<1>2. /\ "ca_changed" \in pending' => world'.oauthCas # {}
      /\ \/ CasSynced' \/ CasAwaited' \/ deferred' # {}
         \/ pc' # "idle" /\ event' \in SyncEvents
  BY <1>1 DEF CasInv, CasAwaited
<1>3. ASSUME InHook' PROVE (CasSynced \/ CasAwaited \/ buf.deferred # {} \/ SyncAhead)'
  <2>1. CasSynced \/ CasAwaited \/ buf.deferred # {} \/ SyncAhead
    BY DEF CasInv
  <2>2. buf.deferred \subseteq buf'.deferred
    BY DeferredKept
  <2>3. HasSync(work) => HasSync(work')
    <3>1. EventTasks("config") \in Seq(Tasks) /\ work \in Seq(Tasks)
      BY EventTasksType DEF Events, TypeOK
    <3> QED
      BY <3>1, WorkKept, HasSyncConcat DEF EmitConfigChanged
  <2>4. CASE task \in Deferrable /\ pc \in Deferrable \cup Configuring \cup Copying
    <3>1. \/ pc' \in Configuring \cup Copying
          \/ CasSynced \/ buf'.deferred # {}
      BY <1>3, <2>4, SyncRuns DEF InHook
    <3> QED
      BY <1>1, <2>4, <3>1 DEF SyncAhead
  <2>5. CASE CasAwaited
    BY <2>5 DEF CasAwaited
  <2> QED
    BY <1>1, <2>1, <2>2, <2>3, <2>4, <2>5 DEF SyncAhead
<1> QED
  BY <1>1, <1>2, <1>3 DEF CasInv

LEMMA CasStart ==
    ASSUME CasInv, NEW e \in Events, StartHook(e), pc \in {"idle", "failed"},
           UNCHANGED <<world, deferred, disk>>,
           pending' \in {pending, pending \ {e}}, pc = "failed" => e = event
    PROVE  CasInv'
<1>1. pc' = "next" /\ event' = e /\ redo' = deferred /\ work' = EventTasks(e)
  BY DEF StartHook
<1>2. CasSynced \/ CasAwaited' \/ deferred # {} \/ e \in SyncEvents
  BY DEF CasInv, CasAwaited
<1>3. e \in SyncEvents => HasSync(work')
  BY <1>1, HasSyncEvent
<1>4. UNCHANGED <<disk, world>> /\ (CasSynced => CasSynced')
  BY DEF CasSynced
<1> QED
  BY <1>1, <1>2, <1>3, <1>4 DEF CasInv, SyncAhead, Exists

LEMMA CasDispatch ==
    ASSUME TypeOK, RenewalInv, CasInv, Dispatch
    PROVE  CasInv'
<1>1. /\ pc = "next" /\ InHook /\ pc' = task' /\ task' \in Tasks
      /\ UNCHANGED <<world, pending, disk, deferred, event, buf>>
  BY DispatchType DEF Dispatch, TypeOK, jujuVars, machineVars, commitVars, InHook
<1>2. SyncAhead => SyncAhead'
  <2> SUFFICES ASSUME SyncAhead PROVE SyncAhead'
    OBVIOUS
  <2>1. CASE redo # {}
    <3>1. task' \in Deferrable
      BY <1>1, <2>1 DEF Dispatch, RenewalInv
    <3> QED
      BY <1>1, <3>1 DEF SyncAhead
  <2>2. CASE redo = {}
    <3>1. HasSync(work)
      BY <1>1, <2>2 DEF SyncAhead, Deferrable, Configuring, Copying
    <3>2. task' = Head(work) /\ work' = Tail(work)
      BY <2>2 DEF Dispatch
    <3>3. Head(work) \in Deferrable \/ HasSync(work')
      BY <3>1, <3>2, HasSyncTail DEF TypeOK
    <3> QED
      BY <1>1, <3>2, <3>3 DEF SyncAhead
  <2> QED
    BY <2>1, <2>2
<1> QED
  BY <1>1, <1>2 DEF CasInv, CasSynced, CasAwaited, Exists, InHook, Tasks

LEMMA CasCommit ==
    ASSUME CasInv, Commit PROVE CasInv'
<1>1. /\ InHook /\ pc = "next" /\ redo = {} /\ work = <<>>
      /\ UNCHANGED <<world, pending, disk, event>>
      /\ \/ pc' = "idle" /\ deferred' = buf.deferred
         \/ pc' = "failed" /\ deferred' = deferred
  BY DEF Commit, InHook, jujuVars, machineVars, commitVars
<1>2. ~SyncAhead
  BY <1>1 DEF SyncAhead, HasSync, Deferrable, Configuring, Copying
<1> QED
  BY <1>1, <1>2 DEF CasInv, CasSynced, CasAwaited, Exists, InHook

LEMMA CasWorldChange ==
    ASSUME TypeOK, CasInv, WorldChange PROVE CasInv'
<1>1. /\ ~InHook /\ ~InHook'
      /\ UNCHANGED <<deferred, pc, event, disk>>
      /\ \E heard \in Heard(world') :
            pending' = (pending \cup EventsOf(world', heard)) \ Obsolete(world')
  BY DEF WorldChange, InHook, commitVars, hookVars, machineVars
<1>2. PICK heard \in Heard(world') :
          pending' = (pending \cup EventsOf(world', heard)) \ Obsolete(world')
  BY <1>1
<1>3. "ca_changed" \in pending' => world'.oauthCas # {}
  BY <1>2 DEF Obsolete
<1>4. CASE world'.oauthCas = world.oauthCas
  <2>1. CasAwaited => CasAwaited'
    BY <1>2, <1>4 DEF CasAwaited, CasInv, SyncEvents, Obsolete
  <2> QED
    BY <1>1, <1>3, <1>4, <2>1 DEF CasInv, CasSynced, Exists
<1>5. CASE world'.oauthCas # world.oauthCas
  <2>1. \E e \in {"ca_changed", "ca_removed"} : e \in EventsOf(world', heard) /\ e \notin Obsolete(world')
    <3>1. CASE world'.oauthCas = {}
      BY <1>5, <3>1 DEF EventsOf, Events, Obsolete
    <3>2. CASE world'.oauthCas # {}
      BY <1>5, <3>2 DEF EventsOf, Events, Obsolete
    <3> QED
      BY <3>1, <3>2
  <2>2. CasAwaited'
    BY <1>2, <2>1 DEF CasAwaited, SyncEvents
  <2> QED
    BY <1>1, <1>3, <2>2 DEF CasInv, Exists
<1> QED
  BY <1>4, <1>5

LEMMA CasNext == TypeOK /\ OrderInv /\ CasInv /\ [Next]_vars => CasInv'
<1> SUFFICES ASSUME TypeOK, OrderInv, CasInv, [Next]_vars PROVE CasInv'
  OBVIOUS
<1>1. CASE HandlerStep \/ RestartFails
  BY <1>1, CasHandler
<1>2. ASSUME NEW e \in Events, Hook(e) PROVE CasInv'
  BY <1>2, CasStart DEF Hook, commitVars, machineVars
<1>3. CASE Retry
  BY <1>3, CasStart DEF Retry, TypeOK, commitVars, machineVars, jujuVars
<1>4. CASE Dispatch
  BY <1>4, CasDispatch DEF OrderInv
<1>5. CASE Commit
  BY <1>5, CasCommit
<1>6. CASE WorldChange
  BY <1>6, CasWorldChange
<1>7. CASE Crash
  BY <1>7 DEF Crash, CasInv, CasSynced, CasAwaited, Exists, InHook,
              jujuVars, commitVars, machineVars
<1>8. CASE /\ UNCHANGED <<world, deferred, hookVars, machineVars>>
           /\ pending' \in {pending, pending \cup {"cert"}}
  BY <1>8 DEF CasInv, CasSynced, CasAwaited, SyncEvents, SyncAhead, Exists, InHook,
              hookVars, machineVars
<1> QED
  BY <1>1, <1>2, <1>3, <1>4, <1>5, <1>6, <1>7, <1>8
     DEF Next, CertRenewed, LeadershipChange, OtherLeaderCreates, OtherLeaderRotates,
         vars, jujuVars, commitVars

LEMMA CasInit == Init => CasInv
<1> SUFFICES ASSUME Init PROVE CasInv
  OBVIOUS
<1>1. /\ pc = "idle" /\ disk.cacerts = [pw |-> Empty, cas |-> {}]
      /\ "start" \in pending /\ ("ca_changed" \in pending => world.oauthCas # {})
  BY DEF Init
<1> QED
  BY <1>1 DEF CasInv, CasAwaited, SyncEvents, InHook

-----------------------------------------------------------------------------
(* The clients' CAs *)

LEMMA HasReconcileEvent ==
    ASSUME NEW e \in Reconciling PROVE HasReconcile(EventTasks(e))
<1>1. CASE e \in {"start", "config", "status"}
  BY <1>1, HasReconcileConfig DEF EventTasks
<1>2. CASE e = "relation"
  <2>1. EventTasks(e) = <<"reconcile">>
    BY <1>2 DEF EventTasks
  <2>2. 1 \in 1..Len(EventTasks(e)) /\ EventTasks(e)[1] = "reconcile"
    BY <2>1
  <2> QED
    BY <2>2 DEF HasReconcile
<1> QED
  BY <1>1, <1>2 DEF Reconciling

\* The truststore only grows but in a renewal and while it is updated.
LEMMA TrustsClientsKept ==
    ASSUME TypeOK, HandlerStep \/ RestartFails, ~CertStore, ~TlsBroken, ~UpdateTruststore,
           TrustsClients
    PROVE  TrustsClients'
<1>1. UNCHANGED world
  BY JujuKept
<1>2. Trusted(disk.truststore) \subseteq Trusted(disk'.truststore)
  <2>1. CASE SetTruststore
    <3>1. /\ disk'.truststore.client = disk.truststore.client
          /\ disk'.truststore.bundle = disk.truststore.bundle
             \/ disk.truststore.bundle = NoCert
      BY <2>1, SetTruststoreDoes
    <3> QED
      BY <3>1 DEF Trusted, NoCert
  <2>2. CASE SetKeystore
    BY <2>2, SetKeystoreDoes
  <2> QED
    BY <2>1, <2>2, StoresKept
<1> QED
  BY <1>1, <1>2 DEF TrustsClients

\* Once update_truststore has nothing left to do, and where the check of the
\* fingerprints finds nothing to do, every client's CA is trusted.
LEMMA UpdatedTrusts ==
    ASSUME TypeOK, UpdateTruststore, pc' # pc PROVE TrustsClients'
<1>1. UNCHANGED <<disk, world>>
  BY DEF UpdateTruststore, Goto, Keep, jujuVars
<1>2. \A c \in Clients : world.ca[c] \in {NoCA, disk.truststore.client[c]}
  BY DEF UpdateTruststore, Goto
<1> QED
  BY <1>1, <1>2 DEF TrustsClients, Trusted

LEMMA CheckedTrusts ==
    ASSUME TypeOK
    PROVE  /\ ~TruststoreChanged(disk.truststore, world) => TrustsClients
           /\ Sha256Only /\ TrustsClients => ~TruststoreChanged(disk.truststore, world)
<1>1. world \in World
  BY WorldType DEF TypeOK
<1>2. Sha256Only => \A c \in Clients : world.ca[c] # NoCA => world.ca[c] \in Sha256CAs
  BY <1>1 DEF Sha256Only, World
<1> QED
  BY <1>2 DEF TruststoreChanged, Fingerprinted, TrustsClients

\* Handlers of renewals end by config-changed or without a certificate.
LEMMA RenewalRuns ==
    ASSUME TypeOK, TaskInv, RenewalInv, HandlerStep \/ RestartFails,
           pc = "restart" => task \in Deferrable,
           task \in Renewals, pc' = "next"
    PROVE  ~Ready(buf'.unit) \/ CertEmit
<1> USE DEF TaskInv, Tasks, Renewals, Goto
<1>1. CASE TlsBroken
  <2>1. buf'.unit.cert = NoCert
    BY <1>1 DEF TlsBroken, TypeOK, Buffer, Unit
  <2> QED
    BY <2>1 DEF Ready
<1>2. CASE \/ InitUnitTls \/ SetTruststore \/ SetKeystore \/ CertAvailable \/ CertStore
  BY <1>2 DEF InitUnitTls, SetTruststore, SetKeystore, CertAvailable, CertStore,
              AfterInitUnitTls
<1>3. CASE \/ Secrets \/ Reconcile \/ CaChanged \/ CaRemoved \/ Cacerts1
           \/ CacertsPassword \/ CacertsSync
  BY <1>3 DEF Secrets, Reconcile, CaChanged, CaRemoved, Cacerts1, CacertsPassword,
              CacertsSync, Copying
<1>4. CASE Check \/ UpdateTruststore \/ SetEnvironment \/ WriteConfig
  BY <1>4 DEF Check, UpdateTruststore, SetEnvironment, WriteConfig, Applying
<1>5. CASE Restart \/ RestartFails \/ KeytoolFails
  BY <1>5 DEF Restart, RestartFails, KeytoolFails, Deferrable
<1> QED
  BY <1>1, <1>2, <1>3, <1>4, <1>5 DEF HandlerStep

\* config-changed compares the CAs before it ends, or is deferred.
LEMMA ReconcileRuns ==
    ASSUME TypeOK, TaskInv, HandlerStep \/ RestartFails, task = "reconcile",
           pc \in {"reconcile", "check", "update_truststore"} \cup Configuring \cup Copying
    PROVE  \/ pc' \in {"reconcile", "check", "update_truststore"} \cup Configuring \cup Copying
           \/ TrustsClients' \/ "reconcile" \in buf'.deferred \/ pc' = "failed"
<1> USE DEF TaskInv, Configuring, Copying, Tasks, Goto
<1>1. CASE Reconcile
  <2>1. CASE Defer
    BY <2>1 DEF Defer, TypeOK, Buffer
  <2> QED
    BY <1>1, <2>1 DEF Reconcile
<1>2. CASE InitUnitTls \/ SetTruststore \/ SetKeystore
  BY <1>2 DEF InitUnitTls, SetTruststore, SetKeystore, AfterInitUnitTls
<1>3. CASE Cacerts1 \/ CacertsPassword
  BY <1>3 DEF Cacerts1, CacertsPassword
<1>4. CASE CacertsSync
  <2>1. pc = "cacerts_sync"
    BY <1>4 DEF CacertsSync
  <2> QED
    BY <1>4, <2>1, CacertsSyncDoes
<1>5. CASE Check
  <2>1. CASE TrustsClients
    BY <1>5, <2>1, TrustsClientsKept DEF Check, CertStore, TlsBroken, UpdateTruststore
  <2>2. CASE ~TrustsClients
    BY <1>5, <2>2, CheckedTrusts DEF Check
  <2> QED
    BY <2>1, <2>2
<1>6. CASE UpdateTruststore
  BY <1>6, UpdatedTrusts DEF UpdateTruststore
<1>7. CASE KeytoolFails
  BY <1>7 DEF KeytoolFails
<1> QED
  BY <1>1, <1>2, <1>3, <1>4, <1>5, <1>6, <1>7
     DEF HandlerStep, RestartFails, Secrets, CertAvailable, CertStore, CertEmit, TlsBroken,
         CaChanged, CaRemoved, SetEnvironment, WriteConfig, Restart

LEMMA TrustHandler ==
    ASSUME Sha256Only \/ HooksEnd, HooksEnd => SmoothInv,
           TypeOK, OrderInv, TrustInv, HandlerStep \/ RestartFails
    PROVE  TrustInv'
<1> USE HandlersKeep, JujuKept DEF OrderInv, JvmInv
<1>1. pc' = "restart" => task \in Deferrable
  <2>1. CASE CacertsSync
    BY <2>1 DEF CacertsSync, TaskInv, Copying, Deferrable
  <2>2. CASE WriteConfig
    BY <2>2 DEF WriteConfig, TaskInv, Applying, Deferrable
  <2> QED
    BY <2>1, <2>2 DEF HandlerStep, RestartFails, Secrets, Reconcile, InitUnitTls,
       SetTruststore, SetKeystore, CertAvailable, CertStore, CertEmit, TlsBroken,
       CaChanged, CaRemoved, Cacerts1, CacertsPassword, Check, UpdateTruststore,
       SetEnvironment, Restart, KeytoolFails, AfterInitUnitTls, Defer, Goto
<1>2. CertStore \/ TlsBroken => task \in Renewals
  BY DEF CertStore, TlsBroken, TaskInv, RenewalInv, Tasks, Renewals
<1>3. task \in Renewals => event = task
  BY JujuKept DEF RenewalInv, InHook
<1>4. CommittedCause => CommittedCause'
  BY DEF CommittedCause, RelationAwaited
<1>5. \/ silent'
      \/ TrustsClients' /\ pc' # "update_truststore"
      \/ CommittedCause'
      \/ HooksEnd /\ pc' = "update_truststore"
  <2> SUFFICES ASSUME ~silent, ~CommittedCause
               PROVE  \/ TrustsClients' /\ pc' # "update_truststore"
                      \/ HooksEnd /\ pc' = "update_truststore"
    BY <1>4
  <2>1. task \notin Renewals
    BY <1>3, JujuKept DEF CommittedCause
  <2>2. CASE pc = "update_truststore"
    <3>1. HooksEnd /\ ~KeytoolFails
      BY <2>2, KeytoolWorks DEF TrustInv, KeytoolFails, OrderInv
    <3>2. UpdateTruststore
      BY <2>2, <3>1 DEF HandlerStep, RestartFails, Secrets, Reconcile, InitUnitTls,
         SetTruststore, SetKeystore, CertAvailable, CertStore, CertEmit, TlsBroken,
         CaChanged, CaRemoved, Cacerts1, CacertsPassword, CacertsSync, Check,
         SetEnvironment, WriteConfig, Restart
    <3> QED
      BY <2>2, <3>1, <3>2, UpdatedTrusts DEF UpdateTruststore, Goto
  <2>3. CASE pc # "update_truststore"
    <3>1. TrustsClients /\ ~CertStore /\ ~TlsBroken /\ ~UpdateTruststore
      BY <1>2, <2>1, <2>3 DEF TrustInv, UpdateTruststore
    <3>2. pc' = "update_truststore" => HooksEnd
      <4>1. CASE Check
        BY <3>1, <4>1, CheckedTrusts DEF Check, Goto
      <4> QED
        BY <3>1, <4>1 DEF HandlerStep, RestartFails, Secrets, Reconcile, InitUnitTls,
           SetTruststore, SetKeystore, CertAvailable, CertEmit, CaChanged, CaRemoved,
           Cacerts1, CacertsPassword, CacertsSync, SetEnvironment, WriteConfig, Restart,
           KeytoolFails, AfterInitUnitTls, Defer, Goto
    <3> QED
      BY <3>1, <3>2, TrustsClientsKept
  <2> QED
    BY <2>2, <2>3
<1>6. ASSUME InHook', ~silent'
      PROVE  \/ ~Ready(buf'.unit) \/ TrustsClients' \/ RelationAwaited'
             \/ "reconcile" \in buf'.deferred \/ ReconcileAhead' \/ RenewalUnfinished'
  <2>1. CASE task \in Renewals
    <3>1. CASE pc' # "next"
      BY <1>3, <2>1, <3>1 DEF RenewalUnfinished
    <3>2. CASE pc' = "next" /\ ~CertEmit
      BY <2>1, <3>2, RenewalRuns DEF TrustInv
    <3>3. CASE CertEmit
      <4>1. HasReconcile(work')
        <5>1. work' = <<"secrets", "reconcile">> \o work
          BY <3>3, ConfigTasksType DEF CertEmit, EmitConfigChanged
        <5>2. 2 \in 1..Len(work') /\ work'[2] = "reconcile"
          BY <5>1, ConcatProperties DEF TypeOK
        <5> QED
          BY <5>2 DEF HasReconcile
      <4> QED
        BY <4>1 DEF ReconcileAhead
    <3> QED
      BY <3>1, <3>2, <3>3
  <2>2. CASE task \notin Renewals
    <3>1. ~CertStore /\ ~TlsBroken /\ ~CertEmit
      BY <1>2, <2>2 DEF CertEmit, RenewalInv
    <3>2. \/ ~Ready(buf.unit) \/ TrustsClients \/ RelationAwaited
          \/ "reconcile" \in buf.deferred \/ ReconcileAhead \/ RenewalUnfinished
      BY <1>6 DEF TrustInv
    <3>3. CASE ~Ready(buf.unit)
      <4>1. CASE InitUnitTls
        <5>1. task = "reconcile"
          BY <2>2, <4>1 DEF InitUnitTls, RenewalInv, Configuring, Renewals
        <5>2. pc' = "set_truststore"
          BY <3>3, <4>1, InitUnitTlsDoes
        <5> QED
          BY <5>1, <5>2 DEF ReconcileAhead, Configuring
      <4> QED
        BY <3>1, <3>3, <4>1, UnitKept
    <3>4. CASE TrustsClients
      <4>1. CASE UpdateTruststore
        <5>1. task = "reconcile" /\ pc = "update_truststore"
          BY <4>1 DEF UpdateTruststore, TaskInv, Applying
        <5> QED
          BY <4>1, <5>1, UpdatedTrusts DEF ReconcileAhead
      <4> QED
        BY <3>1, <3>4, <4>1, TrustsClientsKept
    <3>5. CASE RelationAwaited
      BY <3>5 DEF RelationAwaited
    <3>6. CASE "reconcile" \in buf.deferred
      BY <3>6, DeferredKept
    <3>7. CASE ReconcileAhead
      <4>1. HasReconcile(work) => HasReconcile(work')
        <5>1. EventTasks("config") \in Seq(Tasks) /\ work \in Seq(Tasks)
          BY EventTasksType DEF Events, TypeOK
        <5> QED
          BY <5>1, WorkKept, HasReconcileConcat DEF EmitConfigChanged
      <4>2. CASE task = "reconcile"
                 /\ pc \in {"reconcile", "check", "update_truststore"}
                           \cup Configuring \cup Copying
        BY <1>6, <4>2, ReconcileRuns DEF ReconcileAhead, InHook
      <4> QED
        BY <3>7, <4>1, <4>2 DEF ReconcileAhead
    <3>8. CASE RenewalUnfinished
      <4>1. work = <<event>> /\ event \in Renewals
        BY <2>2, <3>8 DEF RenewalUnfinished
      <4>2. task \in Deferrable
        <5>1. work \notin Seq(Tasks \ Renewals)
          BY <4>1
        <5> QED
          BY <5>1 DEF RenewalInv
      <4>3. work' = work
        BY <4>2, WorkKept DEF Secrets, CertEmit, TaskInv, RenewalInv, Tasks, Deferrable,
                              Renewals
      <4> QED
        BY <4>1, <4>3 DEF RenewalUnfinished
    <3> QED
      BY <3>2, <3>3, <3>4, <3>5, <3>6, <3>7, <3>8
  <2> QED
    BY <2>1, <2>2
<1> QED
  BY <1>1, <1>5, <1>6 DEF TrustInv

LEMMA TrustStart ==
    ASSUME TypeOK, TrustInv, NEW e \in Events, StartHook(e), pc \in {"idle", "failed"},
           UNCHANGED <<world, unit, deferred, disk>>,
           pending' \in {pending, pending \ {e}}, pc = "failed" => e = event
    PROVE  TrustInv'
<1>1. /\ pc' = "next" /\ event' = e /\ redo' = deferred /\ work' = EventTasks(e)
      /\ buf'.unit = unit
  BY DEF StartHook
<1>2. CASE e \in Reconciling
  <2>1. ReconcileAhead' /\ CommittedCause'
    BY <1>1, <1>2, HasReconcileEvent DEF ReconcileAhead, CommittedCause
  <2> QED
    BY <1>1, <2>1 DEF TrustInv
<1>3. CASE e \in Renewals
  <2>1. RenewalUnfinished' /\ CommittedCause'
    BY <1>1, <1>3 DEF RenewalUnfinished, EventTasks, Renewals, CommittedCause
  <2> QED
    BY <1>1, <2>1 DEF TrustInv
<1>4. CASE e \notin Reconciling \cup Renewals
  <2>1. silent' = silent
    <3>1. EventTasks(e) \in {<<"secrets">>, <<"ca_changed">>, <<"ca_removed">>}
      BY <1>4 DEF EventTasks, Reconciling, Renewals, Events
    <3>2. "reconcile" \notin {EventTasks(e)[i] : i \in DOMAIN EventTasks(e)}
      BY <3>1
    <3> QED
      BY <3>2 DEF StartHook, TypeOK
  <2>2. /\ silent \/ TrustsClients \/ ~Ready(unit) \/ RelationAwaited' \/ "reconcile" \in deferred
        /\ TrustsClients => TrustsClients'
    BY <1>4 DEF TrustInv, CommittedCause, RelationAwaited, TrustsClients, Reconciling
  <2>3. silent' \/ CommittedCause' \/ TrustsClients'
    BY <1>1, <2>1, <2>2 DEF CommittedCause
  <2>4. "reconcile" \in deferred => ReconcileAhead'
    BY <1>1 DEF ReconcileAhead
  <2> QED
    BY <1>1, <2>1, <2>2, <2>3, <2>4 DEF TrustInv
<1> QED
  BY <1>2, <1>3, <1>4

LEMMA TrustDispatch ==
    ASSUME TypeOK, RenewalInv, TrustInv, Dispatch
    PROVE  TrustInv'
<1>1. /\ pc = "next" /\ InHook /\ pc' = task' /\ task' \in Tasks
      /\ UNCHANGED <<world, pending, silent, disk, unit, deferred, event, buf>>
  BY DispatchType DEF Dispatch, TypeOK, jujuVars, machineVars, commitVars, InHook
<1>2. pc' \notin {"restart", "update_truststore", "idle", "next"}
  BY <1>1 DEF Tasks
<1>3. (TrustsClients => TrustsClients') /\ (CommittedCause => CommittedCause')
  BY <1>1, <1>2 DEF TrustsClients, CommittedCause, RelationAwaited
<1>4. ReconcileAhead => ReconcileAhead'
  <2> SUFFICES ASSUME ReconcileAhead PROVE ReconcileAhead'
    OBVIOUS
  <2>1. CASE "reconcile" \in redo
    <3>1. task' = "reconcile"
      BY <2>1 DEF Dispatch
    <3> QED
      BY <1>1, <3>1 DEF ReconcileAhead
  <2>2. CASE "reconcile" \notin redo
    <3>1. HasReconcile(work)
      BY <1>1, <2>2 DEF ReconcileAhead, Configuring, Copying
    <3>2. CASE redo # {}
      BY <3>1, <3>2 DEF Dispatch, ReconcileAhead
    <3>3. CASE redo = {}
      <4>1. task' = Head(work) /\ work' = Tail(work)
        BY <3>3 DEF Dispatch
      <4>2. Head(work) = "reconcile" \/ HasReconcile(work')
        BY <3>1, <4>1, HasReconcileTail DEF TypeOK
      <4> QED
        BY <1>1, <4>1, <4>2 DEF ReconcileAhead
    <3> QED
      BY <3>2, <3>3
  <2> QED
    BY <2>1, <2>2
<1>5. RenewalUnfinished => RenewalUnfinished'
  <2> SUFFICES ASSUME RenewalUnfinished PROVE RenewalUnfinished'
    OBVIOUS
  <2>1. event \in Renewals /\ work = <<event>>
    BY <1>1 DEF RenewalUnfinished
  <2>2. work' = work \/ task' = event
    BY <2>1 DEF Dispatch
  <2> QED
    BY <1>1, <1>2, <2>1, <2>2 DEF RenewalUnfinished
<1> QED
  BY <1>1, <1>2, <1>3, <1>4, <1>5 DEF TrustInv, RelationAwaited

LEMMA TrustCommit ==
    ASSUME TrustInv, Commit PROVE TrustInv'
<1>1. /\ InHook /\ pc = "next" /\ redo = {} /\ work = <<>>
      /\ UNCHANGED <<world, pending, silent, disk, event>>
      /\ \/ pc' = "idle" /\ deferred' = buf.deferred /\ unit' = buf.unit
         \/ pc' = "failed" /\ deferred' = deferred /\ unit' = unit
  BY DEF Commit, InHook, jujuVars, machineVars, commitVars
<1>2. ~ReconcileAhead /\ ~RenewalUnfinished
  BY <1>1 DEF ReconcileAhead, HasReconcile, RenewalUnfinished, Configuring, Copying
<1>3. \/ silent \/ ~Ready(buf.unit) \/ TrustsClients \/ RelationAwaited
      \/ "reconcile" \in buf.deferred
  BY <1>1, <1>2 DEF TrustInv
<1>4. UNCHANGED <<TrustsClients, RelationAwaited>> /\ ~InHook'
  BY <1>1 DEF TrustsClients, RelationAwaited, InHook
<1> QED
  BY <1>1, <1>3, <1>4 DEF TrustInv, CommittedCause

LEMMA TrustWorldChange ==
    ASSUME TypeOK, TrustInv, WorldChange PROVE TrustInv'
<1>1. /\ ~InHook /\ ~InHook' /\ UNCHANGED <<unit, deferred, pc, event, disk>>
  BY DEF WorldChange, InHook, commitVars, hookVars, machineVars
<1>2. PICK heard \in Heard(world') :
          /\ pending' = (pending \cup EventsOf(world', heard)) \ Obsolete(world')
          /\ silent' = (silent \/ (TlsDataChanges(world') /\ "relation" \notin heard))
  BY DEF WorldChange
<1>3. (silent => silent') /\ (CommittedCause => CommittedCause')
  BY <1>1, <1>2 DEF CommittedCause, RelationAwaited, Obsolete
<1>4. CASE world'.ca = world.ca
  BY <1>1, <1>3, <1>4 DEF TrustInv, TrustsClients, InHook
<1>5. CASE world'.ca # world.ca
  <2>1. silent' \/ "relation" \in pending'
    BY <1>2, <1>5 DEF TlsDataChanges, EventsOf, Obsolete
  <2> QED
    BY <1>1, <2>1 DEF TrustInv, CommittedCause, RelationAwaited, InHook
<1> QED
  BY <1>4, <1>5

LEMMA TrustNext ==
    ASSUME Sha256Only \/ HooksEnd
    PROVE  /\ TypeOK /\ OrderInv /\ TrustInv /\ (HooksEnd => SmoothInv) /\ [Next]_vars
           => TrustInv'
<1> SUFFICES ASSUME TypeOK, OrderInv, TrustInv, HooksEnd => SmoothInv, [Next]_vars
             PROVE  TrustInv'
  OBVIOUS
<1>1. CASE HandlerStep \/ RestartFails
  BY <1>1, TrustHandler
<1>2. ASSUME NEW e \in Events, Hook(e) PROVE TrustInv'
  BY <1>2, TrustStart DEF Hook, commitVars, machineVars
<1>3. CASE Retry
  BY <1>3, TrustStart DEF Retry, TypeOK, commitVars, machineVars, jujuVars
<1>4. CASE Dispatch
  BY <1>4, TrustDispatch DEF OrderInv
<1>5. CASE Commit
  BY <1>5, TrustCommit
<1>6. CASE WorldChange
  BY <1>6, TrustWorldChange
<1>7. CASE Crash
  <2>1. /\ pc' = "failed" /\ InHook
        /\ UNCHANGED <<world, pending, silent, unit, deferred, event, disk>>
    BY <1>7 DEF Crash, jujuVars, commitVars, machineVars
  <2>2. ~HooksEnd
    BY <1>7 DEF Crash, HooksEnd
  <2> QED
    BY <2>1, <2>2 DEF TrustInv, TrustsClients, CommittedCause, RelationAwaited, InHook
<1>8. CASE /\ UNCHANGED <<world, silent, unit, deferred, hookVars, machineVars>>
           /\ pending' \in {pending, pending \cup {"cert"}}
  BY <1>8 DEF TrustInv, TrustsClients, CommittedCause, RelationAwaited, ReconcileAhead,
              RenewalUnfinished, InHook, hookVars, machineVars
<1> QED
  BY <1>1, <1>2, <1>3, <1>4, <1>5, <1>6, <1>7, <1>8
     DEF Next, CertRenewed, LeadershipChange, OtherLeaderCreates, OtherLeaderRotates,
         vars, jujuVars, commitVars

LEMMA TrustInit == Init => TrustInv
<1> SUFFICES ASSUME Init PROVE TrustInv
  OBVIOUS
<1>1. pc = "idle" /\ "start" \in pending
  BY DEF Init
<1> QED
  BY <1>1 DEF TrustInv, CommittedCause, RelationAwaited, InHook

\* Once every event is handled the copied cacerts hold exactly the OAuth CAs of
\* the relation and the truststore of a unit with a certificate trusts every
\* client's CA, unless one was replaced in its secret alone and no hook that ends in
\* config-changed has begun since: whatever fails, if the CAs' own signatures use
\* SHA-256, and with any CAs, if no hook is cut short.  For each store that a change
\* Juju tells of, a renewal or a failed hook put behind, a queued event, a deferred
\* handler or the hook to be retried brings it up to date; only an update that the
\* mistaken fingerprint of another hash set off has nothing behind it.
THEOREM TrustStoresConverge ==
    ASSUME Sha256Only \/ HooksEnd PROVE Spec => []TrustConverges
<1>1. TypeOK /\ OrderInv /\ TrustInv /\ (HooksEnd => SmoothInv) /\ [Next]_vars => TrustInv'
  BY TrustNext
<1>2. CasInv /\ TrustInv => TrustConverges
  BY DEF TrustConverges, Quiescent, CasInv, CasSynced, CasAwaited, TrustInv,
         TrustsClients, CommittedCause, RelationAwaited
<1>3. Spec => [](HooksEnd => SmoothInv)
  <2>1. CASE HooksEnd
    BY <2>1, SmoothCorrect, PTL
  <2>2. CASE ~HooksEnd
    BY <2>2, PTL
  <2> QED
    BY <2>1, <2>2
<1> QED
  BY <1>1, <1>2, <1>3, CasNext, CasInit, TrustInit, OrderCorrect, TypeCorrect, PTL DEF Spec

-----------------------------------------------------------------------------
(* The causes of a restart *)

LEMMA ServiceKept == ASSUME HandlerStep, ~Restart PROVE UNCHANGED service
BY DEF HandlerStep, Secrets, Reconcile, InitUnitTls, SetTruststore, SetKeystore,
   CertAvailable, CertStore, CertEmit, TlsBroken, CaChanged, CaRemoved, Cacerts1,
   CacertsPassword, CacertsSync, Check, UpdateTruststore, SetEnvironment, WriteConfig,
   KeytoolFails, machineVars

\* What a handler's step does to the certificates that are in use.
LEMMA BundleStep ==
    ASSUME TypeOK, OrderInv, SmoothInv, HandlerStep
    PROVE  /\ disk'.truststore.bundle =
                  IF SetTruststore THEN buf.unit.cert
                  ELSE IF CertStore \/ TlsBroken THEN NoCert ELSE disk.truststore.bundle
           /\ service'.loaded.truststore.bundle =
                  IF Restart THEN disk.truststore.bundle
                  ELSE service.loaded.truststore.bundle
<1>1. CASE SetTruststore
  <2>1. disk.truststore.bundle = NoCert
    BY <1>1 DEF SetTruststore, SmoothInv, TruststoreInv, NoTruststore
  <2>2. ~Restart
    BY <1>1 DEF SetTruststore, Restart
  <2> QED
    BY <1>1, <2>1, <2>2, SetTruststoreDoes, ServiceKept
<1>2. CASE CertStore \/ TlsBroken
  <2>1. ~Restart /\ ~SetTruststore
    BY <1>2 DEF CertStore, TlsBroken, Restart, SetTruststore
  <2> QED
    BY <1>2, <2>1, RemovesStores, ServiceKept DEF NoTruststore
<1>3. CASE ~SetTruststore /\ ~CertStore /\ ~TlsBroken
  <2>1. disk'.truststore.bundle = disk.truststore.bundle
    <3>1. CASE SetKeystore
      BY <3>1, SetKeystoreDoes
    <3>2. CASE UpdateTruststore
      BY <3>2, UpdateTruststoreDoes
    <3> QED
      BY <1>3, <3>1, <3>2, StoresKept
  <2>2. CASE Restart
    BY <1>3, <2>1, <2>2 DEF Restart
  <2> QED
    BY <1>3, <2>1, <2>2, ServiceKept
<1> QED
  BY <1>1, <1>2, <1>3

LEMMA LoadedHandler ==
    ASSUME TypeOK, OrderInv, SmoothInv, SmoothInv', CertInv, LoadedInv, HandlerStep
    PROVE  LoadedInv'
<1>0. ~KeytoolFails
  BY KeytoolWorks DEF KeytoolFails
<1>1. disk'.truststore.bundle = NoCert => disk'.truststore = NoTruststore
  BY DEF SmoothInv, TruststoreInv, TruststoreFollows, LeadKept, InHook, Ready
<1>2. service'.loaded.truststore.bundle = NoCert => service'.loaded.truststore = NoTruststore
  <2>1. CASE Restart
    BY <2>1 DEF Restart, LoadedInv
  <2> QED
    BY <2>1, ServiceKept DEF LoadedInv
<1>3. ASSUME service'.up,
             pc' \notin {"update_truststore", "set_environment", "write_config", "restart"}
      PROVE  \/ service'.loaded.truststore = disk'.truststore
             \/ service'.loaded.truststore.bundle # disk'.truststore.bundle
  <2>1. CASE Restart
    BY <2>1 DEF Restart
  <2>2. CASE CertStore \/ TlsBroken
    <3>1. disk'.truststore = NoTruststore /\ disk'.truststore.bundle = NoCert
      BY <2>2, RemovesStores DEF NoTruststore
    <3> QED
      BY <1>2, <3>1
  <2>3. CASE SetTruststore
    <3>1. ~Restart /\ pc = "set_truststore"
      BY <2>3 DEF SetTruststore, Restart
    <3> QED
      BY <2>3, <3>1, BundleStep DEF CertInv
  <2>4. CASE ~Restart /\ ~CertStore /\ ~TlsBroken /\ ~SetTruststore
    <3>1. pc \notin {"update_truststore", "set_environment", "write_config", "restart"}
      BY <1>0, <1>3, <2>4 DEF HandlerStep, Secrets, Reconcile, InitUnitTls, SetKeystore,
         CertAvailable, CertEmit, CaChanged, CaRemoved, Cacerts1, CacertsPassword,
         CacertsSync, Check, UpdateTruststore, SetEnvironment, WriteConfig, Goto
    <3>2. disk'.truststore = disk.truststore
      <4>1. CASE SetKeystore
        BY <4>1, SetKeystoreDoes
      <4> QED
        BY <2>4, <3>1, <4>1, StoresKept DEF UpdateTruststore
    <3> QED
      BY <1>3, <2>4, <3>1, <3>2, ServiceKept DEF LoadedInv
  <2> QED
    BY <2>1, <2>2, <2>3, <2>4
<1> QED
  BY <1>1, <1>2, <1>3 DEF LoadedInv

LEMMA CauseHandler ==
    ASSUME Sha256Only, TypeOK, OrderInv, SmoothInv, FileInv, LoadedInv, CauseInv, HandlerStep
    PROVE  CauseInv'
<1>1. CASE Check
  <2>1. UNCHANGED <<service, disk, buf, world, task>> /\ pc = "check"
    BY <1>1, JujuKept DEF Check, Keep, machineVars
  <2>2. CASE TruststoreChanged(disk.truststore, world)
    <3>1. pc' = "update_truststore"
      BY <1>1, <2>2 DEF Check, Goto
    <3>2. PICK c \in Clients : /\ world.ca[c] # NoCA
                               /\ world.ca[c] \notin Trusted(disk.truststore)
      BY <2>2, CheckedTrusts DEF TrustsClients
    <3>3. world.ca[c] # disk.truststore.client[c]
      BY <3>2 DEF Trusted
    <3>4. service.up => NewCa
      BY <2>1, <3>2, <3>3 DEF LoadedInv, NewCa
    <3> QED
      BY <2>1, <3>1, <3>4 DEF CauseInv, NewCa
  <2>3. CASE ~TruststoreChanged(disk.truststore, world)
    <3>1. \/ pc' = "set_environment" /\ disk.yml # Render(buf.app, buf.unit, world)
          \/ pc' = "next"
      BY <1>1, <2>3 DEF Check, Goto
    <3>2. service.loaded.yml = disk.yml
      BY <2>1 DEF FileInv
    <3> QED
      BY <2>1, <3>1, <3>2 DEF CauseInv
  <2> QED
    BY <2>2, <2>3
<1>2. CASE UpdateTruststore
  <2>1. UNCHANGED <<service, buf, world, task>> /\ pc = "update_truststore"
    BY <1>2, JujuKept DEF UpdateTruststore, Keep
  <2>2. disk'.truststore.bundle = disk.truststore.bundle
    BY <1>2, UpdateTruststoreDoes
  <2>3. CASE pc' = pc
    BY <2>1, <2>2, <2>3 DEF CauseInv, NewCa
  <2>4. CASE pc' # pc
    <3>1. /\ pc' = "set_environment" /\ UNCHANGED disk
          /\ \A c \in Clients : world.ca[c] \in {NoCA, disk.truststore.client[c]}
      BY <1>2, <2>1, <2>4 DEF UpdateTruststore, Goto
    <3>2. service.up => service.loaded.truststore # disk.truststore
      BY <2>1, <3>1 DEF CauseInv, NewCa
    <3> QED
      BY <2>1, <3>1, <3>2 DEF CauseInv
  <2> QED
    BY <2>3, <2>4
<1>3. CASE SetEnvironment
  <2>1. UNCHANGED <<service, buf, world>> /\ pc = "set_environment" /\ pc' = "write_config"
    BY <1>3, JujuKept DEF SetEnvironment, Goto
  <2>2. disk'.truststore = disk.truststore
    BY <1>3 DEF SetEnvironment, TypeOK, Disk
  <2> QED
    BY <2>1, <2>2 DEF CauseInv
<1>4. CASE WriteConfig
  <2>1. UNCHANGED service /\ pc = "write_config" /\ pc' = "restart"
    BY <1>4 DEF WriteConfig, Goto
  <2>2. disk'.truststore = disk.truststore /\ disk'.yml = Render(buf.app, buf.unit, world)
    BY <1>4 DEF WriteConfig, TypeOK, Disk
  <2> QED
    BY <2>1, <2>2 DEF CauseInv
<1>5. CASE ~Check /\ ~UpdateTruststore /\ ~SetEnvironment /\ ~WriteConfig
  <2>1. /\ pc' \notin {"update_truststore", "set_environment", "write_config"}
        /\ ~(pc' = "restart" /\ task' = "reconcile")
    BY <1>5 DEF HandlerStep, Secrets, Reconcile, InitUnitTls, SetTruststore,
       SetKeystore, CertAvailable, CertStore, CertEmit, TlsBroken, CaChanged, CaRemoved,
       Cacerts1, CacertsPassword, CacertsSync, Restart, KeytoolFails, AfterInitUnitTls,
       Defer, Goto, Keep
  <2> QED
    BY <2>1 DEF CauseInv
<1> QED
  BY <1>1, <1>2, <1>3, <1>4, <1>5

\* A renewal that is ahead was ahead before the step.
LEMMA RenewalWasAhead ==
    ASSUME TypeOK, OrderInv, CertInv, HandlerStep, event = "cert", RenewalAhead'
    PROVE  RenewalAhead
<1> USE HandlersKeep DEF OrderInv, JvmInv, TaskInv, RenewalInv, Tasks, Renewals
<1>1. UNCHANGED <<event, task>> /\ pc # "next" /\ InHook
  BY JujuKept
<1>2. CASE work' = <<"cert">>
  <2>1. work' = work
    <3>1. CASE EmitConfigChanged
      <4>1. work' = <<"secrets", "reconcile">> \o work
        BY <3>1, ConfigTasksType DEF EmitConfigChanged
      <4>2. Len(work') = 2 + Len(work) /\ Len(work) \in Nat
        BY <4>1, ConcatProperties DEF TypeOK
      <4> QED
        BY <1>2, <4>2
    <3> QED
      BY <3>1, WorkKept
  <2> QED
    BY <1>2, <2>1 DEF RenewalAhead
<1>3. CASE work' # <<"cert">>
  <2>1. /\ task = "cert" \/ pc' = "cert"
        /\ \/ pc' \in {"cert", "unit_tls", "cert_store"}
           \/ pc' \in {"set_truststore", "set_keystore"} /\ buf'.unit.cert.issuer = "self"
    BY <1>1, <1>3 DEF RenewalAhead
  <2>2. CASE InitUnitTls \/ CertAvailable
    <3>1. task = "cert" /\ pc \in {"cert", "unit_tls"}
      BY <2>1, <2>2 DEF InitUnitTls, CertAvailable, AfterInitUnitTls, Goto
    <3> QED
      BY <1>1, <3>1 DEF RenewalAhead
  <2>3. CASE SetTruststore \/ SetKeystore
    <3>1. UNCHANGED buf /\ pc \in {"set_truststore", "set_keystore"}
          /\ buf.unit.cert.issuer \in {"self", "provider"}
      BY <2>3 DEF SetTruststore, SetKeystore, CertInv, TypeOK, Buffer, Unit, Cert
    <3>2. buf.unit.cert.issuer = "self" /\ task = "cert"
      BY <2>1, <2>3, <3>1 DEF SetTruststore, SetKeystore, AfterInitUnitTls, Goto
    <3> QED
      BY <1>1, <3>1, <3>2 DEF RenewalAhead
  <2>4. CASE CertStore
    <3>1. buf'.unit.cert.issuer = "provider" /\ pc' = "set_truststore"
      BY <2>4 DEF CertStore, Goto, TypeOK, Buffer, Unit
    <3> QED
      BY <2>1, <3>1
  <2> QED
    BY <2>1, <2>2, <2>3, <2>4
       DEF HandlerStep, Secrets, Reconcile, CertEmit, TlsBroken, CaChanged, CaRemoved,
           Cacerts1, CacertsPassword, CacertsSync, Check, UpdateTruststore, SetEnvironment,
           WriteConfig, Restart, KeytoolFails, Defer, Goto
<1> QED
  BY <1>2, <1>3

\* What the certificate of the hook's databag becomes.
LEMMA CertStep ==
    ASSUME TypeOK, CertInv, HandlerStep
    PROVE  \/ buf'.unit.cert = buf.unit.cert
           \/ CertStore /\ buf'.unit.cert = [issuer |-> "provider", id |-> issued]
           \/ TlsBroken /\ buf'.unit.cert = NoCert
           \/ /\ InitUnitTls
              /\ buf'.unit.cert.issuer = "self"
              /\ buf'.unit.cert # service.loaded.truststore.bundle
<1>1. CASE CertStore
  BY <1>1 DEF CertStore, TypeOK, Buffer, Unit
<1>2. CASE TlsBroken
  BY <1>2 DEF TlsBroken, TypeOK, Buffer, Unit
<1>3. CASE InitUnitTls /\ ~Ready(buf.unit)
  <2>1. PICK p \in FreshAbove(Changeit) : \E q \in FreshAbove(p) :
            buf' = [buf EXCEPT !.unit = SelfSigned(buf.unit, p, q)]
    BY <1>3 DEF InitUnitTls
  <2>2. buf'.unit.cert = [issuer |-> "self", id |-> p]
    BY <2>1 DEF SelfSigned, TypeOK, Buffer
  <2>3. p # service.loaded.truststore.bundle.id
    BY DEF FreshAbove, InUse
  <2> QED
    BY <1>3, <2>2, <2>3
<1>4. CASE ~CertStore /\ ~TlsBroken /\ ~(InitUnitTls /\ ~Ready(buf.unit))
  BY <1>4, UnitKept, InitUnitTlsDoes
<1> QED
  BY <1>1, <1>2, <1>3, <1>4

LEMMA CertHandler ==
    ASSUME TypeOK, OrderInv, SmoothInv, CertInv, HandlerStep
    PROVE  CertInv'
<1> USE HandlersKeep DEF OrderInv, JvmInv, TaskInv, RenewalInv, Tasks, Renewals
<1> DEFINE Older(b) == b.issuer = "provider" => b.id < issued
           Known(b) == b.issuer = "provider" => b.id <= issued
<1>1. UNCHANGED <<event, task, issued, pending, unit, redo>> /\ InHook /\ pc # "next"
  BY JujuKept
<1>2. issued \in Nat /\ ~Ready([cert |-> NoCert]) /\ Older(NoCert) /\ Known(NoCert)
  BY DEF TypeOK, NoCert, Ready
<1>3. \A u \in {unit', buf'.unit} : u.cert.issuer = "provider" => u.cert.id <= issued
  BY <1>1, <1>2, CertStep DEF CertInv, NoCert
<1>4. \A b \in Bundles' : b \in Bundles \cup {NoCert} \/ (SetTruststore /\ b = buf.unit.cert)
  BY BundleStep DEF Bundles
<1>5. \A b \in Bundles' : Known(b)
  BY <1>2, <1>4 DEF CertInv
<1>6. ASSUME "cert" \in pending' \/ (InHook' /\ event' = "cert" /\ RenewalAhead')
      PROVE  \A b \in Bundles' : Older(b)
  <2>1. "cert" \in pending \/ (event = "cert" /\ RenewalAhead)
    BY <1>1, <1>6, RenewalWasAhead
  <2>2. \A b \in Bundles : Older(b)
    BY <1>1, <2>1 DEF CertInv
  <2>3. ASSUME SetTruststore PROVE buf.unit.cert.issuer # "provider"
    <3>1. pc = "set_truststore" /\ pc' = "set_keystore" /\ UNCHANGED <<buf, work>>
          /\ task \in {"reconcile", "cert"}
      BY <2>3 DEF SetTruststore, Goto, Configuring
    <3>2. CASE task = "reconcile"
      BY <3>1, <3>2
    <3>3. CASE task = "cert"
      <4>1. event = "cert" /\ RenewalAhead'
        BY <1>1, <1>6, <3>3 DEF CertInv
      <4>2. work # <<"cert">>
        <5>1. work \in Seq(Tasks \ Renewals)
          BY <1>1, <3>3 DEF Deferrable
        <5> QED
          BY <5>1
      <4> QED
        BY <1>1, <3>1, <4>1, <4>2 DEF RenewalAhead
    <3> QED
      BY <3>1, <3>2, <3>3
  <2> QED
    BY <1>2, <1>4, <2>2, <2>3
<1>7. InHook' /\ event' = "cert" => "cert" \notin pending'
  BY <1>1 DEF CertInv
<1>8. /\ pc' = "set_truststore" => buf'.unit.cert # service'.loaded.truststore.bundle
      /\ pc' \in {"set_truststore", "set_keystore"} => buf'.unit.cert.issuer # "none"
  <2>1. CASE CertStore
    <3>1. event = "cert" /\ RenewalAhead /\ ~Restart
      BY <1>1, <2>1 DEF CertStore, RenewalAhead, Restart
    <3>2. Older(service.loaded.truststore.bundle)
      BY <1>1, <3>1 DEF CertInv, Bundles
    <3>3. buf'.unit.cert = [issuer |-> "provider", id |-> issued]
      BY <2>1 DEF CertStore, TypeOK, Buffer, Unit
    <3> QED
      BY <1>2, <3>1, <3>2, <3>3, ServiceKept
  <2>2. CASE InitUnitTls
    <3>1. UNCHANGED service
      BY <2>2 DEF InitUnitTls, machineVars
    <3>2. pc' = "set_truststore" => ~Ready(buf.unit)
      BY <2>2, InitUnitTlsDoes DEF AfterInitUnitTls
    <3>3. pc' # "set_keystore"
      BY <2>2 DEF InitUnitTls, AfterInitUnitTls, Goto
    <3>4. ~Ready(buf.unit) => buf'.unit.cert # buf.unit.cert
      BY <2>2, InitUnitTlsDoes DEF Ready, NoCert
    <3>5. ~CertStore /\ ~TlsBroken
      BY <2>2 DEF InitUnitTls, CertStore, TlsBroken
    <3> QED
      BY <3>1, <3>2, <3>3, <3>4, <3>5, CertStep
  <2>3. CASE SetTruststore
    <3>1. pc = "set_truststore" /\ pc' = "set_keystore" /\ UNCHANGED buf
      BY <2>3 DEF SetTruststore, Goto
    <3> QED
      BY <3>1 DEF CertInv
  <2>4. CASE ~CertStore /\ ~InitUnitTls /\ ~SetTruststore
    <3>1. pc' \notin {"set_truststore", "set_keystore"}
      BY <2>4 DEF HandlerStep, Secrets, Reconcile, SetKeystore, CertAvailable, CertEmit,
         TlsBroken, CaChanged, CaRemoved, Cacerts1, CacertsPassword, CacertsSync, Check,
         UpdateTruststore, SetEnvironment, WriteConfig, Restart, KeytoolFails,
         AfterInitUnitTls, Defer, Goto
    <3> QED
      BY <3>1
  <2> QED
    BY <2>1, <2>2, <2>3, <2>4
<1> QED
  BY <1>1, <1>3, <1>5, <1>6, <1>7, <1>8 DEF CertInv

LEMMA CertNext ==
    ASSUME NoFaults
    PROVE  TypeOK /\ OrderInv /\ SmoothInv /\ CertInv /\ [Next]_vars => CertInv'
<1> SUFFICES ASSUME TypeOK, OrderInv, SmoothInv, CertInv, [Next]_vars PROVE CertInv'
  OBVIOUS
<1> USE DEF CertInv
<1>0. /\ issued \in Nat /\ pc # "failed"
      /\ \A b \in Bundles : b.id \in Nat
  BY DEF TypeOK, SmoothInv, LeadKept, Bundles, Disk, Service, Truststore, Cert
<1>1. CASE HandlerStep
  BY <1>1, CertHandler
<1>2. ASSUME NEW e \in Events, Hook(e) PROVE CertInv'
  <2>1. /\ pc = "idle" /\ pc' = "next" /\ event' = e /\ pending' = pending \ {e}
        /\ e \in pending \cup {"status"} /\ buf'.unit = unit
        /\ UNCHANGED <<issued, unit, disk, service>>
    BY <1>2 DEF Hook, StartHook, commitVars, machineVars
  <2>2. e = "cert" => "cert" \in pending
    BY <2>1
  <2> QED
    BY <2>1, <2>2 DEF Bundles, InHook
<1>3. CASE Dispatch
  <2>1. /\ pc = "next" /\ InHook /\ pc' = task' /\ task' \in Tasks
        /\ UNCHANGED <<issued, pending, unit, disk, service, event, buf>>
    BY <1>3, DispatchType DEF Dispatch, TypeOK, jujuVars, machineVars, commitVars, InHook
  <2>2. pc' \notin {"set_truststore", "set_keystore"}
    BY <2>1 DEF Tasks
  <2>3. event = "cert" /\ RenewalAhead' => RenewalAhead
    <3> SUFFICES ASSUME event = "cert", RenewalAhead' PROVE work = <<"cert">>
      BY DEF RenewalAhead, Renewals
    <3>1. work' = <<"cert">> \/ task' = "cert"
      BY <2>1, <2>2 DEF RenewalAhead, Tasks
    <3>2. work \in Seq(Tasks \ Renewals) \/ work = <<"cert">>
      BY <2>1 DEF OrderInv, RenewalInv
    <3>3. CASE work \in Seq(Tasks \ Renewals)
      <4>1. work # <<>> => Head(work) \notin Renewals /\ Tail(work) \in Seq(Tasks \ Renewals)
        BY <3>3, HeadTailProperties
      <4>2. <<"cert">> \notin Seq(Tasks \ Renewals)
        BY DEF Renewals
      <4>3. redo \subseteq Deferrable
        BY <2>1 DEF OrderInv, RenewalInv
      <4> QED
        BY <1>3, <3>1, <3>3, <4>1, <4>2, <4>3 DEF Dispatch, Renewals, Deferrable
    <3> QED
      BY <3>2, <3>3
  <2> QED
    BY <2>1, <2>2, <2>3 DEF Bundles
<1>4. CASE Commit
  <2>1. /\ pc = "next" /\ pc' \in {"idle", "failed"} /\ unit' \in {unit, buf.unit}
        /\ UNCHANGED <<issued, pending, disk, service, event, buf>>
    BY <1>4 DEF Commit, commitVars, jujuVars, machineVars
  <2> QED
    BY <2>1 DEF Bundles, InHook
<1>5. CASE WorldChange \/ CertRenewed
  <2>1. /\ ~InHook /\ ~InHook' /\ UNCHANGED <<unit, disk, service, buf, pc>>
        /\ issued' \in {issued, issued + 1}
        /\ "cert" \in pending' => "cert" \in pending \/ issued' = issued + 1
    BY <1>5, HeardEvents DEF WorldChange, CertRenewed, EventsOf, InHook, commitVars, hookVars, machineVars
  <2>2. Bundles' = Bundles
    BY <2>1 DEF Bundles
  <2>3. \A b \in Bundles : b.issuer = "provider" =>
            b.id <= issued' /\ ("cert" \in pending' => b.id < issued')
    BY <1>0, <2>1
  <2>4. \A u \in {unit, buf.unit} : u.cert.id \in Nat
    BY DEF TypeOK, Buffer, Unit, Cert
  <2>5. \A u \in {unit, buf.unit} : u.cert.issuer = "provider" => u.cert.id <= issued'
    BY <1>0, <2>1, <2>4
  <2>6. pc \notin {"set_truststore", "set_keystore"}
    BY <2>1 DEF InHook
  <2> QED
    BY <2>1, <2>2, <2>3, <2>5, <2>6
<1>6. CASE Crash \/ RestartFails
  BY <1>6 DEF Crash, RestartFails, NoFaults
<1>7. CASE Retry
  BY <1>0, <1>7 DEF Retry
<1>8. CASE UNCHANGED <<issued, pending, unit, hookVars, machineVars>>
  BY <1>8 DEF Bundles, RenewalAhead, InHook, hookVars, machineVars
<1> QED
  BY <1>1, <1>2, <1>3, <1>4, <1>5, <1>6, <1>7, <1>8
     DEF Next, LeadershipChange, OtherLeaderCreates, OtherLeaderRotates,
         vars, jujuVars, commitVars

LEMMA CauseNext ==
    ASSUME NoFaults, Sha256Only
    PROVE  /\ TypeOK /\ OrderInv /\ SmoothInv /\ SmoothInv' /\ FileInv
           /\ CertInv /\ LoadedInv /\ CauseInv /\ [Next]_vars
           => LoadedInv' /\ CauseInv'
<1> SUFFICES ASSUME TypeOK, OrderInv, SmoothInv, SmoothInv', FileInv,
                    CertInv, LoadedInv, CauseInv, [Next]_vars
             PROVE  LoadedInv' /\ CauseInv'
  OBVIOUS
<1>1. CASE HandlerStep
  BY <1>1, LoadedHandler, CauseHandler
<1>2. CASE /\ UNCHANGED machineVars
           /\ pc \notin {"update_truststore", "set_environment", "write_config", "restart"}
           /\ pc' \notin {"update_truststore", "set_environment", "write_config", "restart"}
  BY <1>2 DEF LoadedInv, CauseInv, machineVars
<1>3. CASE (\E e \in Events : Hook(e)) \/ Retry
  BY <1>2, <1>3 DEF Hook, Retry, StartHook
<1>4. CASE Dispatch
  <2>1. pc' \in Tasks
    BY <1>4, DispatchType DEF Dispatch, TypeOK
  <2> QED
    BY <1>2, <1>4, <2>1 DEF Dispatch, Tasks
<1>5. CASE Commit
  BY <1>2, <1>5 DEF Commit
<1>6. CASE Crash \/ RestartFails
  BY <1>6 DEF Crash, RestartFails, NoFaults
<1>7. CASE WorldChange \/ CertRenewed
  <2>1. pc \in {"idle", "failed"} /\ UNCHANGED <<pc, machineVars>>
    BY <1>7 DEF WorldChange, CertRenewed, InHook, hookVars
  <2> QED
    BY <1>2, <2>1
<1>8. CASE UNCHANGED <<world, hookVars, machineVars>>
  BY <1>8 DEF LoadedInv, CauseInv, NewCa, hookVars, machineVars
<1> QED
  BY <1>1, <1>3, <1>4, <1>5, <1>6, <1>7, <1>8
     DEF Next, LeadershipChange, OtherLeaderCreates, OtherLeaderRotates, vars, jujuVars

LEMMA CauseInit == Init => CertInv /\ LoadedInv /\ CauseInv
<1> SUFFICES ASSUME Init PROVE CertInv /\ LoadedInv /\ CauseInv
  OBVIOUS
<1>1. /\ pc = "idle" /\ disk.truststore = NoTruststore /\ service.loaded = disk
      /\ ~service.up /\ unit.cert = NoCert /\ buf.unit = unit
  BY DEF Init
<1>2. NoTruststore.bundle = NoCert /\ NoCert.issuer = "none"
  BY DEF NoTruststore, NoCert
<1> QED
  BY <1>1, <1>2 DEF CertInv, LoadedInv, CauseInv, Bundles, InHook

\* Where nothing fails and the CAs' own signatures use SHA-256, config-changed
\* restarts a running service only when a file it loaded has changed: a new
\* certificate is never the one the service runs with, and until then the
\* truststore on disk is the one it loaded.
THEOREM RestartsHaveCauses ==
    ASSUME NoFaults, Sha256Only PROVE Spec => []RestartHasCause
<1>1. HooksEnd /\ RestartsEnd
  BY DEF NoFaults, HooksEnd, RestartsEnd
<1>2. TypeOK /\ OrderInv /\ SmoothInv /\ CertInv /\ [Next]_vars => CertInv'
  BY CertNext
<1>3. /\ TypeOK /\ OrderInv /\ SmoothInv /\ SmoothInv' /\ FileInv
      /\ CertInv /\ LoadedInv /\ CauseInv /\ [Next]_vars
      => LoadedInv' /\ CauseInv'
  BY CauseNext
<1>4. TypeOK /\ OrderInv /\ FileInv /\ [Next]_vars => FileInv'
  BY <1>1, FileNext
<1>5. Spec => []SmoothInv
  BY <1>1, SmoothCorrect
<1>6. CauseInv => RestartHasCause
  BY DEF CauseInv, RestartHasCause
<1> QED
  BY <1>2, <1>3, <1>4, <1>5, <1>6, FileInit, CauseInit, OrderCorrect, TypeCorrect, PTL
     DEF Spec

=============================================================================
