------------------------------- MODULE Health -------------------------------
(***************************************************************************)
(* What a unit shows of itself: the install and upgrade hooks, which bring *)
(* the snap (Workload.install over the snap library), and the status that  *)
(* every hook collects at its end (health_check with its retries), while   *)
(* snapd, the store, the service and the relations change as they like.    *)
(*                                                                         *)
(* A hook runs one read of the outside world a step: the service may go up *)
(* or down between two attempts of the same check.  Relation data is fixed *)
(* while a hook runs.  What config-changed does before it restarts the     *)
(* service is UnitAgent's subject: here, `dirty` says that it will.        *)
(***************************************************************************)
EXTENDS Naturals, Sequences, SequencesExt

CONSTANTS
    Revisions,  \* revisions of the snap
    MaxChanges  \* bound: changes of the outside world

ASSUME RevisionsAssumption == Revisions # {} /\ "none" \notin Revisions
ASSUME ChangesAssumption   == MaxChanges \in Nat

ActiveAttempts == 5   \* of Workload.active, a second apart
HealthAttempts == 3   \* of health_check, a second apart

VARIABLES
    wanted,   \* SNAP_REVISION of the charm
    snap,     \* on the machine: its revision, whether refreshes are held
    snapd,    \* whether the daemon answers, refuses, or lets a request time out
    store,    \* whether the snap store can be reached
    svc,      \* the service: off, up but refusing connections, answering 200, or else
    dirty,    \* config-changed has something to apply
    kafka, peers, route,  \* relations: to Kafka, to other units, to an ingress
    leader,
    events,   \* Juju events that wait
    failed,   \* the event of the hook that failed last and must be run again
    unitStatus, appStatus,
    w,        \* the hook that runs
    changes

machine   == <<snap, snapd, store, svc, dirty>>
relations == <<kafka, peers, route, leader>>
juju      == <<events, failed, unitStatus, appStatus>>
vars == <<wanted, machine, relations, juju, w, changes>>

Statuses == {"SNAP_NOT_INSTALLED", "INSTALLING", "MISSING_KAFKA", "NO_KAFKA_CREDENTIALS",
             "MISSING_INGRESS_HA", "SERVICE_NOT_RUNNING", "SERVICE_UNHEALTHY", "ACTIVE"}
\* blocked before maintenance before waiting before active
Severity(s) == CASE s = "ACTIVE"               -> 0
                 [] s = "NO_KAFKA_CREDENTIALS" -> 1
                 [] s = "INSTALLING"           -> 2
                 [] OTHER                      -> 3

NoHook == [event |-> "none"]
Idle   == w = NoHook
Hooks  == [event : {"install", "upgrade", "config", "status"},
           pc : {"ensure", "apps", "hold", "config", "check", "active", "get", "collect"},
           who : {"app", "unit"},        \* whose status is being collected
           cache : Revisions \cup {"none"},   \* the revision when SnapCache was read
           probes : 0..ActiveAttempts - 1, tries : 0..HealthAttempts - 1,
           pending : Seq(Statuses),      \* pending_inactive_statuses
           app : Statuses,               \* what the application will show
           unable : BOOLEAN,             \* install() has returned False
           refreshed : BOOLEAN,          \* the snap was refreshed under the hook
           hung : BOOLEAN, running : BOOLEAN, answered : BOOLEAN]  \* what the last attempt met

TypeOK ==
    /\ wanted \in Revisions
    /\ snap \in [rev : Revisions \cup {"none"}, held : BOOLEAN]
    /\ snap.rev = "none" => ~snap.held /\ svc = "off"
    /\ snapd \in {"up", "refuses", "hangs"} /\ store \in {"up", "down"}
    /\ svc \in {"off", "starting", "serves", "fails"} /\ dirty \in BOOLEAN
    /\ kafka \in {"none", "waiting", "ready"} /\ {peers, route, leader} \subseteq BOOLEAN
    /\ events \subseteq {"install", "upgrade", "config"}
    /\ failed \in {"none", "install", "upgrade", "config", "status"}
    /\ unitStatus \in Statuses \cup {"unknown"} /\ appStatus \in Statuses \cup {"unknown"}
    /\ w \in Hooks \cup {NoHook}
    /\ changes \in 0..MaxChanges

-----------------------------------------------------------------------------
(* snapd over its socket, and what the snap library makes of its answers.    *)

\* get_installed_snap_apps: a refusal, or a snap that is not there, is a SnapAPIError;
\* a time-out is not.
InstalledSnapApps ==
    CASE snapd = "hangs" -> "TimeoutError"
      [] snapd = "refuses" \/ (snapd = "up" /\ snap.rev = "none") -> "SnapAPIError"
      [] OTHER -> IF svc = "off" THEN "inactive" ELSE "active"
\* Snap.services: no services after a SnapAPIError.
Services == IF InstalledSnapApps = "SnapAPIError" THEN "none" ELSE InstalledSnapApps

-----------------------------------------------------------------------------
(* A hook starts: the charm is made, and with it the SnapCache, which reads  *)
(* the installed snaps from snapd and an absent one from the store.          *)

CacheLoads == snapd = "up" /\ (snap.rev = "none" => store = "up")

FirstTask(e) == IF e \in {"install", "upgrade"} THEN "ensure" ELSE "config"

StartHook(e) ==
    /\ Idle
    /\ w' = [event |-> e, pc |-> FirstTask(e), who |-> "unit", cache |-> snap.rev,
             probes |-> 0, tries |-> 0, pending |-> <<>>, app |-> "ACTIVE", unable |-> FALSE,
             refreshed |-> FALSE, hung |-> FALSE, running |-> FALSE, answered |-> FALSE]
    /\ CacheLoads
    /\ UNCHANGED <<wanted, machine, relations, juju, changes>>

\* A hook that raises: Juju runs it again, before any other.
HookFails(e) ==
    /\ failed' = e /\ w' = NoHook
    /\ UNCHANGED <<wanted, machine, relations, events, unitStatus, appStatus, changes>>

Due(e) ==
    IF failed # "none" THEN e = failed
    ELSE \/ e \in events /\ (e # "install" => "install" \notin events)
         \/ e = "status" /\ events = {}

Start == \E e \in {"install", "upgrade", "config", "status"} : Due(e) /\ StartHook(e)
CharmRaises ==
    \E e \in {"install", "upgrade", "config", "status"} :
        Idle /\ Due(e) /\ ~CacheLoads /\ HookFails(e)

-----------------------------------------------------------------------------
(* Workload.install: ensure, which ends with a question to snapd, then hold. *)
(* Either command may fail.                                                  *)

At(pc) == ~Idle /\ w.pc = pc
\* ops has a leader collect the application's status first.
ToCollect(h) == [h EXCEPT !.pc = "check", !.who = IF leader THEN "app" ELSE "unit",
                          !.tries = 0, !.probes = 0]
\* _set_status
Shown(h, status) == [h EXCEPT !.pending = Append(@, status)]
InstallFails(h) == ToCollect(Shown([h EXCEPT !.unable = TRUE], "SNAP_NOT_INSTALLED"))

\* A snap that was there in the right revision when the hook started is left alone.
Ensure ==
    /\ At("ensure")
    /\ \/ /\ w.cache = wanted
          /\ w' = [w EXCEPT !.pc = "apps"]
          /\ UNCHANGED <<snap, svc>>
       \/ /\ w.cache # wanted /\ snapd = "up" /\ store = "up"
          /\ snap' = [snap EXCEPT !.rev = wanted]
          /\ svc' \in {"off", "starting"}
          /\ w' = [w EXCEPT !.pc = "apps"]
       \/ /\ w.cache # wanted
          /\ w' = InstallFails(w)
          /\ UNCHANGED <<snap, svc>>
    /\ UNCHANGED <<wanted, snapd, store, dirty, relations, juju, changes>>

\* Snap._update_snap_apps asks which apps there are.  Neither it nor install catches
\* a time-out: the hook fails, with the snap there and not held.
UpdateSnapApps ==
    /\ At("apps")
    /\ \/ /\ InstalledSnapApps # "TimeoutError"
          /\ w' = [w EXCEPT !.pc = "hold"]
          /\ UNCHANGED <<wanted, machine, relations, juju, changes>>
       \/ InstalledSnapApps = "TimeoutError" /\ HookFails(w.event)

\* Mutant: a snap that was not installed anew is not held either.
HoldOnce ==
    /\ At("hold")
    /\ \/ /\ snapd = "up"
          /\ snap' = [snap EXCEPT !.held = @ \/ w.cache # wanted]
          /\ w' = IF w.event = "upgrade" THEN [w EXCEPT !.pc = "config"] ELSE ToCollect(w)
       \/ w' = InstallFails(w) /\ UNCHANGED snap
    /\ UNCHANGED <<wanted, snapd, store, svc, dirty, relations, juju, changes>>

Hold ==
    /\ At("hold")
    /\ \/ /\ snapd = "up" /\ snap' = [snap EXCEPT !.held = TRUE]
          /\ w' = IF w.event = "upgrade" THEN [w EXCEPT !.pc = "config"] ELSE ToCollect(w)
       \/ w' = InstallFails(w) /\ UNCHANGED snap
    /\ UNCHANGED <<wanted, snapd, store, svc, dirty, relations, juju, changes>>

\* config-changed, on its own or emitted by upgrade-charm and update-status: without
\* the snap it finds no keytool, unless it has to wait for the leader's passwords.
\* The restart's error is logged and forgotten.
ConfigChanged ==
    /\ At("config")
    /\ \/ /\ w' = ToCollect(w)
          /\ dirty' = (dirty /\ snap.rev = "none")
          /\ \/ dirty /\ snap.rev # "none" /\ snapd = "up" /\ svc' = "starting"
             \/ (dirty /\ snap.rev # "none" => snapd # "up") /\ UNCHANGED svc
          /\ UNCHANGED <<wanted, snap, snapd, store, relations, juju, changes>>
       \/ snap.rev = "none" /\ HookFails(w.event)

-----------------------------------------------------------------------------
(* _on_collect_status: health_check, for the application and for the unit    *)

KafkaStatus == CASE kafka = "none"    -> "MISSING_KAFKA"
                 [] kafka = "waiting" -> "NO_KAFKA_CREDENTIALS"
                 [] kafka = "ready"   -> "ACTIVE"
ContextStatus ==
    IF KafkaStatus # "ACTIVE" THEN KafkaStatus
    ELSE IF peers /\ ~route THEN "MISSING_INGRESS_HA" ELSE "ACTIVE"

\* Mutant: the status added last.
LastAdded(pending) == Last(Append(pending, "ACTIVE"))
\* The first of the gravest statuses.
Gravest(pending) ==
    LET all == Append(pending, "ACTIVE")
    IN  all[SelectInSeq(all, LAMBDA s : \A t \in ToSet(all) : Severity(t) <= Severity(s))]

\* Mutant: what the leader's check for the application found is forgotten.
CheckedFreshly(h) ==
    IF h.who = "unit" THEN [h EXCEPT !.pc = "collect"]
    ELSE [h EXCEPT !.pc = "check", !.who = "unit", !.app = Gravest(h.pending),
                   !.pending = <<>>, !.tries = 0, !.probes = 0]

\* The check has ended; pending_inactive_statuses is kept from one to the next.
Checked(h) ==
    IF h.who = "unit" THEN [h EXCEPT !.pc = "collect"]
    ELSE [h EXCEPT !.pc = "check", !.who = "unit", !.app = Gravest(h.pending),
                   !.tries = 0, !.probes = 0]
Report(h, status) == Checked(Shown(h, status))
\* Mutant: once more than the attempts allow.
RaisedOften(h) ==
    IF h.tries = HealthAttempts THEN Checked(h)
    ELSE [h EXCEPT !.pc = "check", !.tries = @ + 1, !.probes = 0]
\* An exception: once more, and after the last time False, without a status.
Raised(h) ==
    IF h.tries + 1 = HealthAttempts THEN Checked(h)
    ELSE [h EXCEPT !.pc = "check", !.tries = @ + 1, !.probes = 0]

Check ==
    /\ At("check")
    /\ w' = LET h == [w EXCEPT !.hung = (Services = "TimeoutError"), !.running = FALSE, !.answered = FALSE]
            IN  IF Services = "TimeoutError" THEN Raised(h)
                ELSE IF Services = "none" THEN Report(h, "INSTALLING")
                ELSE IF ContextStatus # "ACTIVE" THEN Report(h, ContextStatus)
                ELSE [h EXCEPT !.pc = "active"]
    /\ UNCHANGED <<wanted, machine, relations, juju, changes>>

\* Workload.active, one of its attempts.
Active ==
    /\ At("active")
    /\ w' = IF Services = "TimeoutError" THEN Raised([w EXCEPT !.hung = TRUE])
            ELSE IF Services = "active"
                 THEN [w EXCEPT !.pc = "get", !.running = TRUE]
            ELSE IF w.probes + 1 = ActiveAttempts THEN Report(w, "SERVICE_NOT_RUNNING")
            ELSE [w EXCEPT !.probes = @ + 1]
    /\ UNCHANGED <<wanted, machine, relations, juju, changes>>

\* requests.get
Get ==
    /\ At("get")
    /\ w' = CASE svc = "serves" -> Checked([w EXCEPT !.answered = TRUE])
              [] svc = "fails"  -> Report([w EXCEPT !.answered = TRUE], "SERVICE_UNHEALTHY")
              [] OTHER          -> Raised(w)
    /\ UNCHANGED <<wanted, machine, relations, juju, changes>>

Collect ==
    /\ At("collect")
    /\ unitStatus' = Gravest(w.pending)
    /\ appStatus' = IF leader THEN w.app ELSE appStatus
    /\ events' = events \ {w.event}
    /\ failed' = "none" /\ w' = NoHook
    /\ UNCHANGED <<wanted, machine, relations, changes>>

-----------------------------------------------------------------------------
(* The world outside                                                         *)

Change == changes < MaxChanges /\ changes' = changes + 1

SnapdChanges ==
    /\ Change /\ snapd' \in {"up", "refuses", "hangs"} \ {snapd}
    /\ UNCHANGED <<wanted, snap, store, svc, dirty, relations, juju, w>>
StoreChanges ==
    /\ Change /\ store' \in {"up", "down"} \ {store}
    /\ UNCHANGED <<wanted, snap, snapd, svc, dirty, relations, juju, w>>
ServiceChanges ==
    /\ Change /\ snap.rev # "none"
    /\ svc' \in {"off", "serves", "fails"} \ {svc}
    /\ UNCHANGED <<wanted, snap, snapd, store, dirty, relations, juju, w>>
ServiceStarts ==
    /\ svc = "starting" /\ svc' = "serves"
    /\ UNCHANGED <<wanted, snap, snapd, store, dirty, relations, juju, w, changes>>
AutoRefresh ==
    /\ Change /\ snap.rev # "none" /\ ~snap.held
    /\ snap' \in [rev : Revisions \ {snap.rev}, held : {FALSE}]
    /\ svc' \in {"off", "starting"}
    /\ w' = IF Idle THEN w ELSE [w EXCEPT !.refreshed = TRUE]
    /\ UNCHANGED <<wanted, snapd, store, dirty, relations, juju>>

\* Between two hooks.
RelationChanges ==
    /\ Change /\ Idle
    /\ \/ kafka' \in {"none", "waiting", "ready"} \ {kafka} /\ UNCHANGED <<peers, route, leader>>
       \/ peers' = ~peers /\ UNCHANGED <<kafka, route, leader>>
       \/ route' = ~route /\ UNCHANGED <<kafka, peers, leader>>
       \/ leader' = ~leader /\ UNCHANGED <<kafka, peers, route>>
    /\ events' = events \cup {"config"} /\ dirty' = TRUE
    /\ UNCHANGED <<wanted, snap, snapd, store, svc, failed, unitStatus, appStatus, w>>
UpgradeCharm ==
    /\ Change /\ Idle
    /\ wanted' \in Revisions \ {wanted}
    /\ events' = events \cup {"upgrade"}
    /\ UNCHANGED <<machine, relations, failed, unitStatus, appStatus, w>>

Init ==
    /\ wanted \in Revisions /\ snap = [rev |-> "none", held |-> FALSE]
    /\ snapd \in {"up", "refuses"} /\ store \in {"up", "down"} /\ svc = "off" /\ dirty = TRUE
    /\ kafka \in {"none", "ready"} /\ peers = FALSE /\ route = FALSE
    /\ leader \in BOOLEAN
    /\ events = {"install", "config"} /\ failed = "none"
    /\ unitStatus = "unknown" /\ appStatus = "unknown"
    /\ w = NoHook /\ changes = 0

HookStep == Start \/ CharmRaises \/ Ensure \/ UpdateSnapApps \/ Hold
            \/ ConfigChanged \/ Check \/ Active \/ Get \/ Collect
Next ==
    \/ HookStep
    \/ SnapdChanges \/ StoreChanges \/ ServiceChanges \/ ServiceStarts \/ AutoRefresh
    \/ RelationChanges \/ UpgradeCharm

\* Juju runs the hooks, update-status again and again; a service that starts is up
\* some time.
Fairness == WF_vars(HookStep) /\ WF_vars(ServiceStarts)
Spec == Init /\ [][Next]_vars /\ Fairness

-----------------------------------------------------------------------------
(* Properties *)

HookEnds == ~Idle /\ w' = NoHook /\ failed' = "none"

\* A unit is never shown active unless the check has seen the service running in its
\* last attempt and the relations are what the application needs: neither a retry nor
\* the check for the application makes a failure disappear, so that what the leader
\* found for the application is shown for its unit, too.  (A snapd that lets requests
\* time out does: the check gives up without a status.)
ActiveIsEarned ==
    [][HookEnds =>
        /\ (unitStatus' = "ACTIVE" /\ ~w.hung) =>
               (w.running /\ ContextStatus = "ACTIVE" /\ ~w.unable)
        /\ leader => Severity(unitStatus') >= Severity(appStatus')]_vars

\* An install or refresh that failed is what the hook shows, whatever else the check
\* finds; one that did not fail leaves the snap in its revision with refreshes held,
\* if no refresh came between.  This is said of hooks that end: one in which snapd let
\* ensure's last question time out is run again, finds the snap there, and has still
\* to hold it.
InstallIsTold ==
    [][HookEnds =>
        /\ w.unable <=> unitStatus' = "SNAP_NOT_INSTALLED"
        /\ (w.event \in {"install", "upgrade"} /\ ~w.unable) =>
               snap.held /\ (snap.rev = wanted \/ w.refreshed)]_vars

\* What a unit has to show when nothing changes any more.
Expected ==
    IF snap.rev = "none" THEN "INSTALLING"
    ELSE IF ContextStatus # "ACTIVE" THEN ContextStatus
    ELSE CASE svc = "off" -> "SERVICE_NOT_RUNNING" [] svc = "fails" -> "SERVICE_UNHEALTHY"
           [] OTHER -> "ACTIVE"

\* Once snapd answers and nothing changes, every unit shows what is the case for
\* good, or its hooks fail for want of the snap.
StatusConverges ==
    \A s \in Statuses :
        <>[](Expected = s /\ snapd = "up" /\ svc # "starting") =>
            <>[](unitStatus = s \/ (snap.rev = "none" /\ failed # "none"))

\* README: a unit that is shown active is ready to be used.  (That snapd may hang is
\* left aside here.)
ActiveMeansAnswered ==
    [][(HookEnds /\ unitStatus' = "ACTIVE" /\ ~w.hung) => w.answered]_vars

=============================================================================
