---------------------------- MODULE HealthProofs ----------------------------
(***************************************************************************)
(* What a hook shows at its end (Health): a unit is active only where its  *)
(* check has met a running service, a failed install is always told, and   *)
(* the leader's unit is not shown better than the application, for any     *)
(* number of changes of the machine, the snap daemon and the relations.    *)
(***************************************************************************)
EXTENDS Health, WellFoundedInduction, TLAPS

Installing == {"ensure", "apps", "hold"}
Collecting == {"check", "active", "get", "collect"}

\* Statuses are collected in the order in which they were found.
PendingInv(h) ==
    /\ h.pending \in Seq(Statuses \ {"ACTIVE"})
    /\ h.pc \notin Collecting => h.pending = <<>> /\ ~h.unable
    /\ h.unable => h.pending # <<>> /\ h.pending[1] = "SNAP_NOT_INSTALLED"
    /\ ~h.unable => \A i \in 1..Len(h.pending) : h.pending[i] # "SNAP_NOT_INSTALLED"
    /\ h.app = "ACTIVE" \/ \E i \in 1..Len(h.pending) : h.pending[i] = h.app

\* What the steps of a check have seen.
CheckInv(h) ==
    /\ h.pc \in {"active", "get"} => ContextStatus = "ACTIVE"
    /\ h.pc = "get" => h.running
    /\ h.pc = "collect" => \/ h.pending # <<>> \/ h.hung
                           \/ h.running /\ ContextStatus = "ACTIVE"

\* The snap during a hook that installs it.
InstallInv(h) ==
    /\ h.refreshed => snap.rev # "none"
    /\ h.pc = "ensure" => h.cache = snap.rev \/ h.refreshed
    /\ h.pc \in {"apps", "hold"} => snap.rev = wanted \/ h.refreshed
    /\ (h.event \in {"install", "upgrade"} /\ h.pc \notin Installing /\ ~h.unable) =>
          snap.held /\ (snap.rev = wanted \/ h.refreshed)

HookInv(h) == PendingInv(h) /\ CheckInv(h) /\ InstallInv(h)
HealthInv == TypeOK /\ (~Idle => HookInv(w))

-----------------------------------------------------------------------------
(* The gravest of the statuses *)

LEMMA LeastOf ==
  ASSUME NEW I, I \subseteq Nat, I # {}
  PROVE  \E i \in I : \A j \in I : i <= j
  <1>1. PICK i \in I : \A j \in I : ~(<<j, i>> \in OpToRel(<, Nat))
    BY NatLessThanWellFounded, WFMin
  <1>2. \A j \in I : ~(j < i)
    BY <1>1 DEF OpToRel
  <1> QED  BY <1>2

LEMMA SeverityRange ==
  /\ \A s \in Statuses : Severity(s) \in 0..3
  /\ \A s \in Statuses \ {"ACTIVE"} : Severity(s) \in 1..3
  /\ Severity("ACTIVE") = 0 /\ Severity("SNAP_NOT_INSTALLED") = 3
  BY DEF Statuses, Severity

LEMMA GravestFacts ==
  ASSUME NEW p \in Seq(Statuses \ {"ACTIVE"})
  PROVE  /\ Gravest(p) = "ACTIVE" \/ \E i \in 1..Len(p) : p[i] = Gravest(p)
         /\ Gravest(p) = "ACTIVE" => p = <<>>
         /\ \A i \in 1..Len(p) : Severity(p[i]) <= Severity(Gravest(p))
         /\ (p # <<>> /\ p[1] = "SNAP_NOT_INSTALLED") => Gravest(p) = "SNAP_NOT_INSTALLED"
         /\ Gravest(p) \in Statuses
  <1> DEFINE all == Append(p, "ACTIVE")
             Top(i) == \A t \in ToSet(all) : Severity(t) <= Severity(all[i])
             I == {i \in 1..Len(all) : Top(i)}
  <1>1. /\ Len(all) = Len(p) + 1 /\ Len(p) \in Nat /\ all[Len(p) + 1] = "ACTIVE"
        /\ \A i \in 1..Len(p) : all[i] = p[i]
        /\ DOMAIN all = 1..Len(all) /\ all \in Seq(Statuses)
    BY DEF Statuses
  <1>2. ToSet(all) = {all[i] : i \in 1..Len(all)}
    BY <1>1 DEF ToSet
  <1> HIDE DEF all
  <1>3. \A i \in 1..Len(all) : all[i] \in Statuses
    BY <1>1
  <1>4. \A i \in 1..Len(all) : (\A j \in 1..Len(all) : Severity(all[j]) <= Severity(all[i])) => i \in I
    BY <1>2
  <1>5. I # {}
    <2> DEFINE Has(n) == \E i \in 1..Len(all) : Severity(all[i]) = n
    <2>1. \A i \in 1..Len(all) : Severity(all[i]) \in 0..3
      BY <1>3, SeverityRange
    <2>2. CASE Has(3)
      BY SMTT(30), <1>4, <2>1, <2>2
    <2>3. CASE ~Has(3) /\ Has(2)
      BY <1>4, <2>1, <2>3
    <2>4. CASE ~Has(3) /\ ~Has(2) /\ Has(1)
      BY <1>4, <2>1, <2>4
    <2>5. CASE ~Has(3) /\ ~Has(2) /\ ~Has(1)
      <3>1. \A i \in 1..Len(all) : Severity(all[i]) = 0
        BY <2>1, <2>5
      <3>2. Len(p) + 1 \in 1..Len(all)
        BY <1>1
      <3> QED  BY <1>4, <3>1, <3>2
    <2> QED  BY <2>2, <2>3, <2>4, <2>5
  <1> DEFINE m == Min(I)
  <1>6. m \in I /\ \A j \in I : m <= j
    <2>1. I \subseteq Nat
      BY <1>1
    <2>2. \E i \in I : \A j \in I : i <= j
      BY <1>5, <2>1, LeastOf
    <2> HIDE DEF I
    <2> QED  BY <2>2 DEF Min
  <1>7. Gravest(p) = all[m]
    BY <1>5 DEF Gravest, SelectInSeq, all
  <1>8. \A i \in 1..Len(all) : Severity(all[i]) <= Severity(all[m])
    BY <1>2, <1>6
  <1>9. m \in 1..Len(all)
    BY <1>6
  <1> HIDE DEF m, I
  <1>10. /\ Gravest(p) \in Statuses /\ \A i \in 1..Len(p) : Severity(p[i]) <= Severity(Gravest(p))
    BY <1>1, <1>3, <1>7, <1>8, <1>9
  <1>11. Gravest(p) = "ACTIVE" \/ \E i \in 1..Len(p) : p[i] = Gravest(p)
    BY <1>1, <1>7, <1>9
  <1>12. Gravest(p) = "ACTIVE" => p = <<>>
    <2> SUFFICES ASSUME Gravest(p) = "ACTIVE", p # <<>> PROVE FALSE
      OBVIOUS
    <2>1. 1 \in 1..Len(p) /\ p[1] \in Statuses \ {"ACTIVE"}
      BY <1>1
    <2>2. Severity(p[1]) \in 1..3
      BY <2>1, SeverityRange
    <2>3. Severity(p[1]) <= 0
      BY <1>10, <2>1, SeverityRange
    <2> QED  BY <2>2, <2>3
  <1>13. (p # <<>> /\ p[1] = "SNAP_NOT_INSTALLED") => Gravest(p) = "SNAP_NOT_INSTALLED"
    <2> SUFFICES ASSUME p # <<>>, p[1] = "SNAP_NOT_INSTALLED" PROVE m = 1
      BY <1>1, <1>7
    <2>1. 1 \in 1..Len(all) /\ all[1] = "SNAP_NOT_INSTALLED"
      BY <1>1
    <2>2. Severity(all[1]) = 3
      BY <2>1, SeverityRange
    <2>3. 1 \in I
      BY <1>3, <1>4, <2>1, <2>2, SeverityRange DEF I
    <2> QED  BY <1>6, <1>9, <2>3
  <1> QED  BY <1>10, <1>11, <1>12, <1>13

-----------------------------------------------------------------------------
(* What a check makes of the hook *)

\* The check has ended or begins again; what is left of hook h is g.
Ended(g, h) ==
    /\ g \in Hooks /\ PendingInv(g)
    /\ g.event = h.event /\ g.unable = h.unable /\ g.refreshed = h.refreshed
    /\ g.pc \in {"check", "collect"}
    /\ g.pc = "collect" => g.pending = h.pending /\ g.hung = h.hung /\ g.running = h.running

LEMMA CheckedHook ==
  ASSUME NEW h \in Hooks, PendingInv(h), h.pc \in Collecting PROVE Ended(Checked(h), h)
  <1>1. CASE h.who = "unit"
    <2>1. Checked(h) = [h EXCEPT !.pc = "collect"]
      BY <1>1 DEF Checked
    <2> QED  BY <2>1 DEF Ended, Hooks, PendingInv, Collecting
  <1>2. CASE h.who # "unit"
    <2> DEFINE g == Checked(h)
    <2>1. g = [h EXCEPT !.pc = "check", !.who = "unit", !.app = Gravest(h.pending),
                        !.tries = 0, !.probes = 0]
      BY <1>2 DEF Checked
    <2>2. /\ Gravest(h.pending) \in Statuses
          /\ Gravest(h.pending) = "ACTIVE"
                \/ \E i \in 1..Len(h.pending) : h.pending[i] = Gravest(h.pending)
      BY GravestFacts DEF PendingInv
    <2> HIDE DEF g
    <2>3. 0 \in 0..ActiveAttempts - 1 /\ 0 \in 0..HealthAttempts - 1
      BY DEF ActiveAttempts, HealthAttempts
    <2>4. g \in Hooks
      BY <2>1, <2>2, <2>3 DEF Hooks
    <2>5. /\ g.pc = "check" /\ g.app = Gravest(h.pending) /\ g.pending = h.pending
          /\ g.unable = h.unable /\ g.event = h.event /\ g.refreshed = h.refreshed
      BY <2>1 DEF Hooks
    <2>6. PendingInv(g)
      BY <2>2, <2>5 DEF PendingInv, Collecting
    <2> QED  BY <2>4, <2>5, <2>6 DEF Ended, g
  <1> QED  BY <1>1, <1>2

LEMMA ReportedHook ==
  ASSUME NEW h \in Hooks, PendingInv(h), h.pc \in Collecting,
         NEW s \in Statuses \ {"ACTIVE", "SNAP_NOT_INSTALLED"}
  PROVE  \E g \in Hooks : Ended(Report(h, s), g) /\ g.pending # <<>>
            /\ g.event = h.event /\ g.unable = h.unable /\ g.refreshed = h.refreshed
  <1> DEFINE g == Shown(h, s)
             p == h.pending
  <1>1. g = [h EXCEPT !.pending = Append(p, s)]
    BY DEF Shown
  <1>2. p \in Seq(Statuses \ {"ACTIVE"})
    BY DEF PendingInv
  <1>3. /\ Append(p, s) \in Seq(Statuses \ {"ACTIVE"}) /\ Append(p, s) # <<>>
        /\ Len(Append(p, s)) = Len(p) + 1 /\ Append(p, s)[Len(p) + 1] = s
        /\ \A i \in 1..Len(p) : Append(p, s)[i] = p[i]
        /\ Len(p) \in Nat
    BY <1>2
  <1>4. Append(p, s) \in Seq(Statuses)
    BY <1>3
  <1> HIDE DEF g
  <1>5. /\ g \in Hooks /\ g.pending = Append(p, s) /\ g.pc = h.pc /\ g.unable = h.unable
        /\ g.app = h.app /\ g.event = h.event /\ g.refreshed = h.refreshed
    BY <1>1, <1>4 DEF Hooks
  <1> DEFINE q == g.pending
  <1>6. h.unable => g.pending # <<>> /\ g.pending[1] = "SNAP_NOT_INSTALLED"
    <2> SUFFICES ASSUME h.unable PROVE Append(p, s)[1] = "SNAP_NOT_INSTALLED"
      BY <1>3, <1>5
    <2>1. p # <<>> /\ p[1] = "SNAP_NOT_INSTALLED"
      BY DEF PendingInv
    <2>2. 1 \in 1..Len(p)
      BY <1>2, <2>1
    <2> QED  BY <1>3, <2>1, <2>2
  <1>7. ~h.unable => \A i \in 1..Len(g.pending) : g.pending[i] # "SNAP_NOT_INSTALLED"
    <2> SUFFICES ASSUME ~h.unable, NEW i \in 1..Len(p) + 1
                 PROVE  Append(p, s)[i] # "SNAP_NOT_INSTALLED"
      BY <1>3, <1>5
    <2>1. \A j \in 1..Len(p) : p[j] # "SNAP_NOT_INSTALLED"
      BY DEF PendingInv
    <2> QED  BY <1>3, <2>1
  <1>8. h.app = "ACTIVE" \/ \E i \in 1..Len(g.pending) : g.pending[i] = h.app
    <2>1. h.app = "ACTIVE" \/ \E i \in 1..Len(p) : p[i] = h.app
      BY DEF PendingInv
    <2> QED  BY <1>3, <1>5, <2>1
  <1>9. PendingInv(g)
    BY <1>3, <1>5, <1>6, <1>7, <1>8 DEF PendingInv
  <1>10. Ended(Checked(g), g)
    BY <1>5, <1>9, CheckedHook
  <1>11. Ended(Report(h, s), g)
    BY <1>10 DEF Report, g
  <1> QED  BY <1>3, <1>5, <1>11

LEMMA RaisedHook ==
  ASSUME NEW h \in Hooks, PendingInv(h), h.pc \in Collecting PROVE Ended(Raised(h), h)
  <1>1. CASE h.tries + 1 = HealthAttempts
    BY <1>1, CheckedHook DEF Raised
  <1>2. CASE h.tries + 1 # HealthAttempts
    <2> DEFINE g == Raised(h)
    <2>1. g = [h EXCEPT !.pc = "check", !.tries = h.tries + 1, !.probes = 0]
      BY <1>2 DEF Raised
    <2> HIDE DEF g
    <2>2. h.tries \in 0..2
      BY DEF Hooks, HealthAttempts
    <2>3. h.tries + 1 \in 0..HealthAttempts - 1 /\ 0 \in 0..ActiveAttempts - 1
      BY <1>2, <2>2 DEF HealthAttempts, ActiveAttempts
    <2>4. /\ g.pc = "check" /\ g.pending = h.pending /\ g.app = h.app
          /\ g.unable = h.unable /\ g.event = h.event /\ g.refreshed = h.refreshed
      BY <2>1 DEF Hooks
    <2>5. g \in Hooks
      BY <2>1, <2>3 DEF Hooks
    <2>6. PendingInv(g)
      BY <2>4 DEF PendingInv, Collecting
    <2> QED  BY <2>4, <2>5, <2>6 DEF Ended, g
  <1> QED  BY <1>1, <1>2

-----------------------------------------------------------------------------
(* Each action keeps the invariant *)

Others == <<wanted, machine, relations, juju, changes>>

LEMMA HookTypes ==
  ASSUME TypeOK
  PROVE  /\ ~Idle <=> w \in Hooks
         /\ ~Idle => w.pc \in Installing \cup {"config"} \cup Collecting
  BY DEF TypeOK, Idle, NoHook, Hooks, Installing, Collecting

\* A step of the hook that leaves all else alone.
LEMMA HookOnly ==
  ASSUME HealthInv, UNCHANGED Others, w' \in Hooks, HookInv(w')
  PROVE  HealthInv' /\ w' \in Hooks
  <1>1. TypeOK'
    BY DEF HealthInv, TypeOK, Others, machine, relations, juju
  <1>2. HookInv(w)'
    BY DEF HookInv, PendingInv, CheckInv, InstallInv, Installing, ContextStatus, KafkaStatus, Others, machine,
           relations
  <1> QED  BY <1>1, <1>2 DEF HealthInv

LEMMA EndedCheck ==
  ASSUME HealthInv, UNCHANGED Others, w \in Hooks, w.pc \in Collecting,
         NEW h, h.event = w.event, h.unable = w.unable, h.refreshed = w.refreshed,
         Ended(w', h),
         h.pending # <<>> \/ h.hung \/ (h.running /\ ContextStatus = "ACTIVE")
  PROVE  HealthInv' /\ w' \in Hooks
  <1>1. InstallInv(w) /\ w.pc \notin Installing
    BY HookTypes DEF HealthInv, HookInv, Installing, Collecting
  <1>2. PendingInv(w') /\ CheckInv(w') /\ InstallInv(w')
    BY <1>1 DEF Ended, CheckInv, InstallInv, Installing
  <1> QED  BY <1>2, HookOnly DEF Ended, HookInv

LEMMA ContextStatuses ==
  ContextStatus \in {"ACTIVE", "MISSING_KAFKA", "NO_KAFKA_CREDENTIALS", "MISSING_INGRESS_HA"}
    \/ kafka \notin {"none", "waiting", "ready"}
  BY DEF ContextStatus, KafkaStatus

LEMMA CheckStep == ASSUME HealthInv, Check PROVE HealthInv' /\ w' \in Hooks
  <1> DEFINE h == [w EXCEPT !.hung = (Services = "TimeoutError"), !.running = FALSE,
                            !.answered = FALSE]
  <1>1. /\ w \in Hooks /\ w.pc = "check" /\ HookInv(w) /\ UNCHANGED Others
    BY HookTypes DEF HealthInv, Check, At, Others
  <1>2. /\ h \in Hooks /\ h.pc = "check" /\ h.event = w.event /\ h.unable = w.unable
        /\ h.refreshed = w.refreshed /\ h.pending = w.pending /\ h.app = w.app
        /\ h.hung = (Services = "TimeoutError")
    BY <1>1 DEF Hooks
  <1>3. w' = IF Services = "TimeoutError" THEN Raised(h)
             ELSE IF Services = "none" THEN Report(h, "INSTALLING")
             ELSE IF ContextStatus # "ACTIVE" THEN Report(h, ContextStatus)
             ELSE [h EXCEPT !.pc = "active"]
    BY DEF Check
  <1> HIDE DEF h
  <1>4. PendingInv(h) /\ h.pc \in Collecting /\ w.pc \in Collecting
    BY <1>1, <1>2 DEF PendingInv, HookInv, Collecting
  <1>5. ASSUME NEW s \in Statuses \ {"ACTIVE", "SNAP_NOT_INSTALLED"}, w' = Report(h, s)
        PROVE  HealthInv' /\ w' \in Hooks
    <2>1. PICK g \in Hooks : /\ Ended(Report(h, s), g) /\ g.pending # <<>>
              /\ g.event = h.event /\ g.unable = h.unable /\ g.refreshed = h.refreshed
      BY <1>2, <1>4, ReportedHook
    <2> QED  BY <1>1, <1>2, <1>4, <1>5, <2>1, EndedCheck
  <1>6. CASE Services = "TimeoutError"
    <2>1. Ended(w', h)
      BY <1>2, <1>3, <1>4, <1>6, RaisedHook
    <2> QED  BY <1>1, <1>2, <1>4, <1>6, <2>1, EndedCheck
  <1>7. CASE Services # "TimeoutError" /\ Services = "none"
    <2>1. w' = Report(h, "INSTALLING") /\ "INSTALLING" \in Statuses \ {"ACTIVE", "SNAP_NOT_INSTALLED"}
      BY <1>3, <1>7 DEF Statuses
    <2> QED  BY <1>5, <2>1
  <1>8. CASE Services # "TimeoutError" /\ Services # "none" /\ ContextStatus # "ACTIVE"
    <2>1. ContextStatus \in Statuses \ {"ACTIVE", "SNAP_NOT_INSTALLED"}
      BY <1>8, ContextStatuses DEF Statuses, HealthInv, TypeOK
    <2>2. w' = Report(h, ContextStatus)
      BY <1>3, <1>8
    <2> HIDE DEF ContextStatus
    <2> QED  BY <1>5, <2>1, <2>2
  <1>9. CASE Services # "TimeoutError" /\ Services # "none" /\ ContextStatus = "ACTIVE"
    <2>1. w' = [h EXCEPT !.pc = "active"]
      BY <1>3, <1>9
    <2>2. /\ w' \in Hooks /\ w'.pc = "active" /\ w'.event = w.event /\ w'.unable = w.unable
          /\ w'.refreshed = w.refreshed /\ w'.pending = w.pending /\ w'.app = w.app
      BY <1>2, <2>1 DEF Hooks
    <2>3. HookInv(w')
      BY <1>1, <1>9, <2>2 DEF HookInv, PendingInv, CheckInv, InstallInv, Installing, Collecting
    <2> QED  BY <1>1, <2>2, <2>3, HookOnly
  <1> QED  BY <1>6, <1>7, <1>8, <1>9

LEMMA ActiveStep == ASSUME HealthInv, Active PROVE HealthInv' /\ w' \in Hooks
  <1>1. /\ w \in Hooks /\ w.pc = "active" /\ HookInv(w) /\ UNCHANGED Others
        /\ w.pc \in Collecting /\ PendingInv(w) /\ ContextStatus = "ACTIVE"
    BY HookTypes DEF HealthInv, Active, At, Others, Collecting, HookInv, CheckInv
  <1>2. CASE Services = "TimeoutError"
    <2> DEFINE h == [w EXCEPT !.hung = TRUE]
    <2>1. w' = Raised(h)
      BY <1>2 DEF Active
    <2>2. /\ h \in Hooks /\ h.pc = "active" /\ h.event = w.event /\ h.unable = w.unable
          /\ h.refreshed = w.refreshed /\ h.pending = w.pending /\ h.app = w.app /\ h.hung
      BY <1>1 DEF Hooks
    <2> HIDE DEF h
    <2>3. PendingInv(h) /\ h.pc \in Collecting
      BY <1>1, <2>2 DEF PendingInv
    <2>4. Ended(w', h)
      BY <2>1, <2>2, <2>3, RaisedHook
    <2> QED  BY <1>1, <2>2, <2>4, EndedCheck
  <1>3. CASE Services # "TimeoutError" /\ Services = "active"
    <2>1. w' = [w EXCEPT !.pc = "get", !.running = TRUE]
      BY <1>3 DEF Active
    <2>2. /\ w' \in Hooks /\ w'.pc = "get" /\ w'.event = w.event /\ w'.unable = w.unable
          /\ w'.refreshed = w.refreshed /\ w'.pending = w.pending /\ w'.app = w.app /\ w'.running
      BY <1>1, <2>1 DEF Hooks
    <2>3. HookInv(w')
      BY <1>1, <2>2 DEF HookInv, PendingInv, CheckInv, InstallInv, Installing, Collecting
    <2> QED  BY <1>1, <2>2, <2>3, HookOnly
  <1>4. CASE /\ Services # "TimeoutError" /\ Services # "active"
             /\ w.probes + 1 = ActiveAttempts
    <2>1. w' = Report(w, "SERVICE_NOT_RUNNING")
      BY <1>4 DEF Active
    <2>2. PICK g \in Hooks : /\ Ended(Report(w, "SERVICE_NOT_RUNNING"), g) /\ g.pending # <<>>
              /\ g.event = w.event /\ g.unable = w.unable /\ g.refreshed = w.refreshed
      BY <1>1, ReportedHook DEF Statuses
    <2> QED  BY <1>1, <2>1, <2>2, EndedCheck
  <1>5. CASE /\ Services # "TimeoutError" /\ Services # "active"
             /\ w.probes + 1 # ActiveAttempts
    <2>1. w' = [w EXCEPT !.probes = w.probes + 1]
      BY <1>5 DEF Active
    <2>2. w.probes + 1 \in 0..ActiveAttempts - 1
      BY <1>1, <1>5 DEF Hooks, ActiveAttempts
    <2>3. /\ w' \in Hooks /\ w'.pc = "active" /\ w'.event = w.event /\ w'.unable = w.unable
          /\ w'.refreshed = w.refreshed /\ w'.pending = w.pending /\ w'.app = w.app
      BY <1>1, <2>1, <2>2 DEF Hooks
    <2>4. HookInv(w')
      BY <1>1, <2>3 DEF HookInv, PendingInv, CheckInv, InstallInv, Installing, Collecting
    <2> QED  BY <1>1, <2>3, <2>4, HookOnly
  <1> QED  BY <1>2, <1>3, <1>4, <1>5

LEMMA GetStep == ASSUME HealthInv, Get PROVE HealthInv' /\ w' \in Hooks
  <1>1. /\ w \in Hooks /\ w.pc = "get" /\ HookInv(w) /\ UNCHANGED Others
        /\ w.pc \in Collecting /\ PendingInv(w) /\ ContextStatus = "ACTIVE" /\ w.running
    BY HookTypes DEF HealthInv, Get, At, Others, Collecting, HookInv, CheckInv
  <1>2. svc \in {"off", "starting", "serves", "fails"}
    BY DEF HealthInv, TypeOK
  <1> DEFINE h == [w EXCEPT !.answered = TRUE]
  <1>3. /\ h \in Hooks /\ h.pc = "get" /\ h.event = w.event /\ h.unable = w.unable
        /\ h.refreshed = w.refreshed /\ h.pending = w.pending /\ h.app = w.app /\ h.running
    BY <1>1 DEF Hooks
  <1>4. CASE svc = "serves"
    <2>1. w' = Checked(h)
      BY <1>4 DEF Get
    <2> HIDE DEF h
    <2>2. PendingInv(h) /\ h.pc \in Collecting
      BY <1>1, <1>3 DEF PendingInv
    <2>3. Ended(w', h)
      BY <1>3, <2>1, <2>2, CheckedHook
    <2> QED  BY <1>1, <1>3, <2>3, EndedCheck
  <1>5. CASE svc = "fails"
    <2>1. w' = Report(h, "SERVICE_UNHEALTHY")
      BY <1>5 DEF Get
    <2> HIDE DEF h
    <2>2. PendingInv(h) /\ h.pc \in Collecting
      BY <1>1, <1>3 DEF PendingInv
    <2>3. PICK g \in Hooks : /\ Ended(Report(h, "SERVICE_UNHEALTHY"), g) /\ g.pending # <<>>
              /\ g.event = h.event /\ g.unable = h.unable /\ g.refreshed = h.refreshed
      BY <1>3, <2>2, ReportedHook DEF Statuses
    <2> QED  BY <1>1, <1>3, <2>1, <2>3, EndedCheck
  <1>6. CASE svc \in {"off", "starting"}
    <2>1. w' = Raised(w)
      BY <1>6 DEF Get
    <2>2. Ended(w', w)
      BY <1>1, <2>1, RaisedHook
    <2> QED  BY <1>1, <2>2, EndedCheck
  <1> QED  BY <1>2, <1>4, <1>5, <1>6

LEMMA ToCollectHook ==
  ASSUME NEW h \in Hooks
  PROVE  /\ ToCollect(h) \in Hooks /\ ToCollect(h).pc = "check"
         /\ ToCollect(h).pending = h.pending /\ ToCollect(h).app = h.app
         /\ ToCollect(h).unable = h.unable /\ ToCollect(h).event = h.event
         /\ ToCollect(h).refreshed = h.refreshed
  <1>1. 0 \in 0..ActiveAttempts - 1 /\ 0 \in 0..HealthAttempts - 1
    BY DEF ActiveAttempts, HealthAttempts
  <1> QED  BY <1>1 DEF ToCollect, Hooks

LEMMA InstallFailed ==
  ASSUME NEW h \in Hooks, PendingInv(h), h.pc \notin Collecting
  PROVE  /\ InstallFails(h) \in Hooks /\ InstallFails(h).pc = "check"
         /\ PendingInv(InstallFails(h)) /\ InstallFails(h).unable
         /\ InstallFails(h).event = h.event /\ InstallFails(h).refreshed = h.refreshed
  <1> DEFINE g == Shown([h EXCEPT !.unable = TRUE], "SNAP_NOT_INSTALLED")
             p == <<"SNAP_NOT_INSTALLED">>
  <1>1. h.pending = <<>> /\ h.app = "ACTIVE"
    <2>1. h.pending = <<>>
      BY DEF PendingInv
    <2>2. 1..Len(h.pending) = {}
      BY <2>1
    <2> QED  BY <2>1, <2>2 DEF PendingInv
  <1>2. Append(h.pending, "SNAP_NOT_INSTALLED") = p /\ p \in Seq(Statuses \ {"ACTIVE"})
        /\ p # <<>> /\ p[1] = "SNAP_NOT_INSTALLED" /\ p \in Seq(Statuses)
    BY <1>1 DEF Statuses
  <1>3. g = [[h EXCEPT !.unable = TRUE] EXCEPT !.pending = Append(h.pending, "SNAP_NOT_INSTALLED")]
    BY DEF Shown, Hooks
  <1> HIDE DEF g, p
  <1>4. /\ g \in Hooks /\ g.pending = p /\ g.unable /\ g.app = "ACTIVE"
        /\ g.event = h.event /\ g.refreshed = h.refreshed
    BY <1>1, <1>2, <1>3 DEF Hooks
  <1>5. InstallFails(h) = ToCollect(g)
    BY DEF InstallFails, g
  <1>6. /\ InstallFails(h) \in Hooks /\ InstallFails(h).pc = "check"
        /\ InstallFails(h).pending = p /\ InstallFails(h).app = "ACTIVE"
        /\ InstallFails(h).unable = g.unable /\ InstallFails(h).event = g.event
        /\ InstallFails(h).refreshed = g.refreshed
    <2>1. /\ ToCollect(g) \in Hooks /\ ToCollect(g).pc = "check"
          /\ ToCollect(g).pending = g.pending /\ ToCollect(g).app = g.app
          /\ ToCollect(g).unable = g.unable /\ ToCollect(g).event = g.event
          /\ ToCollect(g).refreshed = g.refreshed
      BY <1>4, ToCollectHook
    <2> QED  BY <1>4, <1>5, <2>1
  <1>7. PendingInv(InstallFails(h))
    BY <1>2, <1>4, <1>6 DEF PendingInv, Collecting
  <1> QED  BY <1>4, <1>6, <1>7

LEMMA InitStep == ASSUME Init PROVE HealthInv
  <1>1. Idle
    BY DEF Init, Idle
  <1>2. snap \in [rev : Revisions \cup {"none"}, held : BOOLEAN] /\ ~snap.held
    BY DEF Init
  <1>3. changes \in 0..MaxChanges
    BY ChangesAssumption DEF Init
  <1>4. TypeOK
    BY <1>2, <1>3 DEF Init, TypeOK
  <1> QED  BY <1>1, <1>4 DEF HealthInv

LEMMA StartStep == ASSUME HealthInv, Start PROVE HealthInv'
  <1>1. PICK e \in {"install", "upgrade", "config", "status"} : StartHook(e)
    BY DEF Start
  <1>2. UNCHANGED Others
    BY <1>1 DEF StartHook, Others
  <1>3. 0 \in 0..ActiveAttempts - 1 /\ 0 \in 0..HealthAttempts - 1
    BY DEF ActiveAttempts, HealthAttempts
  <1>4. FirstTask(e) \in {"ensure", "config"}
        /\ (e \in {"install", "upgrade"} => FirstTask(e) = "ensure")
    BY DEF FirstTask
  <1>5. snap.rev \in Revisions \cup {"none"} /\ "ACTIVE" \in Statuses
    BY DEF HealthInv, TypeOK, Statuses
  <1>6. <<>> \in Seq(Statuses) /\ <<>> \in Seq(Statuses \ {"ACTIVE"}) /\ 1..Len(<<>>) = {}
    OBVIOUS
  <1>7. w' = [event |-> e, pc |-> FirstTask(e), who |-> "unit", cache |-> snap.rev,
              probes |-> 0, tries |-> 0, pending |-> <<>>, app |-> "ACTIVE", unable |-> FALSE,
              refreshed |-> FALSE, hung |-> FALSE, running |-> FALSE, answered |-> FALSE]
    BY <1>1 DEF StartHook
  <1>8. w' \in Hooks
    BY <1>3, <1>4, <1>5, <1>6, <1>7 DEF Hooks
  <1>9. PendingInv(w')
    BY <1>6, <1>7 DEF PendingInv
  <1>10. CheckInv(w') /\ InstallInv(w')
    BY <1>4, <1>7 DEF CheckInv, InstallInv, Installing
  <1> QED  BY <1>2, <1>8, <1>9, <1>10, HookOnly DEF HookInv

LEMMA FailureStep ==
  ASSUME HealthInv, NEW e \in {"install", "upgrade", "config", "status"}, HookFails(e)
  PROVE  HealthInv'
  <1>1. Idle'
    BY DEF HookFails, Idle
  <1>2. TypeOK'
    BY DEF HealthInv, TypeOK, HookFails, machine, relations
  <1> QED  BY <1>1, <1>2 DEF HealthInv

LEMMA EnsureStep == ASSUME HealthInv, Ensure PROVE HealthInv'
  <1>1. w \in Hooks /\ w.pc = "ensure" /\ HookInv(w) /\ PendingInv(w) /\ w.pc \notin Collecting
    BY HookTypes DEF HealthInv, Ensure, At, HookInv, Collecting
  <1>2. UNCHANGED <<wanted, snapd, store, dirty, relations, juju, changes>>
    BY DEF Ensure
  <1> DEFINE g == [w EXCEPT !.pc = "apps"]
  <1>3. /\ g \in Hooks /\ g.pc = "apps" /\ g.pending = w.pending /\ g.app = w.app
        /\ g.unable = w.unable /\ g.event = w.event /\ g.refreshed = w.refreshed
    BY <1>1 DEF Hooks
  <1>4. PendingInv(g)
    BY <1>1, <1>3 DEF PendingInv, Collecting
  <1>5. CASE w.cache = wanted /\ w' = g /\ UNCHANGED <<snap, svc>>
    <2>1. UNCHANGED Others
      BY <1>2, <1>5 DEF Others, machine
    <2>2. CheckInv(g) /\ InstallInv(g)
      BY <1>1, <1>3, <1>5 DEF HookInv, CheckInv, InstallInv, Installing
    <2> QED  BY <1>3, <1>4, <1>5, <2>1, <2>2, HookOnly DEF HookInv
  <1>6. CASE /\ snap' = [snap EXCEPT !.rev = wanted] /\ svc' \in {"off", "starting"} /\ w' = g
    <2>1. snap'.rev = wanted /\ wanted \in Revisions /\ wanted # "none"
          /\ snap' \in [rev : Revisions \cup {"none"}, held : BOOLEAN]
      BY <1>6, RevisionsAssumption DEF HealthInv, TypeOK
    <2>2. TypeOK'
      BY <1>2, <1>3, <1>6, <2>1 DEF HealthInv, TypeOK, relations, juju
    <2>3. (PendingInv(w) /\ CheckInv(w) /\ InstallInv(w))'
      BY <1>2, <1>3, <1>4, <1>6, <2>1 DEF PendingInv, CheckInv, InstallInv, Installing
    <2> QED  BY <2>2, <2>3 DEF HealthInv, HookInv
  <1>7. CASE w' = InstallFails(w) /\ UNCHANGED <<snap, svc>>
    <2>1. UNCHANGED Others
      BY <1>2, <1>7 DEF Others, machine
    <2>2. /\ w' \in Hooks /\ w'.pc = "check" /\ PendingInv(w') /\ w'.unable
          /\ w'.event = w.event /\ w'.refreshed = w.refreshed
      BY <1>1, <1>7, InstallFailed
    <2>3. CheckInv(w') /\ InstallInv(w')
      BY <1>1, <2>2 DEF CheckInv, InstallInv, Installing, HookInv
    <2> QED  BY <2>1, <2>2, <2>3, HookOnly DEF HookInv
  <1> QED  BY <1>5, <1>6, <1>7 DEF Ensure

LEMMA UpdateSnapAppsStep == ASSUME HealthInv, UpdateSnapApps PROVE HealthInv'
  <1>1. w \in Hooks /\ w.pc = "apps" /\ HookInv(w) /\ PendingInv(w) /\ w.pc \notin Collecting
    BY HookTypes DEF HealthInv, UpdateSnapApps, At, HookInv, Collecting
  <1>2. CASE w' = [w EXCEPT !.pc = "hold"] /\ UNCHANGED <<wanted, machine, relations, juju, changes>>
    <2>1. /\ w' \in Hooks /\ w'.pc = "hold" /\ w'.pending = w.pending /\ w'.app = w.app
          /\ w'.unable = w.unable /\ w'.event = w.event /\ w'.refreshed = w.refreshed
      BY <1>1, <1>2 DEF Hooks
    <2>2. PendingInv(w')
      BY <1>1, <2>1 DEF PendingInv, Collecting
    <2>3. CheckInv(w') /\ InstallInv(w')
      BY <1>1, <2>1 DEF HookInv, CheckInv, InstallInv, Installing
    <2> QED  BY <1>2, <2>1, <2>2, <2>3, HookOnly DEF HookInv, Others
  <1>3. CASE HookFails(w.event)
    <2>1. w.event \in {"install", "upgrade", "config", "status"}
      BY <1>1 DEF Hooks
    <2> QED  BY <1>3, <2>1, FailureStep
  <1> QED  BY <1>2, <1>3 DEF UpdateSnapApps

LEMMA HoldStep == ASSUME HealthInv, Hold PROVE HealthInv'
  <1>1. w \in Hooks /\ w.pc = "hold" /\ HookInv(w) /\ PendingInv(w) /\ w.pc \notin Collecting
    BY HookTypes DEF HealthInv, Hold, At, HookInv, Collecting
  <1>2. UNCHANGED <<wanted, snapd, store, svc, dirty, relations, juju, changes>>
    BY DEF Hold
  <1>3. snap.rev # "none"
    BY <1>1, RevisionsAssumption DEF HealthInv, TypeOK, HookInv, InstallInv, Installing
  <1>4. ASSUME snap' = [snap EXCEPT !.held = TRUE], w' \in Hooks, w'.pc \in {"config", "check"},
               w'.pending = w.pending, w'.app = w.app, w'.unable = w.unable,
               w'.event = w.event, w'.refreshed = w.refreshed
        PROVE  HealthInv'
    <2>1. snap'.rev = snap.rev /\ snap'.held
          /\ snap' \in [rev : Revisions \cup {"none"}, held : BOOLEAN]
      BY <1>4 DEF HealthInv, TypeOK
    <2>2. TypeOK'
      BY <1>2, <1>3, <1>4, <2>1 DEF HealthInv, TypeOK, relations, juju
    <2>3. PendingInv(w)'
      BY <1>1, <1>4 DEF PendingInv, Collecting
    <2>4. CheckInv(w)'
      BY <1>4 DEF CheckInv
    <2>5. InstallInv(w)'
      BY <1>1, <1>2, <1>4, <2>1 DEF InstallInv, Installing, HookInv
    <2> QED  BY <2>2, <2>3, <2>4, <2>5 DEF HealthInv, HookInv
  <1>5. CASE snap' = [snap EXCEPT !.held = TRUE] /\ w.event = "upgrade"
             /\ w' = [w EXCEPT !.pc = "config"]
    BY <1>1, <1>4, <1>5 DEF Hooks
  <1>6. CASE snap' = [snap EXCEPT !.held = TRUE] /\ w' = ToCollect(w)
    BY <1>1, <1>4, <1>6, ToCollectHook
  <1>7. CASE w' = InstallFails(w) /\ UNCHANGED snap
    <2>1. UNCHANGED Others
      BY <1>2, <1>7 DEF Others, machine
    <2>2. /\ w' \in Hooks /\ w'.pc = "check" /\ PendingInv(w') /\ w'.unable
          /\ w'.event = w.event /\ w'.refreshed = w.refreshed
      BY <1>1, <1>7, InstallFailed
    <2>3. CheckInv(w') /\ InstallInv(w')
      BY <1>1, <2>2 DEF CheckInv, InstallInv, Installing, HookInv
    <2> QED  BY <2>1, <2>2, <2>3, HookOnly DEF HookInv
  <1> QED  BY <1>5, <1>6, <1>7 DEF Hold

LEMMA ConfigStep == ASSUME HealthInv, ConfigChanged PROVE HealthInv'
  <1>1. w \in Hooks /\ w.pc = "config" /\ HookInv(w) /\ PendingInv(w) /\ w.pc \notin Collecting
    BY HookTypes DEF HealthInv, ConfigChanged, At, HookInv, Collecting
  <1>2. CASE HookFails(w.event)
    BY <1>1, <1>2, FailureStep DEF Hooks
  <1>3. CASE /\ w' = ToCollect(w) /\ dirty' = (dirty /\ snap.rev = "none")
             /\ \/ dirty /\ snap.rev # "none" /\ snapd = "up" /\ svc' = "starting"
                \/ (dirty /\ snap.rev # "none" => snapd # "up") /\ UNCHANGED svc
             /\ UNCHANGED <<wanted, snap, snapd, store, relations, juju, changes>>
    <2>1. /\ w' \in Hooks /\ w'.pc = "check" /\ w'.pending = w.pending /\ w'.app = w.app
          /\ w'.unable = w.unable /\ w'.event = w.event /\ w'.refreshed = w.refreshed
      BY <1>1, <1>3, ToCollectHook
    <2>2. TypeOK'
      BY <1>3, <2>1 DEF HealthInv, TypeOK, relations, juju
    <2>3. PendingInv(w)'
      BY <1>1, <2>1 DEF PendingInv, Collecting
    <2>4. CheckInv(w)' /\ InstallInv(w)'
      BY <1>1, <1>3, <2>1 DEF CheckInv, InstallInv, Installing, HookInv
    <2> QED  BY <2>2, <2>3, <2>4 DEF HealthInv, HookInv
  <1> QED  BY <1>2, <1>3 DEF ConfigChanged

LEMMA CollectStep == ASSUME HealthInv, Collect PROVE HealthInv'
  <1>1. w \in Hooks /\ PendingInv(w)
    BY HookTypes DEF HealthInv, Collect, At, HookInv
  <1>2. Gravest(w.pending) \in Statuses /\ w.app \in Statuses
    BY <1>1, GravestFacts DEF PendingInv, Hooks
  <1>3. Idle'
    BY DEF Collect, Idle
  <1>4. unitStatus' \in Statuses /\ appStatus' \in Statuses \cup {"unknown"}
    BY <1>2 DEF HealthInv, TypeOK, Collect
  <1>5. TypeOK'
    BY <1>4 DEF HealthInv, TypeOK, Collect, machine, relations
  <1> QED  BY <1>3, <1>5 DEF HealthInv

\* The snap daemon, the store and the service.
LEMMA OutsideStep ==
  ASSUME HealthInv, SnapdChanges \/ StoreChanges \/ ServiceChanges \/ ServiceStarts
  PROVE  HealthInv'
  <1>1. UNCHANGED <<wanted, snap, relations, juju, w>>
    BY DEF SnapdChanges, StoreChanges, ServiceChanges, ServiceStarts
  <1>2. changes' \in 0..MaxChanges
    BY ChangesAssumption DEF HealthInv, TypeOK, SnapdChanges, StoreChanges, ServiceChanges,
       ServiceStarts, Change
  <1>3. TypeOK'
    <2>1. snapd' \in {"up", "refuses", "hangs"} /\ store' \in {"up", "down"} /\ dirty' \in BOOLEAN
      BY DEF HealthInv, TypeOK, SnapdChanges, StoreChanges, ServiceChanges, ServiceStarts
    <2>2. svc' \in {"off", "starting", "serves", "fails"} /\ (snap.rev = "none" => svc' = "off")
      BY DEF HealthInv, TypeOK, SnapdChanges, StoreChanges, ServiceChanges, ServiceStarts
    <2> QED
      BY <1>1, <1>2, <2>1, <2>2 DEF HealthInv, TypeOK, relations, juju
  <1>4. Idle' <=> Idle
    BY <1>1 DEF Idle
  <1>5. HookInv(w) => HookInv(w)'
    BY <1>1 DEF HookInv, PendingInv, CheckInv, InstallInv, Installing, ContextStatus, KafkaStatus, relations
  <1> QED  BY <1>3, <1>4, <1>5 DEF HealthInv

LEMMA RefreshStep == ASSUME HealthInv, AutoRefresh PROVE HealthInv'
  <1>1. /\ UNCHANGED <<wanted, snapd, store, dirty, relations, juju>>
        /\ snap.rev # "none" /\ ~snap.held
        /\ snap' \in [rev : Revisions \ {snap.rev}, held : {FALSE}]
        /\ svc' \in {"off", "starting"}
    BY DEF AutoRefresh
  <1>2. changes' \in 0..MaxChanges
    BY ChangesAssumption DEF HealthInv, TypeOK, AutoRefresh, Change
  <1>3. snap' \in [rev : Revisions \cup {"none"}, held : BOOLEAN] /\ ~snap'.held
        /\ snap'.rev # "none"
    BY <1>1, RevisionsAssumption
  <1>4. CASE Idle
    <2>1. w' = w
      BY <1>4 DEF AutoRefresh
    <2>2. TypeOK'
      BY <1>1, <1>2, <1>3, <2>1 DEF HealthInv, TypeOK, relations, juju
    <2> QED  BY <1>4, <2>1, <2>2 DEF HealthInv, Idle
  <1>5. CASE ~Idle
    <2>1. w \in Hooks /\ HookInv(w)
      BY <1>5, HookTypes DEF HealthInv
    <2>2. w' = [w EXCEPT !.refreshed = TRUE]
      BY <1>5 DEF AutoRefresh
    <2>3. /\ w' \in Hooks /\ w'.pc = w.pc /\ w'.pending = w.pending /\ w'.app = w.app
          /\ w'.unable = w.unable /\ w'.event = w.event /\ w'.refreshed /\ w'.hung = w.hung
          /\ w'.running = w.running
      BY <2>1, <2>2 DEF Hooks
    <2>4. TypeOK'
      BY <1>1, <1>2, <1>3, <2>3 DEF HealthInv, TypeOK, relations, juju
    <2>5. PendingInv(w)'
      BY <2>1, <2>3 DEF HookInv, PendingInv
    <2>6. CheckInv(w)'
      BY <1>1, <2>1, <2>3 DEF HookInv, CheckInv, ContextStatus, KafkaStatus, relations
    <2>7. InstallInv(w)'
      BY <1>1, <1>3, <2>1, <2>3 DEF HookInv, InstallInv, Installing
    <2> QED  BY <2>4, <2>5, <2>6, <2>7 DEF HealthInv, HookInv
  <1> QED  BY <1>4, <1>5

LEMMA BetweenHooksStep == ASSUME HealthInv, RelationChanges \/ UpgradeCharm PROVE HealthInv'
  <1>1. Idle /\ w' = w /\ UNCHANGED <<snap, snapd, store, svc, failed, unitStatus, appStatus>>
    BY DEF RelationChanges, UpgradeCharm, machine
  <1>2. changes' \in 0..MaxChanges
    BY ChangesAssumption DEF HealthInv, TypeOK, RelationChanges, UpgradeCharm, Change
  <1>3. wanted' \in Revisions /\ dirty' \in BOOLEAN /\ events' \subseteq {"install", "upgrade", "config"}
    BY DEF HealthInv, TypeOK, RelationChanges, UpgradeCharm, machine
  <1>4. kafka' \in {"none", "waiting", "ready"}
    BY DEF HealthInv, TypeOK, RelationChanges, UpgradeCharm, relations
  <1>5. peers' \in BOOLEAN /\ route' \in BOOLEAN /\ leader' \in BOOLEAN
    BY Zenon DEF HealthInv, TypeOK, RelationChanges, UpgradeCharm, relations
  <1>6. TypeOK'
    BY <1>1, <1>2, <1>3, <1>4, <1>5 DEF HealthInv, TypeOK
  <1> QED  BY <1>1, <1>6 DEF HealthInv, Idle

LEMMA NextStep == ASSUME HealthInv, [Next]_vars PROVE HealthInv'
  <1>1. CASE Start
    BY <1>1, StartStep
  <1>2. CASE CharmRaises
    BY <1>2, FailureStep DEF CharmRaises
  <1>3. CASE Ensure
    BY <1>3, EnsureStep
  <1>4. CASE UpdateSnapApps \/ Hold
    BY <1>4, UpdateSnapAppsStep, HoldStep
  <1>5. CASE ConfigChanged
    BY <1>5, ConfigStep
  <1>6. CASE Check
    BY <1>6, CheckStep
  <1>7. CASE Active
    BY <1>7, ActiveStep
  <1>8. CASE Get
    BY <1>8, GetStep
  <1>9. CASE Collect
    BY <1>9, CollectStep
  <1>10. CASE SnapdChanges \/ StoreChanges \/ ServiceChanges \/ ServiceStarts
    BY <1>10, OutsideStep
  <1>11. CASE AutoRefresh
    BY <1>11, RefreshStep
  <1>12. CASE RelationChanges \/ UpgradeCharm
    BY <1>12, BetweenHooksStep
  <1>13. CASE UNCHANGED vars
    <2>1. TypeOK' /\ (Idle' <=> Idle)
      BY <1>13 DEF HealthInv, TypeOK, vars, machine, relations, juju, Idle
    <2>2. HookInv(w) => HookInv(w)'
      BY ZenonT(30), <1>13 DEF HookInv, PendingInv, CheckInv, InstallInv, Installing, ContextStatus, KafkaStatus, vars,
         machine, relations
    <2> QED  BY <2>1, <2>2 DEF HealthInv
  <1> QED  BY <1>1, <1>2, <1>3, <1>4, <1>5, <1>6, <1>7, <1>8, <1>9, <1>10, <1>11, <1>12, <1>13
           DEF Next, HookStep

LEMMA HealthInvariant == Spec => []HealthInv
  <1>1. Init => HealthInv
    BY InitStep
  <1>2. HealthInv /\ [Next]_vars => HealthInv'
    BY NextStep
  <1> QED  BY <1>1, <1>2, PTL DEF Spec

-----------------------------------------------------------------------------
(* What a hook shows at its end *)

\* Only the collection of the statuses ends a hook that did not fail.
LEMMA EndIsCollect ==
  ASSUME HealthInv, [Next]_vars, HookEnds
  PROVE  Collect /\ w \in Hooks /\ w.pc = "collect" /\ HookInv(w)
  <1>1. w \in Hooks /\ HookInv(w) /\ PendingInv(w) /\ w' # w /\ w' \notin Hooks
    BY HookTypes DEF HealthInv, HookEnds, Idle, HookInv, NoHook, Hooks
  <1>2. \A e \in {"install", "upgrade", "config", "status"} : ~HookFails(e)
    BY DEF HookEnds, HookFails
  <1>3. ~Check /\ ~Active /\ ~Get
    BY <1>1, CheckStep, ActiveStep, GetStep
  <1>4. ~Ensure
    <2> SUFFICES ASSUME Ensure PROVE FALSE
      OBVIOUS
    <2>1. w.pc \notin Collecting
      BY DEF Ensure, At, Collecting
    <2>2. InstallFails(w) \in Hooks /\ [w EXCEPT !.pc = "apps"] \in Hooks
      BY <1>1, <2>1, InstallFailed DEF Hooks
    <2> QED  BY <1>1, <2>2 DEF Ensure
  <1>5. ~UpdateSnapApps
    <2>1. [w EXCEPT !.pc = "hold"] \in Hooks /\ w.event \in {"install", "upgrade", "config", "status"}
      BY <1>1 DEF Hooks
    <2> QED  BY <1>1, <1>2, <2>1 DEF UpdateSnapApps
  <1>11. ~Hold
    <2> SUFFICES ASSUME Hold PROVE FALSE
      OBVIOUS
    <2>1. w.pc \notin Collecting
      BY DEF Hold, At, Collecting
    <2>2. InstallFails(w) \in Hooks /\ ToCollect(w) \in Hooks /\ [w EXCEPT !.pc = "config"] \in Hooks
      BY ZenonT(30), <1>1, <2>1, InstallFailed, ToCollectHook DEF Hooks
    <2> QED  BY <1>1, <2>2 DEF Hold
  <1>6. ~ConfigChanged
    <2>1. ToCollect(w) \in Hooks /\ w.event \in {"install", "upgrade", "config", "status"}
      BY <1>1, ToCollectHook DEF Hooks
    <2> QED  BY <1>1, <1>2, <2>1 DEF ConfigChanged
  <1>7. ~Start /\ ~CharmRaises /\ ~RelationChanges /\ ~UpgradeCharm
    BY <1>2 DEF Start, StartHook, CharmRaises, RelationChanges, UpgradeCharm, HookEnds
  <1>8. ~SnapdChanges /\ ~StoreChanges /\ ~ServiceChanges /\ ~ServiceStarts
    BY <1>1 DEF SnapdChanges, StoreChanges, ServiceChanges, ServiceStarts
  <1>9. ~AutoRefresh
    <2>1. [w EXCEPT !.refreshed = TRUE] \in Hooks
      BY <1>1 DEF Hooks
    <2> QED  BY <1>1, <2>1 DEF AutoRefresh, HookEnds
  <1>10. Collect
    BY <1>1, <1>3, <1>4, <1>5, <1>6, <1>7, <1>8, <1>9, <1>11 DEF Next, HookStep, vars
  <1> QED  BY <1>1, <1>10 DEF Collect, At

\* What a finished hook shows.
LEMMA ShownAtEnd ==
  ASSUME HealthInv, [Next]_vars, HookEnds
  PROVE  /\ w \in Hooks /\ HookInv(w) /\ w.pc = "collect"
         /\ unitStatus' = Gravest(w.pending)
         /\ leader => appStatus' = w.app
  BY EndIsCollect DEF Collect

\* A unit that is shown active has been seen running, with everything it needs; and
\* the leader's unit shows nothing milder than the application, as what was found for
\* it is kept in pending_inactive_statuses for the unit (_on_collect_status,
\* charm.py:169).
THEOREM ActiveEarned == Spec => ActiveIsEarned
  <1>1. ASSUME HealthInv, [Next]_vars, HookEnds, unitStatus' = "ACTIVE", ~w.hung
        PROVE  w.running /\ ContextStatus = "ACTIVE" /\ ~w.unable
    <2>1. w.pending = <<>>
      BY <1>1, ShownAtEnd, GravestFacts DEF HookInv, PendingInv
    <2> QED  BY <1>1, <2>1, ShownAtEnd DEF HookInv, PendingInv, CheckInv
  <1>2. ASSUME HealthInv, [Next]_vars, HookEnds, leader
        PROVE  Severity(unitStatus') >= Severity(appStatus')
    <2>1. w \in Hooks /\ PendingInv(w) /\ unitStatus' = Gravest(w.pending) /\ appStatus' = w.app
      BY <1>2, ShownAtEnd DEF HookInv
    <2>2. /\ Gravest(w.pending) \in Statuses
          /\ \A i \in 1..Len(w.pending) : Severity(w.pending[i]) <= Severity(Gravest(w.pending))
      BY <2>1, GravestFacts DEF PendingInv
    <2>3. CASE w.app = "ACTIVE"
      BY <2>1, <2>2, <2>3, SeverityRange
    <2>4. CASE \E i \in 1..Len(w.pending) : w.pending[i] = w.app
      <3>1. Severity(w.app) <= Severity(Gravest(w.pending))
        BY <2>2, <2>4
      <3>2. w.app \in Statuses
        BY <2>1 DEF Hooks
      <3> QED  BY <2>1, <2>2, <3>1, <3>2, SeverityRange
    <2> QED  BY <2>1, <2>3, <2>4 DEF PendingInv
  <1>3. HealthInv /\ [Next]_vars
          => [HookEnds =>
                /\ (unitStatus' = "ACTIVE" /\ ~w.hung) =>
                       (w.running /\ ContextStatus = "ACTIVE" /\ ~w.unable)
                /\ leader => Severity(unitStatus') >= Severity(appStatus')]_vars
    BY <1>1, <1>2
  <1> QED  BY <1>3, HealthInvariant, PTL DEF Spec, ActiveIsEarned

\* Every variable keeps its type, the hook's record with its list of pending statuses
\* included (charm.py:162), which add_status and the collect handlers go over.
THEOREM TypeCorrect == Spec => []TypeOK
  <1>1. HealthInv => TypeOK
    BY DEF HealthInv
  <1> QED  BY <1>1, HealthInvariant, PTL

\* A failed install is told, whatever else is found, and only such a one; an install
\* that did not fail has left the wanted revision, held (install, workload.py:105).
THEOREM InstallTold == Spec => InstallIsTold
  <1>1. ASSUME HealthInv, [Next]_vars, HookEnds
        PROVE  /\ w.unable <=> unitStatus' = "SNAP_NOT_INSTALLED"
               /\ (w.event \in {"install", "upgrade"} /\ ~w.unable) =>
                      snap.held /\ (snap.rev = wanted \/ w.refreshed)
    <2>1. w \in Hooks /\ PendingInv(w) /\ InstallInv(w) /\ w.pc = "collect"
          /\ unitStatus' = Gravest(w.pending) /\ w.unable \in BOOLEAN
      BY <1>1, ShownAtEnd DEF HookInv, Hooks
    <2>2. CASE w.unable
      BY <2>1, <2>2, GravestFacts DEF PendingInv, InstallInv, Installing
    <2>3. CASE ~w.unable
      <3>1. /\ \A i \in 1..Len(w.pending) : w.pending[i] # "SNAP_NOT_INSTALLED"
            /\ \/ Gravest(w.pending) = "ACTIVE"
               \/ \E i \in 1..Len(w.pending) : w.pending[i] = Gravest(w.pending)
        BY <2>1, <2>3, GravestFacts DEF PendingInv
      <3>2. unitStatus' # "SNAP_NOT_INSTALLED"
        BY <2>1, <3>1
      <3> QED  BY <2>1, <2>3, <3>2 DEF InstallInv, Installing
    <2> QED  BY <2>1, <2>2, <2>3
  <1>2. HealthInv /\ [Next]_vars
          => [HookEnds =>
                /\ w.unable <=> unitStatus' = "SNAP_NOT_INSTALLED"
                /\ (w.event \in {"install", "upgrade"} /\ ~w.unable) =>
                       snap.held /\ (snap.rev = wanted \/ w.refreshed)]_vars
    BY <1>1
  <1> QED  BY <1>2, HealthInvariant, PTL DEF Spec, InstallIsTold
=============================================================================
