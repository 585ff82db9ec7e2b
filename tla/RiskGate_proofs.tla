---------------------------- MODULE RiskGate_proofs ----------------------------
(***************************************************************************)
(* The invariants of RiskGate, for any orders, limits and bounds and any   *)
(* interleaving of the tasks.                                              *)
(*                                                                         *)
(* KillSwitchHolds: the flag the tasks share plays no part, a task sets it *)
(* from its own probe in the step that reads it (GateInv).                 *)
(* PositionWithinLimitSpaced: with spaced orders at most one order is      *)
(* neither decided nor reported, and while no report waits the gate's      *)
(* position is off the true one at most by what it was not told at the     *)
(* start (SpacedInv).                                                      *)
(* SpikesAnnouncedOnce: the alert on its way is a window later than the    *)
(* last one noted, and the last rejection of a full window is near an      *)
(* alert published or on its way (SpikeInv).                               *)
(***************************************************************************)
EXTENDS RiskGate, WellFoundedInduction, TLAPS

Jobs == [phase   : {"idle", "probe", "check", "approve", "reject", "alert"},
         order   : Orders \cup {NoOrder},
         probe   : BOOLEAN,
         blocked : BOOLEAN,
         at      : Nat]

JobsTyped == kill \in BOOLEAN /\ clock \in Nat /\ task \in [Tasks -> Jobs]

(* The order of a job that counts as blocked meets a switch that is still  *)
(* set, then a probe that has seen it.                                     *)
Covered(job) ==
  job.blocked => /\ job.phase = "probe" => kill
                 /\ job.phase = "check" => job.probe
                 /\ job.phase # "approve"

GateInv == JobsTyped /\ \A t \in Tasks : Covered(task[t])

LEMMA IdleCovered == Idle \in Jobs /\ Covered(Idle) /\ ~Idle.blocked
BY DEF Idle, Jobs, Covered

LEMMA InitGate == Init => GateInv
<1> SUFFICES ASSUME Init PROVE GateInv
  OBVIOUS
<1>1. task = [t \in Tasks |-> Idle] /\ kill \in BOOLEAN /\ clock = 0
  BY DEF Init
<1>2. \A t \in Tasks : task[t] \in Jobs /\ Covered(task[t])
  BY <1>1, IdleCovered
<1> QED
  BY <1>1, <1>2 DEF GateInv, JobsTyped

(* A step that gives one task another job and leaves the switch alone.     *)
LEMMA OneJob ==
  ASSUME GateInv, NEW t \in Tasks, NEW job \in Jobs,
         task' = [task EXCEPT ![t] = job], kill' = kill, clock' = clock,
         job.blocked => /\ job.phase = "probe" => kill
                        /\ job.phase = "check" => job.probe
                        /\ job.phase # "approve"
  PROVE  GateInv'
<1>1. JobsTyped'
  BY DEF GateInv, JobsTyped
<1>2. ASSUME NEW s \in Tasks PROVE Covered(task[s])'
  <2>1. CASE s = t
    BY <2>1 DEF GateInv, JobsTyped, Covered
  <2>2. CASE s # t
    <3>1. task'[s] = task[s]
      BY <2>2 DEF GateInv, JobsTyped
    <3> QED
      BY <3>1 DEF GateInv, Covered
  <2> QED
    BY <2>1, <2>2
<1> QED
  BY <1>1, <1>2 DEF GateInv

(* A task lays its job down.                                               *)
LEMMA LaidDown ==
  ASSUME GateInv, NEW t \in Tasks, task' = [task EXCEPT ![t] = Idle],
         kill' = kill, clock' = clock
  PROVE  GateInv'
BY OneJob, IdleCovered

LEMMA TasksAre == OrderTasks \subseteq Tasks /\ RejectTasks \subseteq Tasks
BY DEF Tasks

(* The handling of an order: what the probe saw is what the check sees.    *)
LEMMA OrderStep ==
  ASSUME GateInv, NEW t \in OrderTasks, HandleOrder(t)
  PROVE  GateInv'
<1>0. t \in Tasks /\ task[t] \in Jobs /\ kill \in BOOLEAN
  BY TasksAre DEF GateInv, JobsTyped
<1>1. ASSUME NEW o \in Orders, BeginOrder(t, o) PROVE GateInv'
  <2> DEFINE job == [Idle EXCEPT !.phase = "probe", !.order = o, !.blocked = kill]
  <2>1. job \in Jobs /\ job.phase = "probe" /\ job.blocked = kill
    BY <1>0 DEF Idle, Jobs
  <2>2. task' = [task EXCEPT ![t] = job] /\ kill' = kill /\ clock' = clock
    BY <1>1 DEF BeginOrder, market, spike
  <2> HIDE DEF job
  <2> QED
    BY <1>0, <2>1, <2>2, OneJob
<1>2. ASSUME ProbeKillSwitch(t) PROVE GateInv'
  <2> DEFINE job == [task[t] EXCEPT !.phase = "check", !.probe = kill]
  <2>1. job \in Jobs /\ job.phase = "check" /\ job.probe = kill /\ job.blocked = task[t].blocked
    BY <1>0 DEF Jobs
  <2>2. task' = [task EXCEPT ![t] = job] /\ kill' = kill /\ clock' = clock
    BY <1>0, <1>2 DEF ProbeKillSwitch, market, spike
  <2>3. job.blocked => kill
    BY <1>0, <1>2, <2>1 DEF GateInv, Covered, ProbeKillSwitch
  <2> HIDE DEF job
  <2> QED
    BY <1>0, <2>1, <2>2, <2>3, OneJob
<1>3. ASSUME Check(t) PROVE GateInv'
  <2> DEFINE ok  == PassesLimits(task[t].order) /\ ~task[t].probe
             job == [task[t] EXCEPT !.phase = IF ok THEN "approve" ELSE "reject"]
  <2> HIDE DEF ok
  <2>1. /\ job \in Jobs /\ job.phase = (IF ok THEN "approve" ELSE "reject")
        /\ job.blocked = task[t].blocked
    BY <1>0 DEF Jobs
  <2> USE DEF ok
  <2>2. task' = [task EXCEPT ![t] = job] /\ kill' = kill /\ clock' = clock
    BY <1>0, <1>3 DEF Check, market, spike
  <2>3. ok /\ job.blocked => FALSE
    BY <1>0, <1>3, <2>1 DEF GateInv, Covered, Check
  <2>4. /\ job.phase \in {"approve", "reject"}
        /\ job.phase = "approve" => ~job.blocked
    BY <2>1, <2>3
  <2> HIDE DEF job, ok
  <2> QED
    BY <1>0, <2>1, <2>2, <2>4, OneJob
<1>4. ASSUME CheckRaises(t) \/ Approve(t) \/ Reject(t) PROVE GateInv'
  BY <1>0, <1>4, LaidDown DEF CheckRaises, Approve, Reject, market, spike
<1> QED
  BY <1>1, <1>2, <1>3, <1>4 DEF HandleOrder

LEMMA RejectionStep ==
  ASSUME GateInv, NEW t \in RejectTasks, TrackRejections(t)
  PROVE  GateInv'
<1>0. t \in Tasks /\ clock \in Nat
  BY TasksAre DEF GateInv, JobsTyped
<1>1. ASSUME TrackRejection(t) PROVE GateInv'
  <2> DEFINE alert == [Idle EXCEPT !.phase = "alert", !.at = clock]
             job   == IF Due(window') THEN alert ELSE Idle
  <2>1. alert \in Jobs /\ ~alert.blocked
    BY <1>0 DEF Idle, Jobs
  <2>2. task' = [task EXCEPT ![t] = job] /\ kill' = kill /\ clock' = clock
    BY <1>1 DEF TrackRejection, market
  <2> HIDE DEF alert
  <2>3. job \in Jobs /\ ~job.blocked
    BY <2>1, IdleCovered
  <2> HIDE DEF job
  <2> QED
    BY <1>0, <2>2, <2>3, OneJob
<1>2. ASSUME Alert(t) PROVE GateInv'
  BY <1>0, <1>2, LaidDown DEF Alert, market
<1> QED
  BY <1>1, <1>2 DEF TrackRejections

(* The switch flips: set, it has no job to mind; cleared, it excuses all.  *)
LEMMA ToggleStep ==
  ASSUME GateInv, ToggleKillSwitch
  PROVE  GateInv'
<1>1. /\ kill' = ~kill /\ kill \in BOOLEAN /\ clock' = clock /\ clock \in Nat
      /\ task' = [t \in Tasks |-> [task[t] EXCEPT !.blocked = task[t].blocked /\ ~kill]]
  BY DEF ToggleKillSwitch, GateInv, JobsTyped, spike
<1>2. ASSUME NEW t \in Tasks PROVE task'[t] \in Jobs /\ Covered(task[t])'
  <2> DEFINE b == task[t].blocked /\ ~kill
  <2>1. task[t] \in Jobs /\ task'[t] = [task[t] EXCEPT !.blocked = b] /\ b \in BOOLEAN
    BY <1>1 DEF GateInv, JobsTyped
  <2>3. Covered(task[t])
    BY DEF GateInv
  <2> HIDE DEF b
  <2>2. /\ task'[t] \in Jobs /\ task'[t].blocked = b
        /\ task'[t].phase = task[t].phase /\ task'[t].probe = task[t].probe
    BY <2>1 DEF Jobs
  <2> USE DEF b
  <2> QED
    BY <1>1, <2>2, <2>3 DEF Covered
<1> QED
  BY <1>1, <1>2 DEF GateInv, JobsTyped

LEMMA Unmoved ==
  ASSUME GateInv, task' = task, kill' = kill, clock' \in Nat
  PROVE  GateInv'
BY DEF GateInv, JobsTyped, Covered

LEMMA GateStep == GateInv /\ [Next]_vars => GateInv'
<1> SUFFICES ASSUME GateInv, [Next]_vars PROVE GateInv'
  OBVIOUS
<1>0. clock \in Nat
  BY DEF GateInv, JobsTyped
<1>1. ASSUME NEW t \in Tasks, RedisCallRaises(t) PROVE GateInv'
  BY <1>1, LaidDown DEF RedisCallRaises, market, spike
<1>6. ASSUME NEW t \in RejectTasks, AlertReplyLost(t) PROVE GateInv'
  BY <1>6, LaidDown, TasksAre DEF AlertReplyLost, market
<1>7. ASSUME SkipDuplicate PROVE GateInv'
  BY <1>0, <1>7, Unmoved DEF SkipDuplicate, market, spike
<1>2. ASSUME NEW o \in Orders, SendOrder(o) \/ VenueFills(o) PROVE GateInv'
  BY <1>0, <1>2, Unmoved DEF SendOrder, VenueFills, market, spike
<1>3. ASSUME NEW v, Told(v) PROVE GateInv'
  BY <1>0, <1>3, Unmoved DEF Told, spike
<1>4. ASSUME HandlePositionUpdate \/ Tick \/ UNCHANGED vars PROVE GateInv'
  <2>1. clock' \in Nat
    BY <1>0, <1>4 DEF HandlePositionUpdate, Tick, vars, spike
  <2> QED
    BY <1>4, <2>1, Unmoved DEF HandlePositionUpdate, Tick, vars, market
<1>5. ASSUME \/ \E p \in Prices : HandleMarketPrice(p)
             \/ \E v \in Vols : HandleMarketVol(v)
             \/ \E m \in Margins : HandleMarginUpdate(m)
      PROVE GateInv'
  BY <1>3, <1>5 DEF HandleMarketPrice, HandleMarketVol, HandleMarginUpdate
<1> QED
  BY <1>1, <1>2, <1>4, <1>5, <1>6, <1>7, OrderStep, RejectionStep, ToggleStep DEF Next

(* The inductive invariant of the gate: shapes of the jobs, and each that  *)
(* counts as blocked is covered, by the switch or by its probe.            *)
THEOREM GateInvariant == Spec => []GateInv
<1> QED
  BY InitGate, GateStep, PTL DEF Spec

(* No order whose handling began with the kill switch set, and left set,   *)
(* is approved, whatever the tasks of the gate do in between.              *)
THEOREM KillSwitchHoldsAlways == Spec => []KillSwitchHolds
<1>1. GateInv => KillSwitchHolds
  BY TasksAre DEF GateInv, Covered, KillSwitchHolds
<1> QED
  BY <1>1, GateInvariant, PTL

-----------------------------------------------------------------------------
(* Orders that wait for each other: there is at most one between SendOrder *)
(* and the report of its position.  It is in the stream, or in the hands   *)
(* of the task "orders", or approved and awaited from the venue, or        *)
(* reported.                                                               *)
Bound == MaxPosition + Untold

Job == task["orders"]
Undecided(o) == stream = <<o>> \/ Job.order = o
Awaited(o) == verdict[o] = "approved" /\ o \notin filled
Leads(o) == Abs(actual + Qty[o]) <= Bound

OneTasked ==
  /\ Job.phase \in {"idle", "probe", "check", "approve", "reject"}
  /\ IF Job.phase = "idle" THEN Job.order = NoOrder ELSE Job.order \in Orders
  /\ \A t \in Tasks \ {"orders"} : task[t].phase \in {"idle", "alert"}

SpacedTypes ==
  /\ stream = <<>> \/ \E o \in Orders : stream = <<o>>
  /\ pending = <<>> /\ conduct.backlog = <<>>
  /\ verdict \in [Orders -> {"none", "approved", "rejected"}]
  /\ actual \in Int /\ reports \in Seq(Int) /\ Untold \in Nat
  /\ "position" \in DOMAIN view /\ view.position \in Int

OneAtATime ==
  /\ \A o \in Orders : Undecided(o) => verdict[o] = "none"
  /\ \A o \in filled : o \in Orders /\ verdict[o] = "approved"
  /\ stream # <<>> => Job.phase = "idle"
  /\ stream # <<>> \/ Job.phase # "idle" => reports = <<>> /\ \A o \in Orders : ~Awaited(o)
  /\ \A o, p \in Orders : Awaited(o) /\ Awaited(p) => o = p

TrueToReports ==
  /\ filled = {} \/ Abs(actual) <= Bound
  /\ reports = <<>> => Abs(actual - view.position) <= Untold
  /\ reports # <<>> => reports = <<actual>>
  /\ \A o \in Orders : Awaited(o) => reports = <<>> /\ Leads(o)
  /\ Job.phase = "approve" => Leads(Job.order)

SpacedInv == OneTasked /\ SpacedTypes /\ OneAtATime /\ TrueToReports

(* An order that keeps the limit from the position the gate knows keeps    *)
(* the bound from the true one.                                            *)
LEMMA OffByUntold ==
  ASSUME NEW a \in Int, NEW v \in Int, NEW q \in Int, NEW u \in Nat,
         Abs(a - v) <= u, Abs(v + q) <= MaxPosition
  PROVE  Abs(a + q) <= MaxPosition + u
BY GateAssumption DEF Abs

LEMMA InitSpaced == Init /\ conduct.backlog = <<>> => SpacedInv
<1> SUFFICES ASSUME Init, conduct.backlog = <<>> PROVE SpacedInv
  OBVIOUS
<1>1. /\ Job = Idle /\ Idle.phase = "idle" /\ Idle.order = NoOrder
      /\ \A t \in Tasks : task[t] = Idle
  BY DEF Init, Job, Idle, Tasks, OrderTasks
<1>2. OneTasked
  BY <1>1 DEF OneTasked
<1>6. conduct \in Conducts /\ conduct.held \in Int
  BY GateAssumption DEF Init
<1>7. Untold \in Nat /\ reports \in Seq(Int) /\ actual \in Int
  BY <1>6 DEF Init, Untold, Abs
<1>3. SpacedTypes
  BY <1>7 DEF Init, SpacedTypes
<1>4. OneAtATime
  BY <1>1, GateAssumption DEF Init, OneAtATime, Undecided, Awaited
<1>5. TrueToReports
  <2>1. reports = <<>> => Abs(actual - view.position) <= Untold
    BY <1>6 DEF Init, Untold, Abs
  <2>2. reports # <<>> => reports = <<actual>>
    BY DEF Init
  <2> QED
    BY <1>1, <2>1, <2>2 DEF Init, TrueToReports, Awaited
<1> QED
  BY <1>2, <1>3, <1>4, <1>5 DEF SpacedInv

(* A step that moves neither an order nor a position.                      *)
LEMMA SpacedFrame ==
  ASSUME SpacedInv,
         UNCHANGED <<stream, pending, conduct, verdict, actual, filled, reports>>,
         "position" \in DOMAIN view', view'.position = view.position,
         OneTasked', Job'.phase = Job.phase, Job'.order = Job.order
  PROVE  SpacedInv'
<1>1. SpacedTypes' /\ OneAtATime' /\ TrueToReports'
  BY DEF SpacedInv, SpacedTypes, OneAtATime, TrueToReports, Undecided, Awaited, Leads,
         Bound, Untold
<1> QED
  BY <1>1 DEF SpacedInv

(* The task "orders" goes on with its order.                               *)
LEMMA JobStep ==
  ASSUME SpacedInv, GateInv, NEW job, task' = [task EXCEPT !["orders"] = job]
  PROVE  Job' = job /\ \A t \in Tasks \ {"orders"} : task'[t] = task[t]
BY DEF GateInv, JobsTyped, Job, Tasks, OrderTasks

(* A task lays its job down, and an order before its verdict is out.       *)
LEMMA SpacedLaidDown ==
  ASSUME SpacedInv, GateInv, NEW t \in Tasks, task' = [task EXCEPT ![t] = Idle],
         UNCHANGED <<stream, pending, view, verdict, actual, filled, reports, conduct>>
  PROVE  SpacedInv'
<1>1. /\ task \in [Tasks -> Jobs]
      /\ Idle.phase = "idle" /\ Idle.order = NoOrder /\ "orders" \in Tasks
  BY DEF GateInv, JobsTyped, Idle, Tasks, OrderTasks
<1>2. OneTasked'
  BY <1>1 DEF SpacedInv, OneTasked, Job
<1>3. Job' = Job \/ Job' = Idle
  BY <1>1 DEF Job
<1>4. SpacedTypes' /\ OneAtATime' /\ TrueToReports'
  BY <1>1, <1>3, GateAssumption
     DEF SpacedInv, SpacedTypes, OneAtATime, TrueToReports, Undecided, Awaited, Leads,
         Bound, Untold
<1> QED
  BY <1>2, <1>4 DEF SpacedInv

LEMMA SpacedOrderStep ==
  ASSUME SpacedInv, GateInv, NEW t \in OrderTasks, HandleOrder(t)
  PROVE  SpacedInv'
<1> USE DEF SpacedInv
<1>0. /\ task \in [Tasks -> Jobs] /\ "orders" \in Tasks /\ "replay" \in Tasks
      /\ Job \in Jobs /\ Job.order = task["orders"].order
  BY DEF GateInv, JobsTyped, Tasks, OrderTasks, RejectTasks, Job
<1>1. t = "orders"
  <2>1. t = "replay" => task[t].phase \in {"idle", "alert"} /\ pending = <<>>
    BY <1>0 DEF OneTasked, SpacedTypes
  <2>2. t # "replay"
    BY <2>1 DEF HandleOrder, BeginOrder, Take, TakePending, ProbeKillSwitch, Check,
                CheckRaises, Approve, Reject
  <2> QED
    BY <2>2 DEF OrderTasks
<1>2. ASSUME NEW o \in Orders, BeginOrder(t, o) PROVE SpacedInv'
  <2> DEFINE job == [Idle EXCEPT !.phase = "probe", !.order = o, !.blocked = kill]
  <2>1. job.phase = "probe" /\ job.order = o
    BY DEF Idle
  <2>2. /\ task' = [task EXCEPT !["orders"] = job]
        /\ stream # <<>> /\ o = Head(stream) /\ stream' = Tail(stream)
        /\ UNCHANGED <<pending, view, verdict, actual, filled, reports, conduct>>
        /\ Job.phase = "idle"
    BY <1>1, <1>2 DEF BeginOrder, Take, account, Job
  <2> HIDE DEF job
  <2>3. Job' = job /\ \A u \in Tasks \ {"orders"} : task'[u] = task[u]
    BY <2>2, JobStep
  <2>4. OneTasked'
    BY <2>1, <2>3 DEF OneTasked
  <2>5. stream = <<o>> /\ stream' = <<>>
    <3>1. PICK p \in Orders : stream = <<p>>
      BY <2>2 DEF SpacedTypes
    <3>2. Head(<<p>>) = p /\ Tail(<<p>>) = <<>>
      OBVIOUS
    <3> QED
      BY <2>2, <3>1, <3>2
  <2>6. SpacedTypes'
    BY <2>2, <2>5 DEF SpacedTypes, Untold
  <2>7. OneAtATime'
    BY <2>1, <2>2, <2>3, <2>5 DEF OneAtATime, Undecided, Awaited
  <2>8. TrueToReports'
    BY <2>1, <2>2, <2>3 DEF TrueToReports, Awaited, Leads, Bound, Untold
  <2> QED
    BY <2>4, <2>6, <2>7, <2>8
<1>3. ASSUME ProbeKillSwitch(t) PROVE SpacedInv'
  <2> DEFINE job == [task[t] EXCEPT !.phase = "check", !.probe = kill]
  <2>1. job.phase = "check" /\ job.order = Job.order /\ Job.phase = "probe"
    BY <1>0, <1>1, <1>3 DEF ProbeKillSwitch, Jobs, Job
  <2>2. /\ task' = [task EXCEPT !["orders"] = job]
        /\ UNCHANGED <<stream, pending, view, verdict, actual, filled, reports, conduct>>
    BY <1>0, <1>1, <1>3 DEF ProbeKillSwitch, account
  <2> HIDE DEF job
  <2>3. Job' = job /\ \A u \in Tasks \ {"orders"} : task'[u] = task[u]
    BY <2>2, JobStep
  <2> QED
    BY <2>1, <2>2, <2>3 DEF OneTasked, SpacedTypes, OneAtATime, TrueToReports, Undecided,
                            Awaited, Leads, Bound, Untold
<1>4. ASSUME Check(t) PROVE SpacedInv'
  <2> DEFINE ok  == PassesLimits(task[t].order) /\ ~task[t].probe
             job == [task[t] EXCEPT !.phase = IF ok THEN "approve" ELSE "reject"]
  <2>1. Job.phase = "check" /\ Job.order \in Orders
    BY <1>0, <1>1, <1>4 DEF Check, Job, OneTasked
  <2>2. /\ task' = [task EXCEPT !["orders"] = job]
        /\ UNCHANGED <<stream, pending, view, verdict, actual, filled, reports, conduct>>
    BY <1>0, <1>1, <1>4 DEF Check, account
  <2>3. ok => Leads(Job.order)
    <3>1. Abs(actual - view.position) <= Untold
      BY <2>1 DEF OneAtATime, TrueToReports
    <3>2. ok => WithinPosition(Job.order)
      BY <1>1 DEF PassesLimits, Job
    <3>3. actual \in Int /\ view.position \in Int /\ Untold \in Nat /\ Qty[Job.order] \in Int
      BY <2>1, GateAssumption DEF SpacedTypes
    <3> QED
      BY <3>1, <3>2, <3>3, OffByUntold DEF WithinPosition, Leads, Bound
  <2> HIDE DEF ok
  <2>4. job.phase = (IF ok THEN "approve" ELSE "reject") /\ job.order = Job.order
    BY <1>0, <1>1 DEF Jobs, Job
  <2> HIDE DEF job
  <2>5. Job' = job /\ \A u \in Tasks \ {"orders"} : task'[u] = task[u]
    BY <2>2, JobStep
  <2>6. OneTasked' /\ SpacedTypes' /\ OneAtATime'
    BY <2>1, <2>2, <2>4, <2>5 DEF OneTasked, SpacedTypes, OneAtATime, Undecided, Awaited, Untold
  <2>7. TrueToReports'
    BY <2>1, <2>2, <2>3, <2>4, <2>5 DEF TrueToReports, Awaited, Leads, Bound, Untold
  <2> QED
    BY <2>6, <2>7
<1>5. ASSUME Approve(t) \/ Reject(t) PROVE SpacedInv'
  <2> DEFINE o == Job.order
  <2>1. /\ o \in Orders /\ Job.phase \in {"approve", "reject"}
        /\ Idle.phase = "idle" /\ Idle.order = NoOrder
    BY <1>0, <1>1, <1>5 DEF Approve, Reject, Job, OneTasked, Idle
  <2>2. /\ task' = [task EXCEPT !["orders"] = Idle]
        /\ UNCHANGED <<stream, pending, view, actual, filled, reports, conduct>>
        /\ \/ Job.phase = "approve" /\ verdict' = [verdict EXCEPT ![o] = "approved"]
           \/ Job.phase = "reject" /\ verdict' = [verdict EXCEPT ![o] = "rejected"]
    BY <1>0, <1>1, <1>5 DEF Approve, Reject, account, Job
  <2>3. Job' = Idle /\ \A u \in Tasks \ {"orders"} : task'[u] = task[u]
    BY <2>2, JobStep
  <2>4. OneTasked'
    BY <2>1, <2>3 DEF OneTasked
  <2>5. /\ stream = <<>> /\ reports = <<>> /\ \A p \in Orders : ~Awaited(p)
        /\ verdict[o] = "none" /\ o \notin filled
        /\ Job.phase = "approve" => Leads(o)
    BY <2>1 DEF OneAtATime, Undecided, TrueToReports
  <2> HIDE DEF o
  <2>6. /\ verdict' \in [Orders -> {"none", "approved", "rejected"}]
        /\ \A p \in Orders \ {o} : verdict'[p] = verdict[p]
        /\ verdict'[o] = (IF Job.phase = "approve" THEN "approved" ELSE "rejected")
    BY <2>1, <2>2 DEF SpacedTypes
  <2>7. SpacedTypes'
    BY <2>2, <2>6 DEF SpacedTypes, Untold
  <2>8. \A p \in Orders : Awaited(p)' => p = o /\ Job.phase = "approve"
    BY <2>1, <2>2, <2>5, <2>6 DEF Awaited
  <2>9. OneAtATime'
    BY <2>1, <2>2, <2>3, <2>5, <2>6, <2>8, GateAssumption DEF OneAtATime, Undecided
  <2>10. TrueToReports'
    BY <2>1, <2>2, <2>3, <2>5, <2>8 DEF TrueToReports, Leads, Bound, Untold
  <2> QED
    BY <2>4, <2>7, <2>9, <2>10
<1>6. ASSUME CheckRaises(t) PROVE SpacedInv'
  BY <1>0, <1>1, <1>6, SpacedLaidDown DEF CheckRaises, account
<1> QED
  BY <1>2, <1>3, <1>4, <1>5, <1>6 DEF HandleOrder

(* A task that counts rejections has no order.                             *)
LEMMA SpacedRejectionStep ==
  ASSUME SpacedInv, GateInv, NEW t \in RejectTasks, TrackRejections(t)
  PROVE  SpacedInv'
<1>1. t \in Tasks /\ t # "orders" /\ task \in [Tasks -> Jobs] /\ "orders" \in Tasks
  BY DEF Tasks, RejectTasks, OrderTasks, GateInv, JobsTyped
<1>2. PICK job : task' = [task EXCEPT ![t] = job] /\ job.phase \in {"idle", "alert"}
  <2> DEFINE alert == [Idle EXCEPT !.phase = "alert", !.at = clock]
  <2>1. Idle.phase = "idle" /\ alert.phase = "alert"
    BY DEF Idle
  <2>2. task' = [task EXCEPT ![t] = Idle] \/ task' = [task EXCEPT ![t] = alert]
    <3>1. ASSUME TrackRejection(t)
          PROVE  task' = [task EXCEPT ![t] = IF Due(window') THEN alert ELSE Idle]
      BY <3>1 DEF TrackRejection
    <3> HIDE DEF alert
    <3> QED
      BY <3>1 DEF TrackRejections, Alert
  <2> HIDE DEF alert
  <2> QED
    BY <2>1, <2>2
<1>3. UNCHANGED <<stream, conduct, verdict, actual, filled, reports, view>>
  BY DEF TrackRejections, TrackRejection, Alert, account
<1>4. pending' = pending
  BY DEF TrackRejections, TrackRejection, TakeRejection, TakePending, Alert, SpacedInv,
         SpacedTypes
<1>5. Job' = Job /\ OneTasked'
  BY <1>1, <1>2 DEF Job, SpacedInv, OneTasked
<1> QED
  BY <1>3, <1>4, <1>5, SpacedFrame DEF SpacedInv, SpacedTypes

(* Nothing is outstanding when the next order is sent.                     *)
LEMMA SpacedSendStep ==
  ASSUME SpacedInv, conduct.spaced, NEW o \in Orders, SendOrder(o)
  PROVE  SpacedInv'
<1> USE DEF SpacedInv
<1>1. /\ Settled /\ ~Outstanding(o) /\ stream' = Append(stream, o)
      /\ UNCHANGED <<pending, view, task, verdict, actual, filled, reports, conduct>>
  BY DEF SendOrder, account
<1>2. ASSUME NEW p \in Orders PROVE ~Undecided(p) /\ ~Awaited(p)
  <2>1. CASE Undecided(p)
    <3>1. Outstanding(p)
      BY <2>1 DEF Undecided, Outstanding, Job, Tasks, OrderTasks
    <3>2. verdict[p] = "none" /\ p \notin filled
      BY <2>1 DEF OneAtATime
    <3> QED
      BY <1>1, <3>1, <3>2 DEF Settled
  <2>2. CASE Awaited(p)
    BY <1>1, <2>2 DEF Settled, Outstanding, Awaited
  <2> QED
    BY <2>1, <2>2
<1>3. stream = <<>> /\ Job.phase = "idle"
  BY <1>2 DEF SpacedTypes, Undecided, OneTasked
<1>4. stream' = <<o>> /\ reports = <<>> /\ verdict[o] = "none"
  BY <1>1, <1>3 DEF Settled, Outstanding, SpacedTypes
<1>5. OneTasked' /\ Job' = Job
  BY <1>1 DEF OneTasked, Job
<1>6. SpacedTypes'
  BY <1>1, <1>4 DEF SpacedTypes, Untold
<1>7. OneAtATime'
  BY <1>1, <1>2, <1>3, <1>4, <1>5 DEF OneAtATime, Undecided, Awaited
<1>8. TrueToReports'
  BY <1>1, <1>5 DEF TrueToReports, Awaited, Leads, Bound, Untold
<1> QED
  BY <1>5, <1>6, <1>7, <1>8

LEMMA SpacedFillStep ==
  ASSUME SpacedInv, NEW o \in Orders, VenueFills(o)
  PROVE  SpacedInv'
<1> USE DEF SpacedInv
<1>1. /\ Awaited(o) /\ filled' = filled \cup {o} /\ actual' = actual + Qty[o]
      /\ reports' = Append(reports, actual')
      /\ UNCHANGED <<pending, view, task, verdict, stream, conduct>>
  BY DEF VenueFills, Awaited
<1>2. /\ reports = <<>> /\ reports' = <<actual'>> /\ Leads(o) /\ actual' \in Int
      /\ stream = <<>> /\ Job.phase = "idle" /\ verdict[o] = "approved"
  <2>1. reports = <<>> /\ Leads(o)
    BY <1>1 DEF TrueToReports
  <2>2. actual' \in Int
    BY <1>1, GateAssumption DEF SpacedTypes
  <2>3. reports' = <<actual'>>
    BY <1>1, <2>1, <2>2
  <2> QED
    BY <1>1, <2>1, <2>2, <2>3 DEF OneAtATime, Awaited
<1>3. OneTasked' /\ Job' = Job
  BY <1>1 DEF OneTasked, Job
<1>4. SpacedTypes'
  BY <1>1, <1>2 DEF SpacedTypes, Untold
<1>5. \A p \in Orders : ~Awaited(p)'
  BY <1>1 DEF Awaited, OneAtATime
<1>6. OneAtATime'
  BY <1>1, <1>2, <1>3, <1>5 DEF OneAtATime, Undecided
<1>7. TrueToReports'
  BY <1>1, <1>2, <1>3, <1>5 DEF TrueToReports, Leads, Bound, Untold
<1> QED
  BY <1>3, <1>4, <1>6, <1>7

LEMMA SpacedReportStep ==
  ASSUME SpacedInv, HandlePositionUpdate
  PROVE  SpacedInv'
<1> USE DEF SpacedInv
<1>1. /\ reports # <<>> /\ reports' = Tail(reports)
      /\ view' = [view EXCEPT !.position = Head(reports)]
      /\ UNCHANGED <<pending, task, verdict, stream, actual, filled, conduct>>
  BY DEF HandlePositionUpdate
<1>2. /\ reports = <<actual>> /\ reports' = <<>> /\ view'.position = actual
      /\ "position" \in DOMAIN view'
  <2>1. reports = <<actual>>
    BY <1>1 DEF TrueToReports
  <2>2. reports' = <<>> /\ Head(reports) = actual
    BY <1>1, <2>1
  <2> QED
    BY <1>1, <2>1, <2>2 DEF SpacedTypes
<1>3. OneTasked' /\ Job' = Job
  BY <1>1 DEF OneTasked, Job
<1>4. SpacedTypes'
  BY <1>1, <1>2 DEF SpacedTypes, Untold
<1>5. OneAtATime'
  BY <1>1, <1>2, <1>3 DEF OneAtATime, Undecided, Awaited, TrueToReports
<1>6. TrueToReports'
  <2>1. Abs(actual' - view'.position) = 0 /\ Untold' = Untold /\ Untold \in Nat
    BY <1>1, <1>2 DEF SpacedTypes, Untold, Abs
  <2>2. Bound' = Bound
    BY <2>1 DEF Bound
  <2>3. Abs(actual' - view'.position) <= Untold'
    BY <2>1
  <2> QED
    BY <1>1, <1>2, <1>3, <2>2, <2>3 DEF TrueToReports, Awaited, Leads
<1> QED
  BY <1>3, <1>4, <1>5, <1>6

LEMMA SpacedStep ==
  ASSUME SpacedInv, GateInv, conduct.spaced, [Next]_vars
  PROVE  SpacedInv'
<1>1. ASSUME NEW v, Told(v), DOMAIN v = DOMAIN view, v.position = view.position
      PROVE  SpacedInv'
  <2>1. /\ UNCHANGED <<stream, pending, conduct, verdict, actual, filled, reports, task>>
        /\ view' = v
    BY <1>1 DEF Told, account
  <2> QED
    BY <1>1, <2>1, SpacedFrame DEF SpacedInv, SpacedTypes, OneTasked, Job
<1>2. \A x : /\ DOMAIN [view EXCEPT !.price = x] = DOMAIN view
             /\ [view EXCEPT !.price = x].position = view.position
             /\ DOMAIN [view EXCEPT !.vol = x] = DOMAIN view
             /\ [view EXCEPT !.vol = x].position = view.position
             /\ DOMAIN [view EXCEPT !.margin = x] = DOMAIN view
             /\ [view EXCEPT !.margin = x].position = view.position
  BY DEF SpacedInv, SpacedTypes
<1>3. ASSUME \/ \E p \in Prices : HandleMarketPrice(p)
             \/ \E v \in Vols : HandleMarketVol(v)
             \/ \E m \in Margins : HandleMarginUpdate(m)
      PROVE  SpacedInv'
  BY <1>1, <1>2, <1>3 DEF HandleMarketPrice, HandleMarketVol, HandleMarginUpdate
<1>4. CASE ToggleKillSwitch
  <2>1. /\ UNCHANGED <<stream, pending, conduct, verdict, actual, filled, reports, view>>
        /\ task' = [t \in Tasks |-> [task[t] EXCEPT !.blocked = task[t].blocked /\ ~kill]]
    BY <1>4 DEF ToggleKillSwitch, account
  <2>2. ASSUME NEW t \in Tasks
        PROVE  task'[t].phase = task[t].phase /\ task'[t].order = task[t].order
    <3> DEFINE b == task[t].blocked /\ ~kill
    <3>1. task'[t] = [task[t] EXCEPT !.blocked = b]
      BY <2>1
    <3>2. task[t] \in Jobs
      BY DEF GateInv, JobsTyped
    <3> HIDE DEF b
    <3> QED
      BY <3>1, <3>2 DEF Jobs
  <2>3. OneTasked' /\ Job'.phase = Job.phase /\ Job'.order = Job.order
    BY <2>2 DEF OneTasked, SpacedInv, Job, Tasks, OrderTasks
  <2> QED
    BY <2>1, <2>3, SpacedFrame DEF SpacedInv, SpacedTypes
<1>5. CASE Tick \/ UNCHANGED vars
  <2>1. UNCHANGED <<stream, pending, conduct, verdict, actual, filled, reports, view, task>>
    BY <1>5 DEF Tick, vars, account
  <2> QED
    BY <2>1, SpacedFrame DEF SpacedInv, SpacedTypes, OneTasked, Job
<1>6. ASSUME NEW t \in Tasks, RedisCallRaises(t) PROVE SpacedInv'
  BY <1>6, SpacedLaidDown DEF RedisCallRaises, account
<1>7. ASSUME NEW t \in RejectTasks, AlertReplyLost(t) PROVE SpacedInv'
  BY <1>7, SpacedLaidDown, TasksAre DEF AlertReplyLost, account
<1>8. ~SkipDuplicate
  BY DEF SkipDuplicate, SpacedInv, SpacedTypes
<1> QED
  BY <1>3, <1>4, <1>5, <1>6, <1>7, <1>8, SpacedOrderStep, SpacedRejectionStep,
     SpacedSendStep, SpacedFillStep, SpacedReportStep DEF Next

(* The conduct of the strategies and of Redis is chosen once.              *)
LEMMA ConductConstant == [Next]_vars => conduct' = conduct
BY DEF Next, HandleOrder, TrackRejections, BeginOrder, ProbeKillSwitch, Check, CheckRaises,
       Approve, Reject, TrackRejection, Alert, AlertReplyLost, RedisCallRaises,
       SkipDuplicate, SendOrder, VenueFills, Told,
       HandleMarketPrice, HandleMarketVol, HandleMarginUpdate, HandlePositionUpdate,
       ToggleKillSwitch, Tick, vars

(* Orders that wait for each other's report keep the true position within  *)
(* the limit, and a gate that was not told where the account stands within *)
(* the limit and what it was not told, for any quantities, any limit and   *)
(* whatever raises (_check and handle_position_update, risk_gate.py).      *)
THEOREM SpacedOrdersKeepLimit == Spec => []PositionWithinLimitSpaced
<1> DEFINE I == conduct.spaced /\ conduct.backlog = <<>> => SpacedInv
<1>1. Init => I
  BY InitSpaced
<1>2. I /\ GateInv /\ [Next]_vars => I'
  BY SpacedStep, ConductConstant
<1>3. I => PositionWithinLimitSpaced
  BY DEF SpacedInv, TrueToReports, Bound, PositionWithinLimitSpaced
<1> QED
  BY <1>1, <1>2, <1>3, GateInvariant, PTL DEF Spec

-----------------------------------------------------------------------------
LEMMA Least ==
  ASSUME NEW S \in SUBSET Nat, S # {}
  PROVE  \E n \in S : \A m \in S : n <= m
<1> DEFINE R == OpToRel(<, Nat)
<1>1. \E n \in S : \A m \in S : <<m, n>> \notin R
  BY NatLessThanWellFounded, WFMin
<1>2. \A m, n \in Nat : m < n => <<m, n>> \in R
  BY DEF OpToRel
<1> HIDE DEF R
<1>3. PICK n \in S : \A m \in S : <<m, n>> \notin R
  BY <1>1
<1>4. \A m \in S : m \in Nat /\ n \in Nat /\ ~(m < n)
  BY <1>2, <1>3
<1>5. \A m \in S : n <= m
  BY <1>4
<1> QED
  BY <1>3, <1>5

(* Dropping what is too old leaves the rejection just appended.            *)
LEMMA RecentKeepsLast ==
  ASSUME NEW w \in Seq(Nat), clock \in Nat
  PROVE  /\ Recent(Append(w, clock)) \in Seq(Nat)
         /\ Recent(Append(w, clock)) # <<>>
         /\ Recent(Append(w, clock))[Len(Recent(Append(w, clock)))] = clock
<1> DEFINE v == Append(w, clock)
           n == Len(v)
           S == {i \in DOMAIN v : v[i] >= clock - Window}
           First(i) == /\ v[i] >= clock - Window
                       /\ \A j \in 1..(i - 1) : v[j] < clock - Window
           first == CHOOSE i \in DOMAIN v : First(i)
<1>1. v \in Seq(Nat) /\ n \in Nat /\ n >= 1 /\ v[n] = clock /\ DOMAIN v = 1..n
  OBVIOUS
<1> HIDE DEF v, n
<1>2. \A i \in DOMAIN v : v[i] \in Nat /\ i \in Nat
  BY <1>1 DEF n
<1>3. \E i \in DOMAIN v : First(i)
  <2>1. S \in SUBSET Nat /\ n \in S
    BY <1>1, <1>2, GateAssumption
  <2>2. PICK i \in S : \A j \in S : i <= j
    BY <2>1, Least
  <2>3. ASSUME NEW j \in 1..(i - 1) PROVE v[j] < clock - Window
    <3>1. j \in DOMAIN v /\ j < i /\ j \in Int /\ i \in Int
      BY <1>1, <2>2
    <3>2. j \notin S
      BY <2>2, <3>1
    <3>3. v[j] \in Int /\ clock - Window \in Int /\ ~(v[j] >= clock - Window)
      BY <1>2, <3>1, <3>2, GateAssumption
    <3> QED
      BY <3>3
  <2> QED
    BY <2>2, <2>3
<1>4. first \in DOMAIN v
  BY <1>3
<1>5. Recent(v) = SubSeq(v, first, n)
  BY DEF Recent, n
<1> HIDE DEF first
<1>6. /\ Recent(v) \in Seq(Nat) /\ Len(Recent(v)) = n - first + 1
      /\ n - first + 1 \in 1..(n - first + 1)
      /\ \A i \in 1..(n - first + 1) : Recent(v)[i] = v[first + i - 1]
  BY <1>1, <1>4, <1>5 DEF n
<1>7. first + (n - first + 1) - 1 = n
  BY <1>1, <1>4
<1>8. Recent(v)[n - first + 1] = v[n]
  BY <1>6, <1>7
<1> QED
  BY <1>1, <1>6, <1>8 DEF v

Entries == [what : Orders \cup {Rejection}, marked : BOOLEAN]

SpikeTypes ==
  /\ window \in Seq(Nat) /\ alerts \in Seq([at : Nat, noted : BOOLEAN])
  /\ lastAlert \in Int /\ pending \in Seq(Entries)
  /\ lastAlert = -Window \/ \E i \in DOMAIN alerts : alerts[i].at = lastAlert

(* With no rejection left to the replay, they are counted one at a time:   *)
(* the alert on its way is a window later than the last one noted.         *)
Throttled ==
  /\ \A i \in DOMAIN pending : pending[i].what = Rejection => pending[i].marked
  /\ task["replay"].phase # "alert"
  /\ task["rejects"].phase = "alert" => task["rejects"].at - lastAlert >= Window
  /\ \A i \in DOMAIN alerts : alerts[i].noted => alerts[i].at <= lastAlert
  /\ \A i, j \in DOMAIN alerts :
       i < j /\ alerts[i].noted => alerts[j].at - alerts[i].at >= Window

(* A rejection of a full window is announced, or its alert is on its way.  *)
Answered(at) ==
  \/ \E i \in DOMAIN alerts : at - alerts[i].at < Window
  \/ \E t \in RejectTasks : task[t].phase = "alert" /\ at - task[t].at < Window

SpikeInv ==
  /\ SpikeTypes /\ (NoRejectionLeft => Throttled)
  /\ ~conduct.fails /\ Len(window) >= Threshold => Answered(window[Len(window)])

LEMMA InitSpike == Init => SpikeInv
<1> SUFFICES ASSUME Init PROVE SpikeInv
  OBVIOUS
<1>1. /\ window = <<>> /\ alerts = <<>> /\ lastAlert = -Window /\ pending = conduct.backlog
      /\ \A t \in Tasks : task[t].phase = "idle"
  BY DEF Init, Idle
<1>2. SpikeTypes
  <2>1. pending \in Seq(Entries)
    BY <1>1, GateAssumption DEF Init, Entries
  <2>2. window \in Seq(Nat) /\ alerts \in Seq([at : Nat, noted : BOOLEAN]) /\ lastAlert \in Int
    BY <1>1, GateAssumption
  <2> QED
    BY <1>1, <2>1, <2>2 DEF SpikeTypes
<1>3. NoRejectionLeft => Throttled
  BY <1>1 DEF NoRejectionLeft, Throttled, Tasks, OrderTasks, RejectTasks
<1>4. ~(Len(window) >= Threshold)
  BY <1>1, GateAssumption
<1> QED
  BY <1>2, <1>3, <1>4 DEF SpikeInv

(* A step that counts no rejection and announces nothing.                  *)
NothingCounted ==
  /\ conduct' = conduct /\ window' = window
  /\ lastAlert' = lastAlert /\ alerts' = alerts
  /\ \/ pending' = pending
     \/ pending # <<>> /\ pending' = Tail(pending)

AlertsKept ==
  \A t \in RejectTasks :
     /\ task'[t].phase = "alert" => (task[t].phase = "alert" /\ task'[t].at = task[t].at)
     /\ ~conduct.fails /\ task[t].phase = "alert" => task'[t] = task[t]

LEMMA TailTyped ==
  ASSUME NEW S, NEW q \in Seq(S), q # <<>>
  PROVE  Tail(q) \in Seq(S)
OBVIOUS

LEMMA SpikeFrame ==
  ASSUME SpikeInv, NothingCounted, AlertsKept
  PROVE  SpikeInv'
<1> USE DEF NothingCounted, AlertsKept
<1>1. pending' \in Seq(Entries)
  BY TailTyped DEF SpikeInv, SpikeTypes
<1>2. SpikeTypes'
  BY <1>1 DEF SpikeInv, SpikeTypes
<1>3. ASSUME NoRejectionLeft' PROVE Throttled'
  <2>1. Throttled
    BY <1>3 DEF SpikeInv, NoRejectionLeft
  <2>2. \A i \in DOMAIN pending' : pending'[i].what = Rejection => pending'[i].marked
    <3>1. CASE pending' = pending
      BY <2>1, <3>1 DEF Throttled
    <3>2. CASE pending # <<>> /\ pending' = Tail(pending)
      <4>1. \A i \in DOMAIN pending' : i + 1 \in DOMAIN pending /\ pending'[i] = pending[i + 1]
        BY <3>2 DEF SpikeInv, SpikeTypes
      <4> QED
        BY <2>1, <4>1 DEF Throttled
    <3> QED
      BY <3>1, <3>2
  <2> QED
    BY <2>1, <2>2 DEF Throttled, RejectTasks
<1>4. ASSUME ~conduct.fails, Len(window) >= Threshold PROVE Answered(window[Len(window)])'
  BY <1>4 DEF SpikeInv, Answered
<1> QED
  BY <1>2, <1>3, <1>4 DEF SpikeInv

LEMMA SpikeOrderStep ==
  ASSUME SpikeInv, GateInv, NEW t \in OrderTasks, HandleOrder(t)
  PROVE  SpikeInv'
<1>1. NothingCounted
  <2>1. ASSUME NEW o, BeginOrder(t, o) PROVE NothingCounted
    BY <2>1 DEF BeginOrder, Take, TakePending, spike, NothingCounted
  <2>2. ASSUME ProbeKillSwitch(t) \/ Check(t) \/ CheckRaises(t) \/ Approve(t) \/ Reject(t)
        PROVE  NothingCounted
    BY <2>2 DEF ProbeKillSwitch, Check, CheckRaises, Approve, Reject, spike, NothingCounted
  <2> QED
    BY <2>1, <2>2 DEF HandleOrder
<1>2. task \in [Tasks -> Jobs] /\ t \in Tasks /\ task[t] \in Jobs
  BY TasksAre DEF GateInv, JobsTyped
<1>3. PICK job : task' = [task EXCEPT ![t] = job] /\ job.phase # "alert" /\ task[t].phase # "alert"
  <2>1. ASSUME NEW o, BeginOrder(t, o)
        PROVE  \E job : /\ task' = [task EXCEPT ![t] = job] /\ job.phase # "alert"
                        /\ task[t].phase # "alert"
    <3> DEFINE job == [Idle EXCEPT !.phase = "probe", !.order = o, !.blocked = kill]
    <3>1. job.phase = "probe"
      BY DEF Idle
    <3>2. task' = [task EXCEPT ![t] = job] /\ task[t].phase = "idle"
      BY <2>1 DEF BeginOrder, Take
    <3> HIDE DEF job
    <3> QED
      BY <3>1, <3>2
  <2>2. ASSUME ProbeKillSwitch(t)
        PROVE  \E job : /\ task' = [task EXCEPT ![t] = job] /\ job.phase # "alert"
                        /\ task[t].phase # "alert"
    <3> DEFINE job == [task[t] EXCEPT !.phase = "check", !.probe = kill]
    <3>1. job.phase = "check"
      BY <1>2 DEF Jobs
    <3>2. task' = [task EXCEPT ![t] = job] /\ task[t].phase = "probe"
      BY <1>2, <2>2 DEF ProbeKillSwitch
    <3> HIDE DEF job
    <3> QED
      BY <3>1, <3>2
  <2>3. ASSUME Check(t)
        PROVE  \E job : /\ task' = [task EXCEPT ![t] = job] /\ job.phase # "alert"
                        /\ task[t].phase # "alert"
    <3> DEFINE ok  == PassesLimits(task[t].order) /\ ~task[t].probe
               job == [task[t] EXCEPT !.phase = IF ok THEN "approve" ELSE "reject"]
    <3>2. task' = [task EXCEPT ![t] = job] /\ task[t].phase = "check"
      BY <1>2, <2>3 DEF Check
    <3> HIDE DEF ok
    <3>1. job.phase # "alert"
      BY <1>2 DEF Jobs
    <3> HIDE DEF job
    <3> QED
      BY <3>1, <3>2
  <2>4. ASSUME CheckRaises(t) \/ Approve(t) \/ Reject(t)
        PROVE  task' = [task EXCEPT ![t] = Idle] /\ Idle.phase # "alert" /\ task[t].phase # "alert"
    BY <2>4 DEF CheckRaises, Approve, Reject, Idle
  <2> QED
    BY <2>1, <2>2, <2>3, <2>4 DEF HandleOrder
<1>4. \A s \in Tasks : task'[s] = IF s = t THEN job ELSE task[s]
  BY <1>2, <1>3
<1>5. AlertsKept
  BY <1>3, <1>4, TasksAre DEF AlertsKept
<1> QED
  BY <1>1, <1>5, SpikeFrame

(* A rejection is counted, and the window ends with it.                    *)
LEMMA TrackStep ==
  ASSUME SpikeInv, GateInv, NEW t \in RejectTasks, TrackRejection(t)
  PROVE  SpikeInv'
<1> USE DEF SpikeInv
<1> DEFINE due == Due(window')
           alert == [Idle EXCEPT !.phase = "alert", !.at = clock]
<1>1. /\ window' = Recent(Append(window, clock))
      /\ UNCHANGED <<conduct, clock, lastAlert, alerts>>
      /\ task' = [task EXCEPT ![t] = IF due THEN alert ELSE Idle]
      /\ task[t].phase = "idle"
      /\ \/ t = "rejects" /\ pending' = pending
         \/ /\ t = "replay" /\ pending # <<>> /\ pending' = Tail(pending)
            /\ Head(pending).what = Rejection /\ ~Head(pending).marked
  BY DEF TrackRejection, TakeRejection, TakePending
<1>2. window' \in Seq(Nat) /\ window' # <<>> /\ window'[Len(window')] = clock /\ clock \in Nat
  BY <1>1, RecentKeepsLast DEF GateInv, JobsTyped, SpikeTypes
<1>3. Idle.phase = "idle" /\ alert.phase = "alert" /\ alert.at = clock
  BY DEF Idle
<1>4. \A s \in Tasks : task'[s] = IF s = t THEN (IF due THEN alert ELSE Idle) ELSE task[s]
  BY <1>1 DEF GateInv, JobsTyped
<1>5. due <=> Len(window') >= Threshold /\ clock - lastAlert >= Window
  BY <1>1 DEF Due
<1> HIDE DEF due, alert
<1>6. SpikeTypes'
  <2>1. pending' \in Seq(Entries)
    BY <1>1, TailTyped DEF SpikeTypes
  <2> QED
    BY <1>1, <1>2, <2>1 DEF SpikeTypes
<1>7. ASSUME NoRejectionLeft' PROVE Throttled'
  <2>1. Throttled
    BY <1>1, <1>7 DEF NoRejectionLeft
  <2>2. t = "rejects" /\ pending' = pending
    <3>1. ASSUME pending # <<>>, Head(pending).what = Rejection, ~Head(pending).marked
          PROVE  FALSE
      <4>1. 1 \in DOMAIN pending /\ Head(pending) = pending[1]
        BY <3>1 DEF SpikeTypes
      <4> QED
        BY <2>1, <3>1, <4>1 DEF Throttled
    <3> QED
      BY <1>1, <3>1
  <2>3. /\ task'["replay"] = task["replay"]
        /\ task'["rejects"] = IF due THEN alert ELSE Idle
    BY <1>4, <2>2 DEF Tasks, RejectTasks
  <2> QED
    BY <1>1, <1>3, <1>5, <2>1, <2>2, <2>3 DEF Throttled
<1>8. ASSUME Len(window') >= Threshold PROVE Answered(clock)'
  <2>1. CASE due
    <3>1. t \in Tasks /\ task'[t] = alert
      BY <1>4, <2>1, TasksAre
    <3>2. task'[t].phase = "alert" /\ clock - task'[t].at < Window
      BY <1>2, <1>3, <3>1, GateAssumption
    <3> QED
      BY <1>1, <3>2 DEF Answered
  <2>2. CASE ~due
    <3>1. clock - lastAlert < Window
      BY <1>2, <1>5, <1>8, <2>2, GateAssumption DEF SpikeTypes
    <3>2. lastAlert # -Window
      BY <1>2, <3>1, GateAssumption
    <3> QED
      BY <1>1, <3>1, <3>2 DEF SpikeTypes, Answered
  <2> QED
    BY <2>1, <2>2
<1>9. Len(window') >= Threshold => Answered(window[Len(window)])'
  BY <1>1, <1>2, <1>8 DEF Answered
<1> QED
  BY <1>6, <1>7, <1>9

(* The alert is out, and its time noted, or the reply lost.                *)
LEMMA AlertStep ==
  ASSUME SpikeInv, GateInv, NEW t \in RejectTasks, Alert(t) \/ AlertReplyLost(t)
  PROVE  SpikeInv'
<1> USE DEF SpikeInv
<1> DEFINE at == task[t].at
           n  == Len(alerts) + 1
<1>0. PICK noted \in BOOLEAN :
        /\ alerts' = Append(alerts, [at |-> at, noted |-> noted])
        /\ lastAlert' = at \/ (~noted /\ lastAlert' = lastAlert)
  <2>1. CASE Alert(t)
    <3>1. alerts' = Append(alerts, [at |-> at, noted |-> TRUE]) /\ lastAlert' = at
      BY <2>1 DEF Alert
    <3> QED
      BY <3>1
  <2>2. CASE AlertReplyLost(t)
    <3>1. /\ alerts' = Append(alerts, [at |-> at, noted |-> FALSE])
          /\ lastAlert' = lastAlert
      BY <2>2 DEF AlertReplyLost
    <3> QED
      BY <3>1
  <2> QED
    BY <2>1, <2>2
<1>1. /\ UNCHANGED <<conduct, window, pending>>
      /\ task' = [task EXCEPT ![t] = Idle] /\ task[t].phase = "alert"
  BY DEF Alert, AlertReplyLost
<1>2. at \in Nat /\ Idle.phase = "idle" /\ t \in Tasks
  BY TasksAre DEF GateInv, JobsTyped, Jobs, Idle
<1>3. \A s \in Tasks : task'[s] = IF s = t THEN Idle ELSE task[s]
  BY <1>1 DEF GateInv, JobsTyped
<1> HIDE DEF at
<1>4. /\ alerts' \in Seq([at : Nat, noted : BOOLEAN]) /\ DOMAIN alerts' = 1..n
      /\ n \in Nat /\ n \in 1..n /\ DOMAIN alerts = 1..(n - 1)
      /\ alerts'[n].at = at /\ alerts'[n].noted = noted
      /\ \A i \in DOMAIN alerts :
           i \in DOMAIN alerts' /\ alerts'[i] = alerts[i] /\ alerts[i].at \in Nat
      /\ \A i \in DOMAIN alerts' : i \in DOMAIN alerts \/ i = n
  <2> DEFINE alert == [at |-> at, noted |-> noted]
  <2>1. alert \in [at : Nat, noted : BOOLEAN] /\ alert.at = at /\ alert.noted = noted
    BY <1>2
  <2>2. alerts' = Append(alerts, alert)
    BY <1>0
  <2> HIDE DEF alert
  <2>3. alerts \in Seq([at : Nat, noted : BOOLEAN]) /\ n = Len(alerts) + 1
    BY DEF SpikeTypes
  <2> DEFINE T == [at : Nat, noted : BOOLEAN]
  <2>4. \A i \in DOMAIN alerts : alerts[i].at \in Nat
    <3>1. \A i \in DOMAIN alerts : alerts[i] \in T
      <4>1. alerts \in Seq(T)
        BY <2>3
      <4> HIDE DEF T
      <4> QED
        BY <4>1
    <3> QED
      BY <3>1
  <2> HIDE DEF T, n
  <2>5. /\ alerts' \in Seq(T) /\ DOMAIN alerts' = 1..n
        /\ n \in Nat /\ n \in 1..n /\ DOMAIN alerts = 1..(n - 1)
        /\ alerts'[n] = alert
        /\ \A i \in DOMAIN alerts : i \in DOMAIN alerts' /\ alerts'[i] = alerts[i]
    <3>1. alerts \in Seq(T) /\ alert \in T
      BY <2>1, <2>3 DEF T
    <3> QED
      BY <2>2, <2>3, <3>1
  <2>6. \A i \in DOMAIN alerts' : i \in DOMAIN alerts \/ i = n
    BY <2>5
  <2> QED
    BY <2>1, <2>4, <2>5, <2>6 DEF T
<1> HIDE DEF n
<1>5. SpikeTypes'
  <2>1. lastAlert' = -Window \/ \E i \in DOMAIN alerts' : alerts'[i].at = lastAlert'
    BY <1>0, <1>4 DEF SpikeTypes
  <2>2. lastAlert' \in Int
    BY <1>0, <1>2 DEF SpikeTypes
  <2> QED
    BY <1>1, <1>4, <2>1, <2>2 DEF SpikeTypes
<1>6. ASSUME NoRejectionLeft' PROVE Throttled'
  <2>1. Throttled
    BY <1>1, <1>6 DEF NoRejectionLeft
  <2>2. t = "rejects" /\ at - lastAlert >= Window
    BY <1>1, <2>1 DEF Throttled, RejectTasks, at
  <2>3. \A i \in DOMAIN alerts :
          alerts[i].noted => at - alerts[i].at >= Window /\ alerts[i].at <= at
    BY SMTT(20), <1>2, <1>4, <2>1, <2>2, GateAssumption DEF Throttled, SpikeTypes
  <2>4. ASSUME NEW i \in DOMAIN alerts', alerts'[i].noted
        PROVE  alerts'[i].at <= lastAlert'
    BY <1>0, <1>2, <1>4, <2>1, <2>3, <2>4 DEF Throttled
  <2>5. ASSUME NEW i \in DOMAIN alerts', NEW j \in DOMAIN alerts', i < j, alerts'[i].noted
        PROVE  alerts'[j].at - alerts'[i].at >= Window
    <3>1. i \in DOMAIN alerts
      BY <1>4, <2>5
    <3> QED
      BY <1>4, <2>1, <2>3, <2>5, <3>1 DEF Throttled
  <2>6. task'["replay"] = task["replay"] /\ task'["rejects"] = Idle
    BY <1>3, <2>2 DEF Tasks, RejectTasks
  <2> QED
    BY <1>1, <1>2, <2>1, <2>4, <2>5, <2>6 DEF Throttled
<1>7. ASSUME NEW x, Answered(x) PROVE Answered(x)'
  <2>1. CASE \E i \in DOMAIN alerts : x - alerts[i].at < Window
    BY <1>4, <2>1 DEF Answered
  <2>2. ASSUME NEW s \in RejectTasks, task[s].phase = "alert", x - task[s].at < Window
        PROVE  Answered(x)'
    <3>1. CASE s = t
      BY <1>4, <2>2, <3>1 DEF Answered, at
    <3>2. CASE s # t
      BY <1>3, <2>2, <3>2, TasksAre DEF Answered
    <3> QED
      BY <3>1, <3>2
  <2> QED
    BY <1>7, <2>1, <2>2 DEF Answered
<1>8. ASSUME ~conduct.fails, Len(window) >= Threshold PROVE Answered(window[Len(window)])'
  <2>1. Answered(window[Len(window)])
    BY <1>8
  <2> QED
    BY <1>1, <1>7, <2>1 DEF Answered
<1> QED
  BY <1>1, <1>5, <1>6, <1>8

LEMMA SpikeStep ==
  ASSUME SpikeInv, GateInv, [Next]_vars
  PROVE  SpikeInv'
<1>1. ASSUME NEW t \in Tasks, RedisCallRaises(t) PROVE SpikeInv'
  <2>1. /\ UNCHANGED <<conduct, window, lastAlert, alerts, pending>> /\ conduct.fails
        /\ task' = [task EXCEPT ![t] = Idle] /\ Idle.phase = "idle"
    BY <1>1 DEF RedisCallRaises, spike, Idle
  <2>2. \A s \in Tasks : task'[s] = IF s = t THEN Idle ELSE task[s]
    BY <2>1 DEF GateInv, JobsTyped
  <2>3. NothingCounted
    BY <2>1 DEF NothingCounted
  <2>4. AlertsKept
    BY <2>1, <2>2, TasksAre DEF AlertsKept
  <2> QED
    BY <2>3, <2>4, SpikeFrame
<1>2. CASE ToggleKillSwitch
  <2>1. /\ UNCHANGED <<conduct, window, lastAlert, alerts, pending>>
        /\ task' = [t \in Tasks |-> [task[t] EXCEPT !.blocked = task[t].blocked /\ ~kill]]
    BY <1>2 DEF ToggleKillSwitch, spike
  <2>2. ASSUME NEW t \in RejectTasks
        PROVE  task'[t].phase = task[t].phase /\ task'[t].at = task[t].at
    <3> DEFINE b == task[t].blocked /\ ~kill
    <3>1. task'[t] = [task[t] EXCEPT !.blocked = b]
      BY <2>1, TasksAre
    <3>2. task[t] \in Jobs
      BY TasksAre DEF GateInv, JobsTyped
    <3> HIDE DEF b
    <3> QED
      BY <3>1, <3>2 DEF Jobs
  <2>3. SpikeTypes' /\ (NoRejectionLeft' => Throttled')
    BY <2>1, <2>2 DEF SpikeInv, SpikeTypes, NoRejectionLeft, Throttled, RejectTasks
  <2>4. \A x : Answered(x) => Answered(x)'
    BY <2>1, <2>2 DEF Answered
  <2> QED
    BY <2>1, <2>3, <2>4 DEF SpikeInv, Answered
<1>3. ASSUME \/ \E o \in Orders : SendOrder(o) \/ VenueFills(o)
             \/ \E p \in Prices : HandleMarketPrice(p)
             \/ \E v \in Vols : HandleMarketVol(v)
             \/ \E m \in Margins : HandleMarginUpdate(m)
             \/ HandlePositionUpdate \/ Tick \/ UNCHANGED vars
      PROVE  SpikeInv'
  <2>1. UNCHANGED <<conduct, window, lastAlert, alerts, pending, task>>
    BY <1>3 DEF SendOrder, VenueFills, HandleMarketPrice, HandleMarketVol,
                HandleMarginUpdate, Told, HandlePositionUpdate, Tick, vars, spike
  <2>2. NothingCounted /\ AlertsKept
    BY <2>1 DEF NothingCounted, AlertsKept
  <2> QED
    BY <2>2, SpikeFrame
<1>4. CASE SkipDuplicate
  <2>1. NothingCounted /\ AlertsKept
    BY <1>4 DEF SkipDuplicate, spike, NothingCounted, AlertsKept
  <2> QED
    BY <2>1, SpikeFrame
<1> QED
  BY <1>1, <1>2, <1>3, <1>4, SpikeOrderStep, TrackStep, AlertStep DEF Next, TrackRejections

(* An alert whose publish returned is the last of its window, unless the   *)
(* replay counts rejections too; and a full window is announced once no    *)
(* alert is on its way, unless Redis fails (track_rejection, risk_gate.py).*)
THEOREM SpikesAreAnnouncedOnce == Spec => []SpikesAnnouncedOnce
<1>1. Init => SpikeInv
  BY InitSpike
<1>2. SpikeInv /\ GateInv /\ [Next]_vars => SpikeInv'
  BY SpikeStep
<1>3. SpikeInv => SpikesAnnouncedOnce
  BY DEF SpikeInv, Throttled, Answered, SpikesAnnouncedOnce
<1> QED
  BY <1>1, <1>2, <1>3, GateInvariant, PTL DEF Spec
=============================================================================
