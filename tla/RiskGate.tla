------------------------------- MODULE RiskGate -------------------------------
(***************************************************************************)
(* The OMS pre-trade gate, modules/risk_gate.py: an order from orders.new  *)
(* is checked against what the gate was told of the market and the account *)
(* and published as approved or rejected; rejections are counted in a      *)
(* rolling window and a spike is announced.                                *)
(*                                                                         *)
(* Three asyncio tasks meet at the awaits of these handlers.  "orders" and *)
(* "rejects" are the loops of the subscriptions orders.new and             *)
(* orders.rejected; "replay" is on_start, which works through the entries  *)
(* left pending by an earlier life while the loops already run.  The       *)
(* handlers of the four state streams do not await anything: each is one   *)
(* step.  Redis, the strategies, the venue and the account service are     *)
(* external.  One instrument, one account and one owner: the gate keeps    *)
(* every table per key.                                                    *)
(***************************************************************************)
EXTENDS Integers, Sequences

CONSTANTS
  Orders,       \* ids of orders
  Qty,          \* [Orders -> Int], signed: a sale is negative
  LimitPrice,   \* [Orders -> its limit price or NoPrice]
  MaxPosition, MaxNotional, MaxVol, MarginBuffer, \* the limits
  Window,       \* rejection_window_s
  Threshold,    \* rejection_threshold
  NoPrice,      \* no price received yet, no limit price
  NoOrder,      \* a task that holds no order
  Rejection,    \* a pending entry of orders.rejected
  Prices, Vols, Margins, \* what the state streams may carry
  Conducts,     \* how strategies and Redis behave, see conduct
  MaxClock, MaxNews, MaxToggles \* bounds: time, state messages, kill switch

Abs(n) == IF n < 0 THEN -n ELSE n

ASSUME GateAssumption ==
  /\ Qty \in [Orders -> Int] /\ LimitPrice \in [Orders -> Int \cup {NoPrice}]
  /\ NoOrder \notin Orders /\ Rejection \notin Orders
  /\ MaxPosition \in Nat /\ Window \in Nat \ {0} /\ Threshold \in Nat \ {0}
  /\ \A c \in Conducts :
       /\ c.backlog \in Seq([what : Orders \cup {Rejection}, marked : BOOLEAN])
       /\ c.held \in Int

OrderTasks  == {"orders", "replay"}
RejectTasks == {"rejects", "replay"}
Tasks       == OrderTasks \cup RejectTasks

VARIABLES
  kill,     \* the key risk_gate:kill_switch exists in Redis
  toggles,  \* times it was set or deleted
  flag,     \* kill_switch_active
  view,     \* state: price, vol, position and margin as last told
  news,     \* messages of the state streams so far
  stream,   \* orders.new: entries the group has yet to read
  rejected, \* orders.rejected: number of entries yet to be read
  pending,  \* entries the replay has yet to process
  task,     \* what each task is doing
  verdict,  \* [Orders -> what was published]
  clock, window, lastAlert, \* time.time(), _rejections, _last_spike_alert_at
  alerts,   \* history: for each alert the time of the rejection behind it,
            \* and whether the publish returned and that time was noted
  actual,   \* the true position
  filled,   \* approved orders the venue has filled
  reports,  \* positions.update: entries yet to be read
  conduct   \* never changes; backlog: what the last life left pending,
            \* marked: its key processed:risk_gate:... is still set;
            \* sent: the orders strategies may send; spaced: an order is
            \* sent only when the position after the one before it was told
            \* to the gate; fails: calls to Redis may raise; malformed: the
            \* orders for which a conversion in _check may raise; held: the
            \* position at the start; told: it is reported once more

market  == <<kill, toggles, news>>
account == <<actual, filled, reports>>
spike   == <<clock, window, lastAlert, alerts>>
vars == <<market, flag, view, stream, rejected, pending, task, verdict,
          account, spike, conduct>>

Idle == [phase |-> "idle", order |-> NoOrder, probe |-> FALSE,
         blocked |-> FALSE, at |-> 0]

Init ==
  /\ kill \in BOOLEAN /\ toggles = 0 /\ flag = FALSE
  /\ view = [price |-> NoPrice, vol |-> 0, position |-> 0, margin |-> 0]
  /\ news = 0
  /\ conduct \in Conducts
  /\ stream = <<>> /\ rejected = 0 /\ pending = conduct.backlog
  /\ task = [t \in Tasks |-> Idle]
  /\ verdict = [o \in Orders |-> "none"]
  /\ clock = 0 /\ window = <<>> /\ lastAlert = -Window /\ alerts = <<>>
  /\ actual = conduct.held /\ filled = {}
  /\ reports = IF conduct.told THEN <<actual>> ELSE <<>>

-----------------------------------------------------------------------------
(* External: the operator or the watchdog, the state streams, the venue.   *)
Told(v) ==
  /\ news < MaxNews /\ news' = news + 1
  /\ view' = v
  /\ UNCHANGED <<kill, toggles, flag, stream, rejected, pending, task, verdict,
                 account, spike, conduct>>

HandleMarketPrice(p) == Told([view EXCEPT !.price = p])
HandleMarketVol(v) == Told([view EXCEPT !.vol = v])
HandleMarginUpdate(m) == Told([view EXCEPT !.margin = m])

(* A cleared switch excuses the orders in hand.                            *)
ToggleKillSwitch ==
  /\ toggles < MaxToggles /\ toggles' = toggles + 1
  /\ kill' = ~kill
  /\ task' = [t \in Tasks |-> [task[t] EXCEPT !.blocked = @ /\ ~kill]]
  /\ UNCHANGED <<flag, view, news, stream, rejected, pending, verdict, account,
                 spike, conduct>>

Outstanding(o) ==
  \/ \E i \in DOMAIN stream : stream[i] = o
  \/ \E i \in DOMAIN conduct.backlog : conduct.backlog[i].what = o
  \/ \E t \in Tasks : task[t].order = o
  \/ verdict[o] # "none"

Settled ==
  /\ reports = <<>>
  /\ \A o \in Orders : Outstanding(o) => \/ verdict[o] = "rejected"
                                         \/ o \in filled

SendOrder(o) ==
  /\ o \in conduct.sent /\ ~Outstanding(o)
  /\ conduct.spaced => Settled
  /\ stream' = Append(stream, o)
  /\ UNCHANGED <<market, flag, view, rejected, pending, task, verdict, account,
                 spike, conduct>>

VenueFills(o) ==
  /\ verdict[o] = "approved" /\ o \notin filled
  /\ filled' = filled \cup {o}
  /\ actual' = actual + Qty[o]
  /\ reports' = Append(reports, actual')
  /\ UNCHANGED <<market, flag, view, stream, rejected, pending, task, verdict,
                 spike, conduct>>

HandlePositionUpdate ==
  /\ reports # <<>>
  /\ view' = [view EXCEPT !.position = Head(reports)]
  /\ reports' = Tail(reports)
  /\ UNCHANGED <<market, flag, stream, rejected, pending, task, verdict, actual,
                 filled, spike, conduct>>

-----------------------------------------------------------------------------
(* is_duplicate: what an earlier life began to handle is acked by the      *)
(* replay and not handled again, as long as its key lives.                 *)
SkipDuplicate ==
  /\ task["replay"].phase = "idle"
  /\ pending # <<>> /\ Head(pending).marked
  /\ pending' = Tail(pending)
  /\ UNCHANGED <<market, flag, view, stream, rejected, task, verdict, account,
                 spike, conduct>>

(* The next entry of the replay is e's, and new.                           *)
TakePending(e) ==
  /\ pending # <<>> /\ Head(pending) = [what |-> e, marked |-> FALSE]
  /\ pending' = Tail(pending)

(* handle_order.  The next order of the task's source.                     *)
Take(t, o) ==
  /\ task[t].phase = "idle"
  /\ \/ /\ t = "orders" /\ stream # <<>> /\ o = Head(stream)
        /\ stream' = Tail(stream) /\ UNCHANGED pending
     \/ t = "replay" /\ TakePending(o) /\ UNCHANGED stream

BeginOrder(t, o) ==
  /\ Take(t, o)
  /\ task' = [task EXCEPT ![t] = [Idle EXCEPT !.phase = "probe", !.order = o,
                                              !.blocked = kill]]
  /\ UNCHANGED <<market, flag, view, rejected, verdict, account, spike, conduct>>

(* refresh_kill_switch: Redis answers EXISTS ...                           *)
ProbeKillSwitch(t) ==
  /\ task[t].phase = "probe"
  /\ task' = [task EXCEPT ![t].phase = "check", ![t].probe = kill]
  /\ UNCHANGED <<market, flag, view, stream, rejected, pending, verdict, account,
                 spike, conduct>>

(* Fault: the order is checked, not the position it leads to.              *)
WithinPositionFault(o) == Abs(Qty[o]) <= MaxPosition
WithinPosition(o) == Abs(view.position + Qty[o]) <= MaxPosition

(* An order with a limit price is valued at it, and needs no other.        *)
PriceOf(o) == IF LimitPrice[o] # NoPrice THEN LimitPrice[o] ELSE view.price

(* _check, up to the kill switch.  Its first failure is the reason that is *)
(* published; which one it is does not matter here.                        *)
PassesLimits(o) ==
  /\ PriceOf(o) # NoPrice
  /\ LET notional == Abs(Qty[o]) * PriceOf(o)
     IN  notional <= MaxNotional /\ notional * MarginBuffer <= view.margin
  /\ WithinPosition(o)
  /\ view.vol <= MaxVol

(* Fault: the checks run on the flag the last order left.                  *)
CheckFault(t) ==
  /\ task[t].phase = "check"
  /\ flag' = task[t].probe
  /\ LET ok == PassesLimits(task[t].order) /\ ~flag
     IN  task' = [task EXCEPT ![t].phase = IF ok THEN "approve" ELSE "reject"]
  /\ UNCHANGED <<market, view, stream, rejected, pending, verdict, account, spike,
                 conduct>>

(* ... and the task goes on: it sets the shared flag and runs the checks   *)
(* without another await.                                                  *)
Check(t) ==
  /\ task[t].phase = "check"
  /\ flag' = task[t].probe
  /\ LET ok == PassesLimits(task[t].order) /\ ~flag'
     IN  task' = [task EXCEPT ![t].phase = IF ok THEN "approve" ELSE "reject"]
  /\ UNCHANGED <<market, view, stream, rejected, pending, verdict, account, spike,
                 conduct>>

(* A quantity, price, position or margin that float() does not take: the   *)
(* handler ends without a verdict, and the entry stays pending, its key    *)
(* set.                                                                    *)
CheckRaises(t) ==
  /\ task[t].phase = "check" /\ task[t].order \in conduct.malformed
  /\ flag' = task[t].probe
  /\ task' = [task EXCEPT ![t] = Idle]
  /\ UNCHANGED <<market, view, stream, rejected, pending, verdict, account, spike,
                 conduct>>

Approve(t) ==
  /\ task[t].phase = "approve"
  /\ verdict' = [verdict EXCEPT ![task[t].order] = "approved"]
  /\ task' = [task EXCEPT ![t] = Idle]
  /\ UNCHANGED <<market, flag, view, stream, rejected, pending, account, spike,
                 conduct>>

(* Fault: a rejection is counted and not published.                        *)
RejectFault(t) ==
  /\ task[t].phase = "reject"
  /\ rejected' = rejected + 1
  /\ task' = [task EXCEPT ![t] = Idle]
  /\ UNCHANGED <<market, flag, view, stream, pending, verdict, account, spike,
                 conduct>>

Reject(t) ==
  /\ task[t].phase = "reject"
  /\ verdict' = [verdict EXCEPT ![task[t].order] = "rejected"]
  /\ rejected' = rejected + 1
  /\ task' = [task EXCEPT ![t] = Idle]
  /\ UNCHANGED <<market, flag, view, stream, pending, account, spike, conduct>>

-----------------------------------------------------------------------------
TakeRejection(t) ==
  /\ task[t].phase = "idle"
  /\ \/ /\ t = "rejects" /\ rejected > 0
        /\ rejected' = rejected - 1 /\ UNCHANGED pending
     \/ t = "replay" /\ TakePending(Rejection) /\ UNCHANGED rejected

(* The window loses its first entries as long as they are too old; the one *)
(* just appended is not.                                                   *)
Recent(w) ==
  LET first == CHOOSE i \in DOMAIN w :
                 /\ w[i] >= clock - Window
                 /\ \A j \in 1..(i - 1) : w[j] < clock - Window
  IN  SubSeq(w, first, Len(w))

(* An alert is due if the window is full and the last one is a window ago. *)
Due(w) == Len(w) >= Threshold /\ clock - lastAlert >= Window

(* track_rejection, up to its publish.                                     *)
TrackRejection(t) ==
  /\ TakeRejection(t)
  /\ window' = Recent(Append(window, clock))
  /\ task' = [task EXCEPT ![t] =
                IF Due(window') THEN [Idle EXCEPT !.phase = "alert", !.at = clock]
                                ELSE Idle]
  /\ UNCHANGED <<market, flag, view, stream, verdict, account, clock, lastAlert,
                 alerts, conduct>>

(* Fault: the time of the alert is not noted.                              *)
AlertFault(t) ==
  /\ task[t].phase = "alert"
  /\ alerts' = Append(alerts, [at |-> task[t].at, noted |-> TRUE])
  /\ task' = [task EXCEPT ![t] = Idle]
  /\ UNCHANGED <<market, flag, view, stream, rejected, pending, verdict, account,
                 clock, window, lastAlert, conduct>>

(* Only when the publish has returned is the time of the alert noted.      *)
Alert(t) ==
  /\ task[t].phase = "alert"
  /\ alerts' = Append(alerts, [at |-> task[t].at, noted |-> TRUE])
  /\ lastAlert' = task[t].at
  /\ task' = [task EXCEPT ![t] = Idle]
  /\ UNCHANGED <<market, flag, view, stream, rejected, pending, verdict, account,
                 clock, window, conduct>>

(* The alert is in the stream, but its reply is lost: publish raises, and  *)
(* its time is not noted.                                                  *)
AlertReplyLost(t) ==
  /\ conduct.fails /\ task[t].phase = "alert"
  /\ alerts' = Append(alerts, [at |-> task[t].at, noted |-> FALSE])
  /\ task' = [task EXCEPT ![t] = Idle]
  /\ UNCHANGED <<market, flag, view, stream, rejected, pending, verdict, account,
                 clock, window, lastAlert, conduct>>

(* The probe or a publish raises: the handler ends there, and the entry    *)
(* stays pending with its key set.  If it was the reply to a verdict that  *)
(* was lost, the step is Approve or Reject: they differ only in the ack.   *)
RedisCallRaises(t) ==
  /\ conduct.fails /\ task[t].phase \in {"probe", "approve", "reject", "alert"}
  /\ task' = [task EXCEPT ![t] = Idle]
  /\ UNCHANGED <<market, flag, view, stream, rejected, pending, verdict, account,
                 spike, conduct>>

Tick ==
  /\ clock < MaxClock /\ clock' = clock + 1
  /\ UNCHANGED <<market, flag, view, stream, rejected, pending, verdict, task,
                 account, window, lastAlert, alerts, conduct>>

HandleOrder(t) ==
  \/ \E o \in Orders : BeginOrder(t, o)
  \/ ProbeKillSwitch(t) \/ Check(t) \/ CheckRaises(t) \/ Approve(t) \/ Reject(t)

TrackRejections(t) == TrackRejection(t) \/ Alert(t)

Next ==
  \/ \E t \in OrderTasks : HandleOrder(t)
  \/ \E t \in RejectTasks : TrackRejections(t)
  \/ \E t \in RejectTasks : AlertReplyLost(t)
  \/ \E t \in Tasks : RedisCallRaises(t)
  \/ SkipDuplicate
  \/ \E o \in Orders : SendOrder(o) \/ VenueFills(o)
  \/ \E p \in Prices : HandleMarketPrice(p)
  \/ \E v \in Vols : HandleMarketVol(v)
  \/ \E m \in Margins : HandleMarginUpdate(m)
  \/ HandlePositionUpdate \/ ToggleKillSwitch \/ Tick

Spec == Init /\ [][Next]_vars

(* The event loop runs every task, and no handler blocks it.               *)
FairSpec ==
  /\ Spec
  /\ \A t \in OrderTasks : WF_vars(HandleOrder(t))
  /\ \A t \in RejectTasks : WF_vars(TrackRejections(t))
  /\ WF_vars(SkipDuplicate)

-----------------------------------------------------------------------------
(* An order whose handling began with the kill switch set, and left set,   *)
(* is not approved: the reply of EXISTS that a task waits for cannot be    *)
(* overtaken by the one of the other task, although both share the flag    *)
(* ("The risk gate checks it on every order evaluation",                   *)
(* oms_emsx_spec.md:193).                                                  *)
KillSwitchHolds ==
  \A t \in OrderTasks : task[t].phase = "approve" => ~task[t].blocked

(* What the account held at the start and nobody tells the gate: its view  *)
(* starts empty (risk_gate.py:63-68) and an absent position is 0 (:171).   *)
Untold == IF conduct.told THEN 0 ELSE Abs(conduct.held)

(* If each order waits for the position report of the one before, and      *)
(* nothing is left pending by an earlier life, the orders keep the true    *)
(* position within the limit -- a restarted gate only within the limit and *)
(* what it was not told.  Without the wait not even that: two orders are   *)
(* checked against the same report.                                        *)
PositionWithinLimitSpaced ==
  conduct.spaced /\ conduct.backlog = <<>>
    => filled = {} \/ Abs(actual) <= MaxPosition + Untold

NoRejectionLeft ==
  \A i \in DOMAIN conduct.backlog :
    conduct.backlog[i].what = Rejection => conduct.backlog[i].marked

(* A spike is announced, and once ("Throttle: at most one alert per        *)
(* window", risk_gate.py:240): an alert is followed by another in its      *)
(* window only if the reply to its publish was lost, as long as the replay *)
(* has no rejection to count, for two tasks can pass the test before       *)
(* either notes its alert; and when no publish fails and none is on its    *)
(* way, the last rejection of a full window follows an alert by less than  *)
(* a window.                                                               *)
SpikesAnnouncedOnce ==
  /\ NoRejectionLeft =>
       \A i, j \in DOMAIN alerts :
         i < j /\ alerts[i].noted => alerts[j].at - alerts[i].at >= Window
  /\ /\ ~conduct.fails
     /\ \A t \in RejectTasks : task[t].phase # "alert"
     /\ Len(window) >= Threshold
     => \E i \in DOMAIN alerts : window[Len(window)] - alerts[i].at < Window

(* The gate owes o a verdict: it waits in the stream or in a task, or an   *)
(* earlier life left it pending and its key is gone.                       *)
Owed(o) ==
  \/ \E i \in DOMAIN stream : stream[i] = o
  \/ \E i \in DOMAIN pending : pending[i] = [what |-> o, marked |-> FALSE]
  \/ \E t \in Tasks : task[t].order = o

(* Every well-formed order sent gets its verdict if Redis answers, and so  *)
(* does one left pending unless its key is still set: then the replay      *)
(* skips it, although "PEL keeps the message for retry on restart"         *)
(* (base_module.py:163).                                                   *)
EveryOrderDecided ==
  \A o \in Orders :
    ~conduct.fails /\ o \notin conduct.malformed /\ Owed(o) ~> verdict[o] # "none"

=============================================================================
