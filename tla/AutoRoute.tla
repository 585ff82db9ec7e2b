------------------------------- MODULE AutoRoute -------------------------------
(***************************************************************************)
(* A whole trading session in one process over the in-memory bus: market   *)
(* data, strategy, orders and fills as four programs wire them, each with  *)
(* its own copy of the handlers.  "local" is app/run_all_local.py; the     *)
(* others are examples: "paper" 08_pipeline_paper_live.py, "stage"         *)
(* 09_pipeline_emsx_stage.py, "route" 10_pipeline_emsx_auto_route.py.  A   *)
(* bar is handled on the thread that emits it, from MinuteBarBuilder._emit *)
(* down to submit_order.  "md" is the thread of the ticks.  In the         *)
(* examples "main", which waits for the deadline or for enough fills and   *)
(* then flushes the open bar, handles that bar too.  Updates and fills     *)
(* come from EMSX on a third thread, "subs"; the paper adapter calls back  *)
(* on the thread that submits, before submit_order returns.                *)
(*                                                                         *)
(* EMSX and the traders who route what is staged there are external, and   *)
(* an order's events come here once submit_order has mapped it: those that *)
(* come before, which the submitting thread replays, are the subject of    *)
(* EMSXExecution.  A bar is named by its minute; the tick clock is also    *)
(* the clock of the rate limiter.                                          *)
(***************************************************************************)
EXTENDS Portfolio, Sequences, FiniteSets, FiniteSetsExt, Functions

CONSTANTS
  MaxMinute,       \* bound: minutes of the session
  MaxRate, Window, \* order rate limit
  None,            \* no bar, no target yet
  Conducts         \* see conduct

ASSUME SessionAssumption ==
  MaxMinute \in Nat \ {0} /\ MaxRate \in Nat /\ Window \in Nat

ASSUME ConductAssumption ==
  None \notin Int /\ \A c \in Conducts : c.targets \subseteq Int /\ c.prices \subseteq Int

Handlers == {"md", "main"}
Threads  == Handlers \cup {"subs"}
Minutes  == 1..MaxMinute
NoKey    == [bar |-> 0, side |-> 1, qty |-> 0]

VARIABLES
  minute,  \* of the last tick
  openBar, \* _open_bars of the instrument
  chosen,  \* the target the strategy first chose for a bar
  task,    \* what each handler thread is doing
  main,    \* main(): "wait", "flush", "close", "ended"
  working, \* WorkingOrderBook: leaves by key
  claimed, \* table submitted_intents
  tokens,  \* _events of the rate limiter
  orders,  \* EMSX: leaves of each order it accepted
  known,   \* orders whose events this process can place
  news,    \* their fills on the way
  call,    \* the fill each thread is called back for: phase and content
  fills,   \* fill_count
  tripped, \* the kill switch
  past,    \* history: handlers past their checks at the trip
  late,    \* history: orders sent after the trip
  sent,    \* history: calls of submit_order for each bar
  ended,   \* history: a process ended
  conduct  \* never changes; app; targets, quantity limit and position limit;
           \* maxFills: --max-fills; prices of fills; steady: a bar emitted
           \* twice has the same target; spaced: targets are computed while
           \* no callback is under way, and main has handled its bar before md
           \* closes the next; refuses: checks outside this state and
           \* EMSX may refuse, submit_order raise, or a live tick lack its
           \* last price; stops: there is a deadline or a signal; crashes;
           \* restarts; audited: there is a reconciler

session == <<minute, openBar, chosen, task, main, known>>
risk    == <<working, claimed, tokens, fills, tripped>>
venue   == <<orders, news, call>>
history == <<past, late, sent, ended>>
vars    == <<books, session, risk, venue, history, conduct>>

Idle  == [phase |-> "idle", bar |-> 0, key |-> NoKey, now |-> 0]
NoFill == [phase |-> "idle", key |-> NoKey, qty |-> 0, price |-> 0, leaves |-> 0,
           row |-> Flat]
NoCall == [t \in Threads |-> NoFill]
Empty == [k \in {} |-> 0]

Init ==
  /\ PortfolioInit /\ conduct \in Conducts
  /\ minute = 1 /\ openBar = None /\ chosen = [b \in Minutes |-> None]
  /\ task = [t \in Handlers |-> Idle] /\ main = "wait"
  /\ working = Empty /\ claimed = {} /\ tokens = <<>>
  /\ orders = Empty /\ known = {} /\ news = <<>> /\ call = NoCall
  /\ fills = 0 /\ tripped = FALSE
  /\ past = 0 /\ late = 0 /\ sent = [b \in Minutes |-> 0] /\ ended = FALSE

Running == main # "ended"
Alone   == conduct.app = "local"  \* one thread

(* WorkingOrderBook.upsert                                                 *)
Upsert(k, leaves) ==
  IF leaves <= 0 THEN Restrict(working, DOMAIN working \ {k})
  ELSE [x \in DOMAIN working \cup {k} |-> IF x = k THEN leaves ELSE working[x]]
NetWorking == MapThenSumSet(LAMBDA k : k.side * working[k], DOMAIN working)

-----------------------------------------------------------------------------
(* MinuteBarBuilder.on_tick on the md thread: the open bar is read, and    *)
(* stays in the table while a bar that it closes is handled.               *)
OnTick(m) ==
  /\ Running /\ task["md"].phase = "idle"
  /\ Alone => main = "wait"
  /\ m \in {minute, minute + 1} \cap Minutes /\ minute' = m
  /\ IF openBar # None /\ openBar < m
       THEN /\ conduct.spaced => task["main"] = Idle
            /\ task' = [task EXCEPT !["md"] = [Idle EXCEPT !.phase = "bar", !.bar = openBar]]
            /\ UNCHANGED openBar
       ELSE /\ openBar' = IF openBar = None THEN m ELSE openBar
            /\ UNCHANGED task
  /\ UNCHANGED <<books, chosen, main, known, risk, venue, history, conduct>>

(* The end of a handler: md opens the bar of its tick, main stops.         *)
Finish(t) ==
  /\ task' = [task EXCEPT ![t] = Idle]
  /\ openBar' = IF t = "md" THEN minute ELSE openBar
  /\ main' = IF t = "main" THEN "close" ELSE main

(* main of an example: the deadline, or enough fills.  The open bar is     *)
(* taken out of the table and handled, even while md handles the same one. *)
(* run_all_local drives the ticks itself and leaves between two.           *)
StopWaiting ==
  /\ main = "wait"
  /\ \/ /\ ~Alone
        /\ conduct.stops \/ (conduct.app = "route" /\ fills >= conduct.maxFills)
        /\ IF openBar # None
             THEN /\ main' = "flush" /\ openBar' = None
                  /\ task' = [task EXCEPT !["main"] = [Idle EXCEPT !.phase = "bar", !.bar = openBar]]
             ELSE main' = "close" /\ UNCHANGED <<openBar, task>>
     \/ /\ Alone /\ conduct.stops /\ task["md"].phase = "idle"
        /\ main' = "close" /\ UNCHANGED <<openBar, task>>
  /\ UNCHANGED <<books, minute, chosen, known, risk, venue, history, conduct>>

-----------------------------------------------------------------------------
(* The strategy's target for a bar; the averages move once more when the   *)
(* bar comes again, so that the target may be another.                     *)
TargetsFor(b) ==
  IF conduct.steady /\ chosen[b] # None THEN {chosen[b]} ELSE conduct.targets

(* on_bar and on_target, up to the checks.  Example 10 looks at the kill   *)
(* switch first.                                                           *)
OnTarget(t) ==
  /\ Running /\ task[t].phase = "bar"
  /\ conduct.spaced => call = NoCall
  /\ \E target \in TargetsFor(task[t].bar) :
       LET delta == target - book.qty - NetWorking
           key   == [bar |-> task[t].bar, side |-> IF delta > 0 THEN 1 ELSE -1,
                     qty |-> Magnitude(delta)]
       IN  /\ chosen' = [chosen EXCEPT ![task[t].bar] = target]
           /\ IF (conduct.app = "route" /\ tripped) \/ delta = 0 \/ key \in claimed
                THEN Finish(t)
                ELSE /\ task' = [task EXCEPT ![t].phase = "validate", ![t].key = key]
                     /\ UNCHANGED <<openBar, main>>
  /\ UNCHANGED <<books, minute, known, risk, venue, history, conduct>>

(* Fault: only on_target looks at the kill switch.                         *)
PassesChecksFault(k) ==
  /\ k.qty <= conduct.maxQty
  /\ Magnitude(book.qty + k.side * k.qty) <= conduct.maxPosition

(* PreTradeRiskGateway.validate, up to the rate limit.  Session, notional  *)
(* and stale data are not part of this state.                              *)
PassesChecks(k) ==
  /\ ~tripped
  /\ k.qty <= conduct.maxQty
  /\ Magnitude(book.qty + k.side * k.qty) <= conduct.maxPosition

Validate(t) ==
  /\ Running /\ task[t].phase = "validate"
  /\ \/ /\ PassesChecks(task[t].key)
        /\ task' = [task EXCEPT ![t].phase = "rate", ![t].now = minute]
        /\ UNCHANGED <<openBar, main>>
     \/ ~PassesChecks(task[t].key) /\ Finish(t)
     \/ conduct.refuses /\ Finish(t)
  /\ UNCHANGED <<books, minute, chosen, known, risk, venue, history, conduct>>

(* RateLimiter: the clock has been read before the lock was taken, so that *)
(* the times need not come in order; what is too old at the head goes.     *)
Evict(now) ==
  LET fresh == {i \in DOMAIN tokens : tokens[i] >= now - Window}
  IN  IF fresh = {} THEN <<>> ELSE SubSeq(tokens, Min(fresh), Len(tokens))

TryAcquire(t) ==
  /\ Running /\ task[t].phase = "rate"
  /\ LET recent == Evict(task[t].now)
     IN  IF Len(recent) >= MaxRate
           THEN tokens' = recent /\ Finish(t)
           ELSE /\ tokens' = Append(recent, task[t].now)
                /\ task' = [task EXCEPT ![t].phase = "claim"]
                /\ UNCHANGED <<openBar, main>>
  /\ UNCHANGED <<books, minute, chosen, known, working, claimed, fills, tripped,
                 venue, history, conduct>>

(* Fault: the key is looked up and stored, not claimed.                    *)
ClaimFault(t) ==
  /\ Running /\ task[t].phase = "claim"
  /\ claimed' = claimed \cup {task[t].key}
  /\ task' = [task EXCEPT ![t].phase = "register"]
  /\ UNCHANGED <<openBar, main>>
  /\ UNCHANGED <<books, minute, chosen, known, working, tokens, fills, tripped,
                 venue, history, conduct>>

Claim(t) ==
  /\ Running /\ task[t].phase = "claim"
  /\ IF task[t].key \in claimed
       THEN Finish(t) /\ UNCHANGED claimed
       ELSE /\ claimed' = claimed \cup {task[t].key}
            /\ task' = [task EXCEPT ![t].phase = "register"]
            /\ UNCHANGED <<openBar, main>>
  /\ UNCHANGED <<books, minute, chosen, known, working, tokens, fills, tripped,
                 venue, history, conduct>>

Register(t) ==
  /\ Running /\ task[t].phase = "register"
  /\ working' = Upsert(task[t].key, task[t].key.qty)
  /\ task' = [task EXCEPT ![t].phase = "submit"]
  /\ UNCHANGED <<books, minute, openBar, chosen, main, known, claimed, tokens, fills,
                 tripped, venue, history, conduct>>

CallSubmit(t) ==
  /\ Running /\ task[t].phase = "submit"
  /\ sent' = [sent EXCEPT ![task[t].bar] = @ + 1]
  /\ late' = IF tripped THEN late + 1 ELSE late

(* submit_order: EMSX takes the order ...                                  *)
Submit(t) ==
  LET k == task[t].key IN
  /\ CallSubmit(t) /\ Finish(t)
  /\ orders' = [x \in DOMAIN orders \cup {k} |-> IF x = k THEN k.qty ELSE orders[x]]
  /\ known' = known \cup {k}
  /\ UNCHANGED <<books, minute, chosen, risk, news, call, past, ended, conduct>>

(* ... or refuses it, or the call raises: either way the examples leave it *)
(* in the working book.                                                    *)
SubmitFails(t) ==
  /\ conduct.refuses /\ CallSubmit(t) /\ Finish(t)
  /\ UNCHANGED <<books, minute, chosen, known, risk, venue, past, ended, conduct>>

(* The paper adapter fills it at the mark and calls back: SENT, which      *)
(* changes nothing here, the fill, and FILLED.                             *)
SubmitPaper(t) ==
  LET k == task[t].key IN
  /\ CallSubmit(t)
  /\ broker' = broker + k.side * k.qty
  /\ \E price \in conduct.prices :
       call' = [call EXCEPT ![t] = [NoFill EXCEPT !.phase = "fill", !.key = k,
                                                  !.qty = k.qty, !.price = price]]
  /\ task' = [task EXCEPT ![t].phase = "callback"]
  /\ UNCHANGED <<book, pnl, stored, traded, statement, auditor, minute, openBar, chosen, main,
                 known, risk, orders, news, past, ended, conduct>>

(* Without a mark (the last tick had only a bid and an ask) it calls back  *)
(* REJECTED, and the order leaves the working book.                        *)
SubmitUnmarked(t) ==
  /\ conduct.refuses /\ CallSubmit(t) /\ Finish(t)
  /\ working' = Upsert(task[t].key, 0)
  /\ UNCHANGED <<books, minute, chosen, known, claimed, tokens, fills, tripped, venue,
                 past, ended, conduct>>

PaperReturns(t) ==
  /\ Running /\ task[t].phase = "callback" /\ call[t].phase = "booked"
  /\ working' = Upsert(task[t].key, 0)
  /\ call' = [call EXCEPT ![t] = NoFill]
  /\ Finish(t)
  /\ UNCHANGED <<books, minute, chosen, known, claimed, tokens, fills, tripped,
                 orders, news, history, conduct>>

-----------------------------------------------------------------------------
(* The venue fills some of an order.  The events of an order of an earlier *)
(* process reach nobody.                                                   *)
VenueFills(k, q, price) ==
  /\ k \in DOMAIN orders /\ q \in 1..orders[k]
  /\ orders' = [orders EXCEPT ![k] = @ - q]
  /\ broker' = broker + k.side * q
  /\ news' = IF k \in known
               THEN Append(news, [NoFill EXCEPT !.phase = "fill", !.key = k, !.qty = q,
                                                 !.price = price, !.leaves = orders[k] - q])
               ELSE news
  /\ UNCHANGED <<book, pnl, stored, traded, statement, auditor, session, risk, call, history, conduct>>

(* on_update ...                                                           *)
SubsUpdate ==
  /\ Running /\ call["subs"].phase = "idle" /\ news # <<>>
  /\ call' = [call EXCEPT !["subs"] = Head(news)] /\ news' = Tail(news)
  /\ working' = Upsert(Head(news).key, Head(news).leaves)
  /\ UNCHANGED <<books, session, claimed, tokens, fills, tripped, orders, history, conduct>>

(* ... and on_fill.  It books the fill in one book and in the other, reads *)
(* cost and quantity back from the first, and stores them.                 *)
OnFill(t, phase, next) ==
  /\ Running /\ call[t].phase = phase
  /\ call' = [call EXCEPT ![t].phase = next]
  /\ UNCHANGED <<session, risk, orders, news, history, conduct>>

ReadBack(t, phase, next, row) ==
  /\ Running /\ call[t].phase = phase
  /\ call' = [call EXCEPT ![t].phase = next, ![t].row = row]
  /\ UNCHANGED <<books, session, risk, orders, news, history, conduct>>

Signed(t) == call[t].key.side * call[t].qty

Book(t) ==
  \/ OnFill(t, "fill", "pnl") /\ BookPosition(Signed(t), call[t].price)
  \/ OnFill(t, "pnl", "avg") /\ BookPnl(Signed(t), call[t].price)
  \/ ReadBack(t, "avg", "qty", [Flat EXCEPT !.avg = book.avg])
  \/ ReadBack(t, "qty", "store", [call[t].row EXCEPT !.qty = book.qty])
  \/ OnFill(t, "store", "booked") /\ Store(call[t].row)

FillDone ==
  /\ Running /\ call["subs"].phase = "booked"
  /\ call' = [call EXCEPT !["subs"] = NoFill]

StageDone ==
  /\ FillDone
  /\ UNCHANGED <<books, session, risk, orders, news, history, conduct>>

PastChecks == {t \in Handlers : task[t].phase \in {"rate", "claim", "register", "submit"}}

(* KillSwitch.trip                                                         *)
Trip == tripped' = TRUE /\ past' = IF tripped THEN past ELSE Cardinality(PastChecks)

(* Example 10 counts the fill, and pulls the switch.                       *)
Count ==
  /\ FillDone
  /\ fills' = fills + 1
  /\ IF fills' >= conduct.maxFills THEN Trip ELSE UNCHANGED <<tripped, past>>
  /\ UNCHANGED <<books, session, working, claimed, tokens, orders, news, late, sent,
                 ended, conduct>>

-----------------------------------------------------------------------------
(* main() stops adapter, feed and bus and ends; joins that time out leave  *)
(* the other threads wherever they are.  Or the process dies.              *)
End ==
  /\ main = "close" \/ (conduct.crashes /\ Running)
  /\ main' = "ended" /\ ended' = TRUE
  /\ UNCHANGED <<books, minute, openBar, chosen, task, known, risk, venue, past, late,
                 sent, conduct>>

(* Another process over the same database.                                 *)
Restart ==
  /\ main = "ended" /\ conduct.restarts /\ main' = "wait"
  /\ WarmRestart
  /\ minute' = minute /\ openBar' = None /\ task' = [t \in Handlers |-> Idle]
  /\ known' = {} /\ news' = <<>> /\ call' = NoCall
  /\ working' = Empty /\ tokens' = <<>> /\ fills' = 0 /\ tripped' = FALSE
  /\ past' = 0 /\ late' = 0
  /\ UNCHANGED <<chosen, claimed, orders, sent, ended, conduct>>

(* The handlers and callbacks of each program.                             *)
Decide(t) == OnTarget(t) \/ Validate(t) \/ TryAcquire(t) \/ Claim(t) \/ Register(t)

LocalHandler ==
  /\ conduct.app = "local"
  /\ Decide("md") \/ SubmitPaper("md") \/ PaperReturns("md")
LocalCallback == conduct.app = "local" /\ Book("md")

PaperHandler(t) ==
  /\ conduct.app = "paper"
  /\ Decide(t) \/ SubmitPaper(t) \/ SubmitUnmarked(t) \/ PaperReturns(t)
PaperCallback(t) == conduct.app = "paper" /\ Book(t)

StageHandler(t) == conduct.app = "stage" /\ (Decide(t) \/ Submit(t) \/ SubmitFails(t))
StageCallback   == conduct.app = "stage" /\ (SubsUpdate \/ Book("subs") \/ StageDone)

RouteHandler(t) == conduct.app = "route" /\ (Decide(t) \/ Submit(t) \/ SubmitFails(t))
RouteCallback   == conduct.app = "route" /\ (SubsUpdate \/ Book("subs") \/ Count)

Audit ==
  /\ conduct.audited /\ (WriteStatement \/ StartReconciler \/ Compare \/ StopReconciler)
  /\ UNCHANGED <<session, risk, venue, history, conduct>>

Next ==
  \/ \E m \in Minutes : OnTick(m)
  \/ LocalHandler \/ LocalCallback
  \/ \E t \in Handlers :
       PaperHandler(t) \/ PaperCallback(t) \/ StageHandler(t) \/ RouteHandler(t)
  \/ StageCallback \/ RouteCallback
  \/ \E k \in DOMAIN orders, q \in 1..conduct.maxQty, price \in conduct.prices : VenueFills(k, q, price)
  \/ StopWaiting \/ End \/ Restart \/ Audit

Spec == Init /\ [][Next]_vars

-----------------------------------------------------------------------------
(* Once the kill switch is tripped ("Tripping kill switch and stopping",   *)
(* 10_pipeline_emsx_auto_route.py:217) only the handlers that were past    *)
(* their checks still send an order: at most two.                          *)
TrippedStopsOrders == late <= past

(* A bar that md and main both emit makes one order: the loser of the race *)
(* finds the key claimed, or nothing left to do.  It takes a strategy that *)
(* does not change its mind, targets that are not computed while an update *)
(* or a fill is called back, a main that does not sleep over a bar, and    *)
(* the first process: another may build the bar of its minute again, over  *)
(* a position or a working book that lacks an order.                       *)
OneOrderPerBar ==
  conduct.steady /\ conduct.spaced /\ ~ended =>
    \A b \in Minutes : sent[b] <= 1

(* When nothing is on its way, the books of the first process agree with   *)
(* each other, with the table and with the broker.  If two threads call    *)
(* back ("paper"), only the quantities do, and the table need not.  A      *)
(* later process may lack what happened while nobody listened, and its     *)
(* profit starts from zero.                                                *)
BooksAgree ==
  Running /\ (\A t \in Threads : call[t].phase \in {"idle", "booked"}) =>
    /\ conduct.app # "paper" => stored = book
    /\ ~ended => book.qty = pnl.qty
    /\ ~ended /\ conduct.app # "paper" => book.avg = pnl.avg
    /\ ~ended /\ news = <<>> => book.qty = broker

(* A break reported against a statement that was the broker's position     *)
(* means that a fill came after the reconciler started (it never looks at  *)
(* the table again) or that the table lacks one, which is either still on  *)
(* its way or lost when a process ended.  Two threads that call back may   *)
(* also have stored their positions in the wrong order.  With no file, or  *)
(* an old one, a break need not mean anything.                             *)
BreakMeansMissingFill ==
  auditor.says = "break" /\ auditor.current =>
    \/ auditor.overtaken \/ ended \/ conduct.app = "paper"
    \/ news # <<>> \/ \E t \in Threads : call[t].phase \notin {"idle", "booked"}

=============================================================================
