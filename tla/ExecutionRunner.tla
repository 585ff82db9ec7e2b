--------------------------- MODULE ExecutionRunner ---------------------------
(***************************************************************************)
(* The execution service of futures_emsx_strategy: the part of             *)
(* app/run_execution.py that is the same whichever adapter sits below it.  *)
(* A TARGETS message becomes at most one order intent (order_manager.py),  *)
(* passes the pre-trade checks, is claimed in SQLite, registered in the    *)
(* working book, and handed to the adapter.  Updates and fills come back   *)
(* through callbacks, on whichever thread the adapter calls them.          *)
(* PaperExecution and EMSXExecution extend this module with an adapter.    *)
(*                                                                         *)
(* The bus, the event log and SQLite are called in the middle of these     *)
(* handlers, and each of the calls may raise.  The exception leaves        *)
(* on_target, or the callback and whatever called it; the bus thread and   *)
(* the adapter's thread catch it and go on with the next message.          *)
(*                                                                         *)
(* One instrument and one strategy: the books are keyed by instrument and  *)
(* nothing crosses from one instrument to another.  Of the lifecycle only  *)
(* the set of its orders is kept: the statuses in it are written and never *)
(* read again.                                                             *)
(***************************************************************************)
EXTENDS Integers, Sequences, FiniteSetsExt

CONSTANTS
  MaxBar,         \* bars the strategy emits a target for
  Targets,        \* target quantities the strategy may emit (signed)
  MaxOrderQty,    \* risk_limits.max_order_qty
  MaxPosition,    \* risk_limits.max_position
  MaxDeliveries,  \* bound: TARGETS messages handled, redeliveries included
  MaxCrashes,     \* bound: crashes of the service
  MaxRaises,      \* bound: calls that raise
  Threads         \* {"bus"}, or {"bus", "subs"} when the adapter has its own

ASSUME RunnerAssumption ==
  /\ MaxBar \in Nat \ {0}
  /\ Targets \subseteq Int
  /\ MaxOrderQty \in Nat /\ MaxPosition \in Nat
  /\ MaxDeliveries \in Nat /\ MaxCrashes \in Nat /\ MaxRaises \in Nat
  /\ "bus" \in Threads

VARIABLES
  targetOf,    \* the target the strategy computed for each bar
  offset,      \* next bar the bus will deliver
  deliveries,  \* TARGETS messages delivered so far
  crashes,     \* crashes so far
  raises,      \* calls that raised so far
  position,    \* PositionBook: net quantity
  working,     \* WorkingOrderBook: leaves of each open order, by key
  registered,  \* OrderLifecycle: the keys of its records
  claimed,     \* table submitted_intents (durable)
  dbFills,     \* table fills, in insertion order (durable)
  dbPosition,  \* table positions (durable)
  unstored,    \* history: the fills booked whose insert into fills raised
  pc,          \* what each thread does next
  decision,    \* on_target's locals: the bar, and the position read for it
  intent,      \* on_target's local: the intent being processed
  accepted,    \* on_target's local: ack.accepted
  readPos      \* on_fill's local: the position read before the upsert

durable    == <<claimed, dbFills, dbPosition, unstored>>
books      == <<position, working, registered>>
feed       == <<targetOf, offset, deliveries, crashes, raises>>
locals     == <<decision, intent, accepted, readPos>>
runnerVars == <<feed, books, durable, pc, locals>>

Abs(n)  == IF n < 0 THEN -n ELSE n
Side    == {1, -1}                     \* Side.sign
Key     == [bar : 1..MaxBar, side : Side, qty : Nat \ {0}]
NoKey   == [bar |-> 0, side |-> 1, qty |-> 0]
FirstDecision == [bar |-> 1, current |-> 0]

Terminal == {"FILLED", "CANCELLED", "REJECTED", "ROUTE_ERR"}

Put(f, k, v)    == [x \in DOMAIN f \cup {k} |-> IF x = k THEN v ELSE f[x]]
EmptyBook       == [x \in {} |-> 0]

(* Operators named ...Fault below are faulty variants of the one that      *)
(* follows them: the properties must fail when they are put in its place.  *)

(* Fault: an order with nothing left stays in the book.                    *)
UpsertFault(book, k, leaves, status) ==
  IF leaves < 0 THEN Restrict(book, DOMAIN book \ {k}) ELSE Put(book, k, leaves)

(* WorkingOrderBook.upsert: a terminal status or nothing left removes the  *)
(* order; anything else (re)inserts it, whatever was known of it before.   *)
Upsert(book, k, leaves, status) ==
  IF status \in Terminal \/ leaves <= 0
    THEN Restrict(book, DOMAIN book \ {k})
    ELSE Put(book, k, leaves)

NetWorking == MapThenSumSet(LAMBDA k : k.side * working[k], DOMAIN working)

Goto(t, phase) == pc' = [pc EXCEPT ![t] = phase]

-----------------------------------------------------------------------------
RunnerInit ==
  /\ targetOf \in [1..MaxBar -> Targets]
  /\ offset = 1 /\ deliveries = 0 /\ crashes = 0 /\ raises = 0
  /\ position = 0 /\ working = EmptyBook /\ registered = {}
  /\ claimed = {} /\ dbFills = <<>> /\ dbPosition = 0 /\ unstored = {}
  /\ pc = [t \in Threads |-> "idle"]
  /\ decision = FirstDecision /\ intent = NoKey /\ accepted = FALSE
  /\ readPos = [t \in Threads |-> 0]

(* The bus hands the next target over; it is at-least-once, so the same    *)
(* message may come again.  OrderManager.on_target reads the position ...  *)
OnTarget ==
  /\ pc["bus"] = "idle"
  /\ offset <= MaxBar /\ deliveries < MaxDeliveries
  /\ deliveries' = deliveries + 1
  /\ offset' \in {offset, offset + 1}
  /\ decision' = [bar |-> offset, current |-> position]
  /\ Goto("bus", "working")
  /\ UNCHANGED <<targetOf, crashes, raises, books, durable, intent, accepted, readPos>>

(* Fault: the position is left out of the delta.                           *)
DeltaPositionFault == targetOf[decision.bar] - NetWorking

(* ... and, under another lock, the working orders.  The key is a hash of  *)
(* bar, side and quantity, here the triple itself.  max_clip is not set by *)
(* build_services, so a target makes at most one intent.                   *)
Delta   == targetOf[decision.bar] - decision.current - NetWorking
KeyOf   == [bar  |-> decision.bar,
            side |-> IF Delta > 0 THEN 1 ELSE -1,
            qty  |-> Abs(Delta)]
Seen(k) == k \in claimed

(* The claims are read here too: no other thread makes any.                *)
ReadWorking ==
  /\ pc["bus"] = "working"
  /\ IF Delta = 0 \/ Seen(KeyOf)
       THEN Goto("bus", "idle") /\ UNCHANGED intent
       ELSE Goto("bus", "validate") /\ intent' = KeyOf
  /\ UNCHANGED <<feed, books, durable, decision, accepted, readPos>>

(* Fault: the limit is checked on the position before the order.           *)
ApprovedFault(k, otherChecks) ==
  k.qty <= MaxOrderQty /\ Abs(position) <= MaxPosition /\ otherChecks

(* PreTradeRiskGateway.validate: quantity and projected position, from the *)
(* current position only.  otherChecks stands for the checks whose inputs  *)
(* are not part of this state: kill switch, notional, session, stale data, *)
(* rate limit.  What on_target publishes and stores of the intent and of   *)
(* the verdict may raise, which ends on_target as a rejection does.        *)
Approved(k, otherChecks) ==
  /\ k.qty <= MaxOrderQty
  /\ Abs(position + k.side * k.qty) <= MaxPosition
  /\ otherChecks

Validate ==
  /\ pc["bus"] = "validate"
  /\ \E otherChecks \in BOOLEAN :
       Goto("bus", IF Approved(intent, otherChecks) THEN "claim" ELSE "idle")
  /\ UNCHANGED <<feed, books, durable, locals>>

(* SqliteIdempotencyBackend.claim: INSERT OR IGNORE, true iff this call    *)
(* inserted the row.                                                       *)
ClaimWins(k) == k \notin claimed

(* Fault: the claim is not committed.                                      *)
ClaimAndRegisterFault ==
  /\ pc["bus"] = "claim"
  /\ IF ClaimWins(intent)
       THEN /\ working' = Upsert(working, intent, intent.qty, "NEW")
            /\ registered' = registered \cup {intent}
            /\ Goto("bus", "submit")
       ELSE /\ Goto("bus", "idle")
            /\ UNCHANGED <<working, registered>>
  /\ UNCHANGED <<feed, position, durable, locals>>

(* Claim, then pre-register the order in the working book and the          *)
(* lifecycle.  Nothing else can see the order until it reaches the venue.  *)
ClaimAndRegister ==
  /\ pc["bus"] = "claim"
  /\ IF ClaimWins(intent)
       THEN /\ claimed' = claimed \cup {intent}
            /\ working' = Upsert(working, intent, intent.qty, "NEW")
            /\ registered' = registered \cup {intent}
            /\ Goto("bus", "submit")
       ELSE /\ Goto("bus", "idle")
            /\ UNCHANGED <<claimed, working, registered>>
  /\ UNCHANGED <<feed, position, dbFills, dbPosition, unstored, locals>>

(* After submit_order returned: a refused order leaves the working book;   *)
(* an accepted one is in the hands of the callbacks.                       *)
Finish ==
  /\ pc["bus"] = "finish"
  /\ Goto("bus", "idle")
  /\ working' = IF accepted THEN working ELSE Upsert(working, intent, 0, "REJECTED")
  /\ UNCHANGED <<feed, position, registered, durable, locals>>

(* A call raises.                                                          *)
Raise ==
  /\ raises < MaxRaises
  /\ raises' = raises + 1
  /\ UNCHANGED <<targetOf, offset, deliveries, crashes>>

(* Where on_target may be left by an exception: publishing and storing the *)
(* intent and the verdict, the claim, submit_order itself, the event log   *)
(* after it.  The callbacks of the adapter come on top.                    *)
OnTargetMayRaise == {"validate", "claim", "submit", "finish"}

-----------------------------------------------------------------------------
(* The runner's callbacks.  Each is a conjunct of the adapter step that    *)
(* calls it.                                                               *)

(* on_execution_update, when publish does not raise (it comes first, so    *)
(* nothing has changed when it does): the working book follows the update; *)
(* one for an order that is not in the lifecycle changes nothing.          *)
OnExecutionUpdate(k, status, leaves) ==
  working' = IF k \in registered THEN Upsert(working, k, leaves, status) ELSE working

(* on_fill, up to the upsert of the position, when publish does not raise  *)
(* (nothing has changed when it does): the books, then the fills table ... *)
OnFill(row, signedQty) ==
  /\ position' = position + signedQty
  /\ dbFills' = Append(dbFills, row)
  /\ UNCHANGED unstored

(* ... or fill_repo.insert raises, with the books changed already.         *)
OnFillUnstored(row, signedQty) ==
  /\ position' = position + signedQty
  /\ unstored' = unstored \cup {row}
  /\ UNCHANGED dbFills

(* After the insert: the position is read back from the book ...           *)
ReadPosition(t) ==
  /\ pc[t] = "read"
  /\ readPos' = [readPos EXCEPT ![t] = position]
  /\ Goto(t, "write")
  /\ UNCHANGED <<feed, books, durable, decision, intent, accepted>>

(* Fault: the position is not persisted.                                   *)
WritePositionFault(t, next) ==
  /\ pc[t] = "write"
  /\ Goto(t, next)
  /\ UNCHANGED <<feed, books, durable, locals>>

(* ... and upserted into the positions table, unless that raises.          *)
WritePosition(t, next) ==
  /\ pc[t] = "write"
  /\ dbPosition' = readPos[t]
  /\ Goto(t, next)
  /\ UNCHANGED <<feed, books, claimed, dbFills, unstored, locals>>

(* The process dies and is started again: build_services restores the      *)
(* positions from the table; the working book and the lifecycle start      *)
(* empty.  The bus resumes at the last committed offset, which may lie     *)
(* before messages already handled.                                        *)
Restart ==
  /\ crashes < MaxCrashes
  /\ crashes' = crashes + 1
  /\ offset' \in 1..offset
  /\ position' = dbPosition
  /\ working' = EmptyBook /\ registered' = {}
  /\ pc' = [t \in Threads |-> "idle"]
  /\ decision' = FirstDecision /\ intent' = NoKey /\ accepted' = FALSE
  /\ readPos' = [t \in Threads |-> 0]
  /\ UNCHANGED <<targetOf, deliveries, raises, durable>>

=============================================================================
