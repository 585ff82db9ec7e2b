---------------------------- MODULE EMSXExecution ----------------------------
(***************************************************************************)
(* The execution service over execution/emsx_adapter.py.  Two threads of   *)
(* the service meet here: the bus thread is inside submit_order, waiting   *)
(* for the venue's response and then replaying what was buffered, while    *)
(* the "emsx-subs" thread takes the venue's events off the subscription    *)
(* one by one, buffers those of orders it does not know yet and dispatches *)
(* the others.  What a callback raises is logged by the caller of the      *)
(* thread and the message is not looked at again.  The venue (EMSX) is     *)
(* external: it answers requests, works the orders and writes its events   *)
(* to one subscription stream.  EMSXStateMachine is left out: the adapter  *)
(* tells it of every update and asks it nothing.                           *)
(***************************************************************************)
EXTENDS ExecutionRunner

Topics == {"route", "order"}

CONSTANTS
  MaxOrders,     \* bound: orders the venue accepts
  Conducts       \* what the venue and the strategy may be like, see conduct

ASSUME EMSXAssumption ==
  /\ MaxOrders \in Nat
  /\ Conducts \subseteq [early : BOOLEAN, spaced : BOOLEAN, topics : SUBSET Topics]
  /\ Threads = {"bus", "subs"}

VARIABLES
  orders,     \* venue: its orders; an index is an EMSX_SEQUENCE
  stream,     \* venue: the events published so far, in order
  request,    \* the request on its way to the venue, NoKey when none
  response,   \* the response on its way back: a sequence number, 0 for
              \* EMSX_STATUS "ERROR", -1 when there is none
  cursor,     \* events of the stream the subs thread has taken
  job,        \* subs thread: the event in hand, 0 when none
  seqToClient,    \* adapter: EMSX_SEQUENCE -> client order id
  pendingUpdates, \* adapter: events buffered for each unknown sequence
  pendingFills,   \* adapter: those of them that carry a fill
  replayUpdates,  \* submit_order's local: buffered updates left to replay
  replayFills,    \* submit_order's local: buffered fills left to replay
  lost,           \* history: the events whose fill was given up when a call
                  \* raised, unbooked
  conduct         \* never changes; early: the venue may publish before the
                  \* response was handled; spaced: targets come only when
                  \* everything has settled and no order is open; topics:
                  \* those subscribed

venue    == <<orders, stream, request, conduct>>
replays  == <<replayUpdates, replayFills>>
buffers  == <<pendingUpdates, pendingFills>>
adapter  == <<seqToClient, buffers, replays>>
subs     == <<cursor, job>>
vars     == <<runnerVars, venue, response, subs, adapter, lost>>

Seqs      == 1..MaxOrders
NoBuffer  == [s \in Seqs |-> <<>>]

-----------------------------------------------------------------------------
Init ==
  /\ RunnerInit
  /\ orders = <<>> /\ stream = <<>> /\ request = NoKey /\ response = -1
  /\ cursor = 0 /\ job = 0
  /\ seqToClient = EmptyBook
  /\ pendingUpdates = NoBuffer /\ pendingFills = NoBuffer
  /\ replayUpdates = <<>> /\ replayFills = <<>>
  /\ lost = {}
  /\ conduct \in Conducts

(* Nothing is on its way and no thread of the service has work in hand.    *)
Settled ==
  /\ \A t \in Threads : pc[t] = "idle"
  /\ cursor = Len(stream) /\ request = NoKey

NothingOpen == \A s \in DOMAIN orders : orders[s].leaves = 0

TargetArrives ==
  /\ conduct.spaced => Settled /\ NothingOpen
  /\ OnTarget
  /\ UNCHANGED <<venue, response, subs, adapter, lost>>

RunnerStep ==
  /\ ReadWorking \/ Validate \/ ClaimAndRegister \/ Finish
  /\ UNCHANGED <<venue, response, subs, adapter, lost>>

(* EMSXRequests._send: the request leaves and the bus thread waits.        *)
SendRequest ==
  /\ pc["bus"] = "submit"
  /\ request = NoKey /\ Len(orders) < MaxOrders
  /\ request' = intent
  /\ Goto("bus", "await")
  /\ UNCHANGED <<feed, books, durable, locals, orders, stream, conduct, response,
                 subs, adapter, lost>>

(* submit_order after the response: a refused order goes straight to the   *)
(* runner; an accepted one is mapped and its buffers are taken, under the  *)
(* lock.                                                                   *)
HandleResponse ==
  /\ pc["bus"] = "await" /\ response # -1
  /\ response' = -1
  /\ accepted' = (response # 0)
  /\ IF response = 0
       THEN /\ Goto("bus", "finish")
            /\ UNCHANGED <<seqToClient, buffers, replays>>
       ELSE /\ Goto("bus", "replay")
            /\ seqToClient' = Put(seqToClient, response, intent)
            /\ replayUpdates' = pendingUpdates[response]
            /\ replayFills' = pendingFills[response]
            /\ pendingUpdates' = [pendingUpdates EXCEPT ![response] = <<>>]
            /\ pendingFills' = [pendingFills EXCEPT ![response] = <<>>]
  /\ UNCHANGED <<feed, books, durable, decision, intent, readPos, venue, subs, lost>>

(* _dispatch_update: the runner's callback.                                *)
DispatchUpdate(k, e) == OnExecutionUpdate(k, e.status, e.leaves)

(* _dispatch_fill: the runner's callback.                                  *)
DispatchFill(k, i) == OnFill(i, k.side * stream[i].fill)

(* submit_order replays the buffered updates, outside the lock, one call   *)
(* at a time ...                                                           *)
ReplayUpdate ==
  /\ pc["bus"] = "replay" /\ replayUpdates # <<>>
  /\ DispatchUpdate(intent, stream[Head(replayUpdates)])
  /\ replayUpdates' = Tail(replayUpdates)
  /\ UNCHANGED <<feed, position, registered, durable, pc, locals, venue, response,
                 subs, seqToClient, buffers, replayFills, lost>>

(* ... then the buffered fills.                                            *)
ReplayFill ==
  /\ pc["bus"] = "replay" /\ replayUpdates = <<>> /\ replayFills # <<>>
  /\ DispatchFill(intent, Head(replayFills))
  /\ replayFills' = Tail(replayFills)
  /\ Goto("bus", "read")
  /\ UNCHANGED <<feed, working, registered, claimed, dbPosition, locals, venue,
                 response, subs, seqToClient, buffers, replayUpdates, lost>>

ReplayDone ==
  /\ pc["bus"] = "replay" /\ replayUpdates = <<>> /\ replayFills = <<>>
  /\ Goto("bus", "finish")
  /\ UNCHANGED <<feed, books, durable, locals, venue, response, subs, adapter, lost>>

Persist(t, next) ==
  /\ ReadPosition(t) \/ WritePosition(t, next)
  /\ UNCHANGED <<venue, response, subs, adapter, lost>>

Replayed(seq) == {seq[n] : n \in DOMAIN seq}

(* What leaves on_target leaves submit_order too: its locals are gone, and *)
(* with them what was taken from the buffers and not replayed.             *)
LeaveSubmit(given) ==
  /\ Raise
  /\ Goto("bus", "idle")
  /\ replayUpdates' = <<>> /\ replayFills' = <<>>
  /\ lost' = lost \cup given
  /\ UNCHANGED <<locals, venue, response, subs, seqToClient, buffers>>

(* The bus thread's next call raises: one of on_target's, sendRequest, or, *)
(* in a callback of the replay, publish or the upsert of the position.     *)
BusCallRaises ==
  /\ \/ pc["bus"] \in OnTargetMayRaise \cup {"write"}
     \/ pc["bus"] = "replay" /\ replayUpdates \o replayFills # <<>>
  /\ LeaveSubmit(Replayed(replayFills))
  /\ UNCHANGED <<books, durable>>

(* The insert of a replayed fill raises.                                   *)
BusInsertRaises ==
  /\ pc["bus"] = "replay" /\ replayUpdates = <<>> /\ replayFills # <<>>
  /\ OnFillUnstored(Head(replayFills), intent.side * stream[Head(replayFills)].fill)
  /\ LeaveSubmit(Replayed(Tail(replayFills)))
  /\ UNCHANGED <<working, registered, claimed, dbPosition>>

-----------------------------------------------------------------------------
(* The subs thread.                                                        *)

(* Fault: the sequence is looked up under another type than it was stored. *)
KnownFault(s) == FALSE

(* The client order id of a sequence is known once submit_order mapped it. *)
Known(s) == s \in DOMAIN seqToClient

(* Fault: only the update is buffered.                                     *)
BufferFillFault(e, i) == pendingFills

BufferFill(e, i) ==
  IF e.fill > 0 THEN [pendingFills EXCEPT ![e.seq] = Append(@, i)] ELSE pendingFills

(* _handle_route_update and _handle_order_update, under the lock: the      *)
(* event of an unknown sequence is buffered, with its fill.                *)
SubsTake ==
  /\ pc["subs"] = "idle" /\ cursor < Len(stream)
  /\ cursor' = cursor + 1
  /\ LET i == cursor + 1
         e == stream[i]
     IN  IF Known(e.seq)
           THEN /\ job' = i
                /\ Goto("subs", "update")
                /\ UNCHANGED buffers
           ELSE /\ pendingUpdates' = [pendingUpdates EXCEPT ![e.seq] = Append(@, i)]
                /\ pendingFills' = BufferFill(e, i)
                /\ UNCHANGED <<job, pc>>
  /\ UNCHANGED <<feed, books, durable, locals, venue, response, seqToClient,
                 replays, lost>>

(* Outside the lock, with the client id looked up under it: the update ... *)
SubsUpdate ==
  /\ pc["subs"] = "update"
  /\ LET e == stream[job]
     IN  /\ DispatchUpdate(seqToClient[e.seq], e)
         /\ Goto("subs", IF e.fill > 0 THEN "fill" ELSE "idle")
         /\ job' = IF e.fill > 0 THEN job ELSE 0
  /\ UNCHANGED <<feed, position, registered, durable, locals, venue, response,
                 cursor, adapter, lost>>

(* ... and then, in a second call, the fill the message carried.           *)
SubsFill ==
  /\ pc["subs"] = "fill"
  /\ DispatchFill(seqToClient[stream[job].seq], job)
  /\ job' = 0
  /\ Goto("subs", "read")
  /\ UNCHANGED <<feed, working, registered, claimed, dbPosition, locals, venue,
                 response, cursor, adapter, lost>>

(* What a callback raises leaves _handle_route_update: with the update,    *)
(* the fill of the same message is given up.                               *)
LeaveMessage(given) ==
  /\ Raise
  /\ Goto("subs", "idle")
  /\ job' = 0
  /\ lost' = lost \cup given
  /\ UNCHANGED <<locals, venue, response, cursor, adapter>>

Unbooked == IF stream[job].fill > 0 THEN {job} ELSE {}

(* The subs thread's next call raises: publish in either callback, or the  *)
(* upsert of the position.                                                 *)
SubsCallRaises ==
  /\ \/ pc["subs"] \in {"update", "fill"} /\ LeaveMessage(Unbooked)
     \/ pc["subs"] = "write" /\ LeaveMessage({})
  /\ UNCHANGED <<books, durable>>

(* The insert of the fill raises.                                          *)
SubsInsertRaises ==
  /\ pc["subs"] = "fill"
  /\ OnFillUnstored(job, seqToClient[stream[job].seq].side * stream[job].fill)
  /\ LeaveMessage({})
  /\ UNCHANGED <<working, registered, claimed, dbPosition>>

-----------------------------------------------------------------------------
(* EMSX itself.                                                            *)

VenueAccepts ==
  /\ request # NoKey
  /\ orders' = Append(orders, [key |-> request, leaves |-> request.qty,
                               filled |-> 0, working |-> FALSE])
  /\ request' = NoKey
  /\ response' = IF pc["bus"] = "await" THEN Len(orders) + 1 ELSE response
  /\ UNCHANGED <<runnerVars, stream, conduct, subs, adapter, lost>>

VenueRefuses ==
  /\ request # NoKey
  /\ request' = NoKey
  /\ response' = IF pc["bus"] = "await" THEN 0 ELSE response
  /\ UNCHANGED <<runnerVars, orders, stream, conduct, subs, adapter, lost>>

(* An order event goes out on the route topic and, when that is subscribed *)
(* too, on the order topic; only route messages carry the fill fields.     *)
Publish(s, status, leaves, fill) ==
  LET route == [seq |-> s, topic |-> "route", status |-> status,
                leaves |-> leaves, fill |-> fill]
      order == [route EXCEPT !.topic = "order", !.fill = 0]
  IN  IF "order" \in conduct.topics
        THEN stream' = stream \o <<route, order>> \/ stream' = stream \o <<order, route>>
        ELSE stream' = Append(stream, route)

(* One order of the venue moves: it starts working, fills in part or in    *)
(* whole, or is cancelled.                                                 *)
VenueWorks(s) ==
  /\ orders[s].leaves > 0
  /\ conduct.early \/ s \in DOMAIN seqToClient
  /\ \/ /\ ~orders[s].working
        /\ orders' = [orders EXCEPT ![s].working = TRUE]
        /\ Publish(s, "WORKING", orders[s].leaves, 0)
     \/ \E q \in 1..orders[s].leaves :
          /\ orders' = [orders EXCEPT ![s].leaves = @ - q, ![s].filled = @ + q]
          /\ Publish(s, IF q = orders[s].leaves THEN "FILLED" ELSE "PART_FILLED",
                     orders[s].leaves - q, q)
     \/ /\ orders' = [orders EXCEPT ![s].leaves = 0]
        /\ Publish(s, "CANCELLED", 0, 0)
  /\ UNCHANGED <<runnerVars, request, conduct, response, subs, adapter, lost>>

(* The service crashes and restarts: the adapter starts empty and the      *)
(* subscription, opened afresh, plays the venue's events from the start.   *)
CrashAndRestart ==
  /\ Restart
  /\ response' = -1
  /\ cursor' = 0 /\ job' = 0
  /\ seqToClient' = EmptyBook
  /\ pendingUpdates' = NoBuffer /\ pendingFills' = NoBuffer
  /\ replayUpdates' = <<>> /\ replayFills' = <<>>
  /\ UNCHANGED <<venue, lost>>

BusStep ==
  \/ RunnerStep \/ SendRequest \/ HandleResponse
  \/ ReplayUpdate \/ ReplayFill \/ ReplayDone \/ Persist("bus", "replay")
  \/ BusCallRaises \/ BusInsertRaises

SubsStep ==
  \/ SubsTake \/ SubsUpdate \/ SubsFill \/ Persist("subs", "idle")
  \/ SubsCallRaises \/ SubsInsertRaises

VenueReplies == VenueAccepts \/ VenueRefuses

Next ==
  \/ TargetArrives \/ BusStep \/ SubsStep
  \/ VenueReplies \/ \E s \in DOMAIN orders : VenueWorks(s)
  \/ CrashAndRestart

Spec == Init /\ [][Next]_vars

(* Each thread keeps running, and the venue answers every request: with no *)
(* answer _read_response waits for ever.  Nothing obliges the venue to     *)
(* fill, nor targets to come.                                              *)
FairSpec == Spec /\ WF_vars(BusStep) /\ WF_vars(SubsStep) /\ WF_vars(VenueReplies)

-----------------------------------------------------------------------------
Occurrences(i, seq) == Cardinality({n \in DOMAIN seq : seq[n] = i})
VenueFilled == MapThenSumSet(LAMBDA s : orders[s].key.side * orders[s].filled, DOMAIN orders)
VenueOpen   == MapThenSumSet(LAMBDA s : orders[s].key.side * orders[s].leaves, DOMAIN orders)
Committed   == VenueFilled + VenueOpen + request.side * request.qty
LostQty     == MapThenSumSet(LAMBDA i : orders[stream[i].seq].key.side * stream[i].fill, lost)

(* A key reaches the venue at most once, whatever is redelivered and       *)
(* wherever the service crashes (idempotency_backend.py docstring:         *)
(* "Restarts cannot resubmit duplicate orders").                           *)
OneOrderPerKey ==
  /\ \A s, t \in DOMAIN orders : orders[s].key = orders[t].key => s = t
  /\ \A s \in DOMAIN orders : orders[s].key # request

(* A fill the subs thread took is held in at most one place - buffered,    *)
(* being replayed, in the thread's hand - or booked, or given up because a *)
(* call raised, and, until a restart plays the events again, never two of  *)
(* them; and a raise costs fills of one order at most.  (That some are     *)
(* given up disagrees with docs/contracts.tex:1031, "No updates are        *)
(* silently dropped".)                                                     *)
HeldCopies(i) ==
  Occurrences(i, pendingFills[stream[i].seq]) + Occurrences(i, replayFills)
    + (IF job = i THEN 1 ELSE 0)
Outcomes(i) ==
  Occurrences(i, dbFills) + (IF i \in unstored THEN 1 ELSE 0) + (IF i \in lost THEN 1 ELSE 0)
EveryFillSomewhere ==
  /\ \A i \in 1..cursor :
       stream[i].fill > 0 =>
         /\ HeldCopies(i) <= 1
         /\ HeldCopies(i) + Outcomes(i) >= 1
         /\ crashes = 0 => HeldCopies(i) + Outcomes(i) = 1
  /\ Cardinality({stream[i].seq : i \in lost \cup unstored}) <= raises

(* The events of a mapped sequence are never buffered: they would stay     *)
(* there for ever (the check and the append share the adapter's lock).     *)
NothingStranded ==
  \A s \in DOMAIN seqToClient : pendingUpdates[s] = <<>> /\ pendingFills[s] = <<>>

(* The working book holds the venue's open orders with their leaves        *)
(* ("Tracks open orders so OrderManager doesn't double-send",              *)
(* orders/models.py:10) ...                                                *)
Open        == {s \in DOMAIN orders : orders[s].leaves > 0}
BookCovers  == \A s \in Open : /\ orders[s].key \in DOMAIN working
                              /\ working[orders[s].key] >= orders[s].leaves
BookIsVenues ==
  /\ DOMAIN working = {orders[s].key : s \in Open}
  /\ \A s \in Open : working[orders[s].key] = orders[s].leaves

(* ... whenever everything has settled, no crash emptied the book and the  *)
(* venue published nothing of an order before submit_order had handled its *)
(* response.  A call that raises may leave more in the book than the venue *)
(* has open - an order the venue never had, or updates that were given     *)
(* up - and never less.                                                    *)
WorkingMatchesOrderly ==
  ~conduct.early /\ crashes = 0 /\ Settled =>
    /\ BookCovers
    /\ raises = 0 => BookIsVenues

(* When everything has settled the stored position is the book's           *)
(* ("Persist the updated position so a restart sees post-fill state",      *)
(* run_execution.py:137), if no call raised and under the same condition   *)
(* on the venue: otherwise the replay on the bus thread and the subs       *)
(* thread write it from two reads.                                         *)
StoredPositionCurrent ==
  ~conduct.early /\ raises = 0 /\ Settled => dbPosition = position

(* What the venue has filled and may still fill never exceeds the largest  *)
(* target (order_manager.py: delta = target - position - working) ...      *)
WithinTarget == \E t \in Targets : Abs(Committed) <= Abs(t)

(* ... and not the last target decided on, but for the fills whose         *)
(* callbacks raised, as long as targets are long and never fall, come when *)
(* everything has settled and no order is open - one that fills between    *)
(* the two reads of on_target is in neither -, the venue is orderly, and   *)
(* no crash emptied the working book.  (After a fall an order left in the  *)
(* book by a raise may be a sale, and the next purchase is netted with it.) *)
NeverFalling ==
  \A a, b \in 1..MaxBar : a <= b => 0 <= targetOf[a] /\ targetOf[a] <= targetOf[b]

SpacedWithinTarget ==
  conduct.spaced /\ ~conduct.early /\ crashes = 0 /\ NeverFalling =>
    Committed <= targetOf[decision.bar] + LostQty

(* Every fill reaches the position book and stays counted, but for those   *)
(* given up when a call raised.                                            *)
FillsReachBook == <>[](position + LostQty = VenueFilled)

=============================================================================
