------------------------- MODULE EMSXExecution_proofs -------------------------
(***************************************************************************)
(* Theorems of EMSXExecution, for any number of bars, targets, limits,     *)
(* deliveries, crashes and orders.  Each invariant is inductive together   *)
(* with those before it:                                                   *)
(*   KeyInv      what was sent is claimed; one order per key; nothing is   *)
(*               left in a buffer.  The refinement of IntentPipeline needs *)
(*               no more than it.                                          *)
(*   FillInv     every fill taken is in one place, or given up because a   *)
(*               call raised.                                              *)
(*   OrderlyInv  an orderly venue's events never find the bus thread       *)
(*               replaying, so one thread writes the stored position.      *)
(*   Typed       the types of what is counted.                             *)
(*   BookInv     without a crash, the working book shows what the last     *)
(*               event dispatched told of each order, or, once a call      *)
(*               raised, at least that.                                    *)
(*   AccountInv  the position and the fills given up are the sum of the    *)
(*               fills dispatched, and what the venue filled is the sum    *)
(*               of the fills published.                                   *)
(*   BudgetInv   what is filled, open, on its way or in hand stays within  *)
(*               the last target decided on, but for the fills given up.   *)
(***************************************************************************)
EXTENDS EMSXPipeline, SequenceTheorems, FiniteSetTheorems, WellFoundedInduction, TLAPS

Steps == {"idle", "working", "validate", "claim", "submit", "await", "replay", "read", "write",
          "finish", "update", "fill"}

(* The shape of the state, as far as the proofs need it.                   *)
Shape ==
  /\ offset \in Nat \ {0} /\ decision.bar \in 1..MaxBar
  /\ pc \in [Threads -> Steps]
  /\ \E S : orders \in Seq(S)
  /\ \A s \in DOMAIN orders :
       orders[s] = [key     |-> orders[s].key,    leaves  |-> orders[s].leaves,
                    filled  |-> orders[s].filled, working |-> orders[s].working]
  /\ pendingUpdates = [s \in Seqs |-> pendingUpdates[s]]
  /\ pendingFills = [s \in Seqs |-> pendingFills[s]]
  /\ response \in {-1, 0} \cup Seqs
  /\ DOMAIN seqToClient \subseteq Seqs

(* Every key at the venue, or on its way there, is claimed; a key about to *)
(* be sent is claimed and was never sent before.                           *)
SentKeysClaimed ==
  /\ NoKey \notin claimed
  /\ \A s \in DOMAIN orders : orders[s].key \in claimed
  /\ request # NoKey => request \in claimed /\ Len(orders) < MaxOrders
  /\ pc["bus"] \in {"validate", "claim", "submit"} => intent # NoKey
  /\ pc["bus"] = "submit" =>
       /\ intent \in claimed /\ intent # request
       /\ \A s \in DOMAIN orders : orders[s].key # intent

KeyInv == Shape /\ SentKeysClaimed /\ OneOrderPerKey /\ NothingStranded

(* What KeyInv reads; most steps leave it alone or only move a thread.     *)
keyVars == <<offset, decision.bar, orders, request, response, claimed, intent,
             seqToClient, pendingUpdates, pendingFills>>

(* A new venue order is put after the others.                              *)
LEMMA AppendOrder ==
  ASSUME NEW o, \E S : orders \in Seq(S), orders' = Append(orders, o)
  PROVE  /\ \E S : orders' \in Seq(S)
         /\ DOMAIN orders' = DOMAIN orders \cup {Len(orders) + 1}
         /\ Len(orders') = Len(orders) + 1
         /\ \A s \in DOMAIN orders : orders'[s] = orders[s]
         /\ orders'[Len(orders) + 1] = o
         /\ Len(orders) \in Nat /\ DOMAIN orders = 1..Len(orders)
<1>1. PICK S : orders \in Seq(S)
  OBVIOUS
<1>2. orders \in Seq(S \cup {o})
  BY <1>1, SeqMonotonic
<1>3. orders' \in Seq(S \cup {o})
  BY <1>2
<1>4. /\ Len(orders') = Len(orders) + 1
      /\ \A s \in 1..Len(orders) : orders'[s] = orders[s]
      /\ orders'[Len(orders) + 1] = o
      /\ Len(orders) \in Nat /\ DOMAIN orders = 1..Len(orders)
      /\ DOMAIN orders' = 1..(Len(orders) + 1)
  BY <1>2, <1>3
<1> QED
  BY <1>3, <1>4

(* An order that moves keeps its place, and the others are as before.      *)
LEMMA UpdateOrder ==
  ASSUME NEW s \in DOMAIN orders, NEW o, \E S : orders \in Seq(S),
         orders' = [orders EXCEPT ![s] = o]
  PROVE  /\ \E S : orders' \in Seq(S)
         /\ DOMAIN orders' = DOMAIN orders
         /\ Len(orders') = Len(orders)
         /\ \A t \in DOMAIN orders : t # s => orders'[t] = orders[t]
         /\ orders'[s] = o
<1>1. PICK S : orders \in Seq(S)
  OBVIOUS
<1>2. orders \in Seq(S \cup {o})
  BY <1>1, SeqMonotonic
<1>3. DOMAIN orders = 1..Len(orders)
  BY <1>1
<1>4. orders' \in Seq(S \cup {o}) /\ Len(orders') = Len(orders)
  BY <1>2, <1>3, ExceptSeq
<1>5. DOMAIN orders' = DOMAIN orders
  BY <1>3, <1>4
<1> QED
  BY <1>4, <1>5

(* A step of the service that leaves what KeyInv reads alone.              *)
LEMMA QuietStep ==
  ASSUME KeyInv, UNCHANGED keyVars, pc' \in [Threads -> Steps],
         pc'["bus"] \notin {"validate", "claim", "submit"} \/ pc'["bus"] = pc["bus"]
  PROVE  KeyInv'
<1> QED
  BY DEF KeyInv, Shape, SentKeysClaimed, OneOrderPerKey, NothingStranded, keyVars

(* The bus thread up to the adapter: a target arrives, is validated and    *)
(* claimed.  A key that is claimed now was neither claimed nor sent.       *)
LEMMA RunnerSteps ==
  ASSUME KeyInv, TargetArrives \/ RunnerStep
  PROVE  KeyInv'
<1> USE EMSXAssumption DEF KeyInv, Shape, Steps, Goto
<1>1. UNCHANGED <<orders, request, response, seqToClient, pendingUpdates, pendingFills>>
  BY DEF TargetArrives, RunnerStep, venue, adapter, buffers
<1>2. CASE TargetArrives
  <2>1. /\ offset' \in Nat \ {0} /\ UNCHANGED <<claimed, intent>>
        /\ decision'.bar \in 1..MaxBar
        /\ pc' \in [Threads -> Steps] /\ pc'["bus"] = "working"
    BY <1>2 DEF TargetArrives, OnTarget, durable
  <2> QED
    BY <1>1, <2>1 DEF SentKeysClaimed, OneOrderPerKey, NothingStranded
<1>6. CASE ReadWorking
  <2>1. UNCHANGED <<offset, decision, claimed>>
    BY <1>6 DEF ReadWorking, feed, durable
  <2>2. CASE Goto("bus", "idle") /\ UNCHANGED intent
    BY <1>1, <2>1, <2>2, QuietStep DEF keyVars
  <2>3. CASE Goto("bus", "validate") /\ intent' = KeyOf
    <3>1. intent' # NoKey
      BY <2>3 DEF KeyOf, NoKey
    <3>2. pc'["bus"] = "validate" /\ pc' \in [Threads -> Steps]
      BY <2>3
    <3> QED
      BY <1>1, <2>1, <3>1, <3>2 DEF SentKeysClaimed, OneOrderPerKey, NothingStranded
  <2> QED
    BY <1>6, <2>2, <2>3 DEF ReadWorking
<1>3. CASE Validate
  <2>1. UNCHANGED <<offset, decision, claimed, intent>> /\ pc' \in [Threads -> Steps]
    BY <1>3 DEF Validate, feed, durable, locals
  <2>2. pc["bus"] = "validate" /\ pc'["bus"] \in {"claim", "idle"}
    BY <1>3 DEF Validate
  <2> QED
    BY <1>1, <2>1, <2>2 DEF SentKeysClaimed, OneOrderPerKey, NothingStranded
<1>4. CASE ClaimAndRegister
  <2>1. UNCHANGED <<offset, decision, intent>> /\ pc["bus"] = "claim"
    BY <1>4 DEF ClaimAndRegister, feed, locals
  <2>2. CASE ClaimWins(intent)
    <3>1. /\ claimed' = claimed \cup {intent} /\ intent \notin claimed
          /\ pc' \in [Threads -> Steps] /\ pc'["bus"] = "submit"
      BY <1>4, <2>2 DEF ClaimAndRegister, ClaimWins
    <3>2. /\ intent # NoKey /\ intent # request
          /\ \A s \in DOMAIN orders : orders[s].key # intent
      BY <2>1, <3>1 DEF SentKeysClaimed
    <3> QED
      BY <1>1, <2>1, <3>1, <3>2 DEF SentKeysClaimed, OneOrderPerKey, NothingStranded
  <2>3. CASE ~ClaimWins(intent)
    <3>1. claimed' = claimed /\ pc' \in [Threads -> Steps] /\ pc'["bus"] = "idle"
      BY <1>4, <2>3 DEF ClaimAndRegister
    <3> QED
      BY <1>1, <2>1, <3>1, QuietStep DEF keyVars
  <2> QED
    BY <2>2, <2>3
<1>5. CASE Finish
  BY <1>1, <1>5, QuietStep DEF Finish, feed, durable, locals, keyVars
<1> QED
  BY <1>2, <1>3, <1>4, <1>5, <1>6 DEF RunnerStep

(* The bus thread inside submit_order: the request leaves with a key that  *)
(* was never sent, and mapping a sequence takes its buffers away.          *)
LEMMA SubmitSteps ==
  ASSUME KeyInv,
         SendRequest \/ HandleResponse
           \/ ReplayUpdate \/ ReplayFill \/ ReplayDone \/ Persist("bus", "replay")
  PROVE  KeyInv'
<1> USE EMSXAssumption DEF KeyInv, Shape, Steps, Goto
<1>1. CASE SendRequest
  <2>1. UNCHANGED <<offset, decision, orders, response, claimed, intent, seqToClient,
                    pendingUpdates, pendingFills>>
    BY <1>1 DEF SendRequest, feed, durable, locals, adapter, buffers
  <2>2. /\ pc["bus"] = "submit" /\ Len(orders) < MaxOrders /\ request' = intent
        /\ pc' \in [Threads -> Steps] /\ pc'["bus"] = "await"
    BY <1>1 DEF SendRequest
  <2> QED
    BY <2>1, <2>2 DEF SentKeysClaimed, OneOrderPerKey, NothingStranded
<1>2. CASE ReplayDone
  BY <1>2, QuietStep
     DEF ReplayDone, feed, durable, locals, venue, adapter, buffers, keyVars
<1>3. CASE HandleResponse
  <2>1. /\ UNCHANGED <<offset, decision, orders, request, claimed, intent>>
        /\ response' = -1
        /\ pc' \in [Threads -> Steps] /\ pc'["bus"] \in {"finish", "replay"}
    BY <1>3 DEF HandleResponse, feed, durable, venue
  <2>2. CASE response = 0
    <3>1. UNCHANGED <<seqToClient, pendingUpdates, pendingFills>>
      BY <1>3, <2>2 DEF HandleResponse, buffers
    <3> QED
      BY <2>1, <3>1 DEF SentKeysClaimed, OneOrderPerKey, NothingStranded
  <2>3. CASE response # 0
    <3>1. response \in Seqs
      BY <1>3, <2>3 DEF HandleResponse
    <3>2. /\ pendingUpdates' = [pendingUpdates EXCEPT ![response] = <<>>]
          /\ pendingFills' = [pendingFills EXCEPT ![response] = <<>>]
          /\ DOMAIN seqToClient' = DOMAIN seqToClient \cup {response}
      BY <1>3, <2>3 DEF HandleResponse, Put
    <3>3. NothingStranded'
      BY <3>1, <3>2 DEF NothingStranded
    <3> QED
      BY <2>1, <3>1, <3>2, <3>3 DEF SentKeysClaimed, OneOrderPerKey
  <2> QED
    BY <2>2, <2>3
<1>4. CASE ReplayUpdate
  BY <1>4, QuietStep
     DEF ReplayUpdate, feed, durable, locals, venue, buffers, keyVars
<1>5. CASE ReplayFill
  BY <1>5, QuietStep
     DEF ReplayFill, feed, locals, venue, DispatchFill, OnFill, buffers, keyVars
<1>6. CASE Persist("bus", "replay")
  BY <1>6, QuietStep
     DEF Persist, ReadPosition, WritePosition, feed, durable, locals, venue, adapter,
         buffers, keyVars
<1> QED
  BY <1>1, <1>2, <1>3, <1>4, <1>5, <1>6

(* What a call raises only moves the thread.                               *)
LEMMA RaiseSteps ==
  ASSUME KeyInv, BusCallRaises \/ BusInsertRaises \/ SubsCallRaises \/ SubsInsertRaises
  PROVE  KeyInv'
<1> USE EMSXAssumption DEF KeyInv, Shape, Steps, Goto
<1>1. CASE BusCallRaises \/ BusInsertRaises
  BY <1>1, QuietStep
     DEF BusCallRaises, BusInsertRaises, LeaveSubmit, Raise, OnFillUnstored, durable, locals,
         venue, buffers, keyVars
<1>2. CASE SubsCallRaises \/ SubsInsertRaises
  BY <1>2, QuietStep
     DEF SubsCallRaises, SubsInsertRaises, LeaveMessage, Raise, OnFillUnstored, durable, locals,
         venue, adapter, buffers, keyVars
<1> QED
  BY <1>1, <1>2

(* The subs thread buffers only events of sequences that are not mapped.   *)
LEMMA SubsSteps ==
  ASSUME KeyInv, SubsStep
  PROVE  KeyInv'
<1> USE EMSXAssumption DEF KeyInv, Shape, Steps, Goto
<1>1. CASE SubsTake
  <2> DEFINE e == stream[cursor + 1]
  <2>1. UNCHANGED <<offset, decision, orders, request, response, claimed, intent, seqToClient>>
    BY <1>1 DEF SubsTake, feed, durable, locals, venue
  <2>2. CASE Known(e.seq)
    <3>1. UNCHANGED <<pendingUpdates, pendingFills>>
      BY <1>1, <2>2 DEF SubsTake, buffers
    <3>2. pc' \in [Threads -> Steps] /\ pc'["bus"] = pc["bus"]
      BY <1>1, <2>2 DEF SubsTake
    <3> QED
      BY <2>1, <3>1, <3>2, QuietStep DEF keyVars
  <2>3. CASE ~Known(e.seq)
    <3>1. pc' = pc
      BY <1>1, <2>3 DEF SubsTake
    <3>2. pendingUpdates' = [pendingUpdates EXCEPT ![e.seq] = Append(@, cursor + 1)]
      BY <1>1, <2>3 DEF SubsTake
    <3>3. \/ pendingFills' = [pendingFills EXCEPT ![e.seq] = Append(@, cursor + 1)]
          \/ pendingFills' = pendingFills
      BY <1>1, <2>3 DEF SubsTake, BufferFill
    <3>4. \A s \in DOMAIN seqToClient : s # e.seq
      BY <2>3 DEF Known
    <3>5. NothingStranded'
      BY <2>1, <3>2, <3>3, <3>4 DEF NothingStranded
    <3> QED
      BY <2>1, <3>1, <3>2, <3>3, <3>5 DEF SentKeysClaimed, OneOrderPerKey
  <2> QED
    BY <2>2, <2>3
<1>2. CASE SubsUpdate
  BY <1>2, QuietStep DEF SubsUpdate, feed, durable, locals, venue, adapter, buffers, keyVars
<1>3. CASE SubsFill
  BY <1>3, QuietStep
     DEF SubsFill, DispatchFill, OnFill, feed, locals, venue, adapter, buffers, keyVars
<1>4. CASE Persist("subs", "idle")
  BY <1>4, QuietStep
     DEF Persist, ReadPosition, WritePosition, feed, durable, locals, venue, adapter,
         buffers, keyVars
<1> QED
  BY <1>1, <1>2, <1>3, <1>4, RaiseSteps DEF SubsStep

(* An order that moves keeps its key, and the others are as before.        *)
LEMMA KeptKeys ==
  ASSUME KeyInv, NEW s \in DOMAIN orders, VenueWorks(s)
  PROVE  /\ \E S : orders' \in Seq(S)
         /\ DOMAIN orders' = DOMAIN orders /\ Len(orders') = Len(orders)
         /\ \A t \in DOMAIN orders :
              /\ orders'[t].key = orders[t].key
              /\ orders'[t] = [key     |-> orders'[t].key,    leaves  |-> orders'[t].leaves,
                               filled  |-> orders'[t].filled, working |-> orders'[t].working]
<1> USE DEF KeyInv, Shape
<1> DEFINE IsOrder(o) ==
      /\ o.key = orders[s].key
      /\ o = [key     |-> o.key,    leaves  |-> o.leaves,
              filled  |-> o.filled, working |-> o.working]
<1>2. PICK o : orders' = [orders EXCEPT ![s] = o] /\ IsOrder(o)
  <2>1. PICK k, l, f, w :
          orders[s] = [key |-> k, leaves |-> l, filled |-> f, working |-> w]
    OBVIOUS
  <2> DEFINE Order(l2, f2, w2) == [key |-> k, leaves |-> l2, filled |-> f2, working |-> w2]
  <2>2. \A l2, f2, w2 : IsOrder(Order(l2, f2, w2))
    BY <2>1
  <2> HIDE DEF Order, IsOrder
  <2>3. CASE orders' = [orders EXCEPT ![s].working = TRUE]
    <3>1. \A x : [orders[s] EXCEPT !.working = x] = Order(l, f, x)
      BY <2>1 DEF Order
    <3>2. orders' = [orders EXCEPT ![s] = [orders[s] EXCEPT !.working = TRUE]]
      BY <2>3
    <3> QED
      BY <2>2, <3>1, <3>2
  <2>4. ASSUME NEW q \in 1..orders[s].leaves,
               orders' = [orders EXCEPT ![s].leaves = @ - q, ![s].filled = @ + q]
        PROVE  \E o : orders' = [orders EXCEPT ![s] = o] /\ IsOrder(o)
    <3>1. \A a : [orders[s] EXCEPT !.leaves = a] = Order(a, f, w)
      BY <2>1 DEF Order
    <3>2. \A a, b : [Order(a, f, w) EXCEPT !.filled = b] = Order(a, b, w)
      BY DEF Order
    <3> DEFINE a == orders[s].leaves - q
               b == orders[s].filled + q
    <3>3. orders' = [orders EXCEPT ![s] = [orders[s] EXCEPT !.leaves = a, !.filled = b]]
      BY <2>4
    <3>4. [orders[s] EXCEPT !.leaves = a, !.filled = b]
            = [[orders[s] EXCEPT !.leaves = a] EXCEPT !.filled = b]
      OBVIOUS
    <3> HIDE DEF a, b
    <3>5. [orders[s] EXCEPT !.leaves = a, !.filled = b] = Order(a, b, w)
      BY <3>1, <3>2, <3>4
    <3> QED
      BY <2>2, <3>3, <3>5
  <2>5. CASE orders' = [orders EXCEPT ![s].leaves = 0]
    <3>1. [orders[s] EXCEPT !.leaves = 0] = Order(0, f, w)
      BY <2>1 DEF Order
    <3>2. orders' = [orders EXCEPT ![s] = [orders[s] EXCEPT !.leaves = 0]]
      BY <2>5
    <3> QED
      BY <2>2, <3>1, <3>2
  <2> QED
    BY <2>3, <2>4, <2>5 DEF VenueWorks
<1>3. /\ \E S : orders' \in Seq(S)
      /\ DOMAIN orders' = DOMAIN orders /\ Len(orders') = Len(orders)
      /\ \A t \in DOMAIN orders : t # s => orders'[t] = orders[t]
      /\ orders'[s] = o
  BY <1>2, UpdateOrder
<1>4. \A t \in DOMAIN orders : orders'[t].key = orders[t].key
  BY <1>2, <1>3
<1> QED
  BY <1>2, <1>3, <1>4

(* The venue: an accepted request becomes an order with its key and is no  *)
(* longer on its way, so the key is still there only once.                 *)
LEMMA VenueSteps ==
  ASSUME KeyInv, VenueReplies \/ \E s \in DOMAIN orders : VenueWorks(s)
  PROVE  KeyInv'
<1> USE EMSXAssumption DEF KeyInv, Shape, Steps
<1>1. UNCHANGED <<offset, decision, pc, claimed, intent, seqToClient, pendingUpdates,
                  pendingFills>>
  BY DEF VenueReplies, VenueAccepts, VenueRefuses, VenueWorks, runnerVars, feed, durable,
         locals, adapter, buffers
<1>2. CASE VenueAccepts
  <2> DEFINE o == [key |-> request, leaves |-> request.qty, filled |-> 0, working |-> FALSE]
  <2>1. /\ request # NoKey /\ request' = NoKey /\ orders' = Append(orders, o)
        /\ response' \in {response, Len(orders) + 1}
    BY <1>2 DEF VenueAccepts
  <2>2. /\ \E S : orders' \in Seq(S)
        /\ DOMAIN orders' = DOMAIN orders \cup {Len(orders) + 1}
        /\ \A s \in DOMAIN orders : orders'[s] = orders[s]
        /\ orders'[Len(orders) + 1] = o
        /\ Len(orders) \in Nat /\ Len(orders) < MaxOrders
    BY <2>1, AppendOrder DEF SentKeysClaimed
  <2> HIDE DEF o
  <2>3. o.key = request /\ o = [key     |-> o.key,    leaves  |-> o.leaves,
                                filled  |-> o.filled, working |-> o.working]
    BY DEF o
  <2>4. Shape'
    BY <1>1, <2>1, <2>2, <2>3 DEF Seqs
  <2>5. SentKeysClaimed'
    BY <1>1, <2>1, <2>2, <2>3 DEF SentKeysClaimed
  <2>6. OneOrderPerKey'
    BY <2>1, <2>2, <2>3 DEF OneOrderPerKey, SentKeysClaimed
  <2>7. NothingStranded'
    BY <1>1 DEF NothingStranded
  <2> QED
    BY <2>4, <2>5, <2>6, <2>7
<1>3. CASE VenueRefuses
  <2>1. UNCHANGED orders /\ request' = NoKey /\ response' \in {response, 0}
    BY <1>3 DEF VenueRefuses
  <2> QED
    BY <1>1, <2>1 DEF SentKeysClaimed, OneOrderPerKey, NothingStranded
<1>4. ASSUME NEW s \in DOMAIN orders, VenueWorks(s)
      PROVE  KeyInv'
  <2>1. UNCHANGED <<request, response>>
    BY <1>4 DEF VenueWorks
  <2>3. /\ \E S : orders' \in Seq(S)
        /\ DOMAIN orders' = DOMAIN orders /\ Len(orders') = Len(orders)
        /\ \A t \in DOMAIN orders :
             orders'[t] = [key     |-> orders'[t].key,    leaves  |-> orders'[t].leaves,
                           filled  |-> orders'[t].filled, working |-> orders'[t].working]
    BY <1>4, KeptKeys
  <2>4. \A t \in DOMAIN orders : orders'[t].key = orders[t].key
    BY <1>4, KeptKeys
  <2>5. Shape'
    BY <1>1, <2>1, <2>3
  <2> QED
    BY <1>1, <2>1, <2>3, <2>4, <2>5 DEF SentKeysClaimed, OneOrderPerKey, NothingStranded
<1> QED
  BY <1>2, <1>3, <1>4 DEF VenueReplies

(* A crash forgets the mapping and the buffers together; what is claimed   *)
(* and what the venue has stay.                                            *)
LEMMA CrashStep ==
  ASSUME KeyInv, CrashAndRestart
  PROVE  KeyInv'
<1> USE EMSXAssumption DEF KeyInv, Shape, Steps
<1>1. /\ UNCHANGED <<orders, request, claimed>>
      /\ offset' \in 1..offset /\ response' = -1
      /\ pc' = [t \in Threads |-> "idle"] /\ decision'.bar \in 1..MaxBar
  BY RunnerAssumption DEF CrashAndRestart, Restart, FirstDecision, venue, durable
<1>2. /\ DOMAIN seqToClient' = {}
      /\ pendingUpdates' = [s \in Seqs |-> <<>>] /\ pendingFills' = [s \in Seqs |-> <<>>]
  BY DEF CrashAndRestart, EmptyBook, NoBuffer
<1> QED
  BY <1>1, <1>2 DEF SentKeysClaimed, OneOrderPerKey, NothingStranded

LEMMA KeyInit == Init => KeyInv
<1> SUFFICES ASSUME Init PROVE KeyInv
  OBVIOUS
<1>1. orders = <<>> /\ orders \in Seq({}) /\ DOMAIN orders = {}
  BY DEF Init
<1>2. decision.bar \in 1..MaxBar
  BY RunnerAssumption DEF Init, RunnerInit, FirstDecision
<1> QED
  BY <1>1, <1>2, EMSXAssumption
     DEF Init, RunnerInit, NoBuffer, EmptyBook, KeyInv, Shape, Steps, SentKeysClaimed,
         OneOrderPerKey, NothingStranded

(* The inductive invariant holds in every reachable state.                 *)
THEOREM KeyInvariant == Spec => []KeyInv
<1>1. KeyInv /\ [Next]_vars => KeyInv'
  <2> SUFFICES ASSUME KeyInv, [Next]_vars PROVE KeyInv'
    OBVIOUS
  <2>1. CASE UNCHANGED vars
    BY <2>1, QuietStep
       DEF vars, runnerVars, feed, durable, locals, venue, adapter, buffers, keyVars,
           KeyInv, Shape
  <2>2. CASE Next
    BY <2>2, RunnerSteps, SubmitSteps, SubsSteps, VenueSteps, CrashStep, RaiseSteps DEF Next, BusStep
  <2> QED
    BY <2>1, <2>2
<1> QED
  BY <1>1, KeyInit, PTL DEF Spec

(* No idempotency key reaches the venue twice: not through a redelivered   *)
(* target, nor a crash between the claim and the send, nor a request that  *)
(* outlives the process that sent it.                                      *)
THEOREM OneOrderPerKeyAlways == Spec => []OneOrderPerKey
<1>1. KeyInv => OneOrderPerKey
  BY DEF KeyInv
<1> QED
  BY <1>1, KeyInvariant, PTL

(* No event of a mapped order is left behind in a buffer, however the bus  *)
(* thread and the subs thread interleave.                                  *)
THEOREM NothingStrandedAlways == Spec => []NothingStranded
<1>1. KeyInv => NothingStranded
  BY DEF KeyInv
<1> QED
  BY <1>1, KeyInvariant, PTL

-----------------------------------------------------------------------------
(* The refinement: what the pipeline of EMSXPipeline sees of a state.      *)
Phase   == PhaseOf(pc["bus"], intent)
InHand  == KeyIn(pc["bus"], intent)
Watched == claimed \cap PipelineKeys
Sent(k) == {s \in DOMAIN orders : orders[s].key = k}

LEMMA SentFinite ==
  ASSUME KeyInv, NEW k
  PROVE  IsFiniteSet(Sent(k)) /\ Cardinality(Sent(k)) \in Nat
<1>1. IsFiniteSet(DOMAIN orders)
  <2>1. PICK S : orders \in Seq(S)
    BY DEF KeyInv, Shape
  <2>2. DOMAIN orders = 1..Len(orders) /\ Len(orders) \in Nat
    BY <2>1
  <2> QED
    BY <2>2, FS_Interval
<1>2. Sent(k) \in SUBSET DOMAIN orders
  BY DEF Sent
<1> QED
  BY <1>1, <1>2, FS_Subset, FS_CardinalityType

LEMMA LiveIs == \A k : LiveOf(k) = Cardinality(Sent(k)) + (IF request = k THEN 1 ELSE 0)
  BY DEF LiveOf, Sent

LEMMA SameLive ==
  ASSUME UNCHANGED <<orders, request>>
  PROVE  \A k : LiveOf(k)' = LiveOf(k)
  BY DEF LiveOf

(* A step the pipeline does not see.                                       *)
LEMMA Unseen ==
  ASSUME UNCHANGED <<Phase, InHand, Watched>>,
         \A k \in PipelineKeys : LiveOf(k)' = LiveOf(k)
  PROVE  UNCHANGED Pipeline!vars
<1>1. [k \in PipelineKeys |-> LiveOf(k)]' = [k \in PipelineKeys |-> LiveOf(k)]
  OBVIOUS
<1> QED
  BY <1>1 DEF Pipeline!vars, Phase, InHand, Watched

(* The bus thread moves on with its intent.                                *)
LEMMA Moves ==
  ASSUME NEW p, NEW k, Phase' = p, InHand' = k
  PROVE  Pipeline!Move("bus", p, k)
  BY DEF Pipeline!Move, Phase, InHand

(* The steps of the bus thread before it has anything to send, and after.  *)
LEMMA RefineRunner ==
  ASSUME KeyInv, TargetArrives \/ RunnerStep
  PROVE  [Pipeline!Next]_(Pipeline!vars)
<1> USE EMSXAssumption, WatchAssumption DEF KeyInv, Shape, Steps, Goto
<1>1. UNCHANGED <<orders, request>>
  BY DEF TargetArrives, RunnerStep, venue
<1>2. \A k : LiveOf(k)' = LiveOf(k)
  BY <1>1, SameLive
<1>3. [k \in PipelineKeys |-> LiveOf(k)]' = [k \in PipelineKeys |-> LiveOf(k)]
  BY <1>2
<1>4. CASE TargetArrives
  <2>1. /\ pc["bus"] = "idle" /\ pc'["bus"] = "working" /\ claimed' = claimed
        /\ intent' = intent
    BY <1>4 DEF TargetArrives, OnTarget, durable
  <2>2. UNCHANGED <<Phase, InHand, Watched>>
    BY <2>1 DEF Phase, InHand, KeyIn, PhaseOf, Watched
  <2> QED
    BY <1>2, <2>2, Unseen
<1>8. CASE ReadWorking
  <2>1. pc["bus"] = "working" /\ claimed' = claimed
    BY <1>8 DEF ReadWorking, durable
  <2>2. Phase = "idle" /\ InHand = NoKey
    BY <2>1 DEF Phase, InHand, KeyIn, PhaseOf
  <2>3. CASE Goto("bus", "idle") /\ UNCHANGED intent
    <3>1. UNCHANGED <<Phase, InHand, Watched>>
      BY <2>1, <2>2, <2>3 DEF Phase, InHand, KeyIn, PhaseOf, Watched
    <3> QED
      BY <1>2, <3>1, Unseen
  <2>4. CASE Goto("bus", "validate") /\ intent' = KeyOf /\ ~Seen(KeyOf)
    <3>1. pc'["bus"] = "validate" /\ intent' \notin claimed
      BY <2>4 DEF Seen
    <3>2. CASE intent' \in PipelineKeys
      <4>1. Phase' = "validating" /\ InHand' = intent'
        BY <3>1, <3>2 DEF Phase, InHand, KeyIn, PhaseOf
      <4>2. Pipeline!Generate("bus", intent')
        BY <1>3, <2>1, <2>2, <3>1, <4>1, Moves DEF Pipeline!Generate, Phase
      <4> QED
        BY <3>2, <4>2 DEF Pipeline!Next
    <3>3. CASE intent' \notin PipelineKeys
      <4>1. Phase' = "idle" /\ InHand' = NoKey
        BY <3>3 DEF Phase, InHand, KeyIn, PhaseOf
      <4> QED
        BY <1>2, <2>1, <2>2, <4>1, Unseen DEF Watched
    <3> QED
      BY <3>2, <3>3
  <2> QED
    BY <1>8, <2>3, <2>4 DEF ReadWorking
<1>5. CASE Validate
  <2>1. UNCHANGED <<claimed, intent>> /\ pc["bus"] = "validate"
    BY <1>5 DEF Validate, durable, locals
  <2>2. pc'["bus"] \in {"claim", "idle"}
    BY <1>5 DEF Validate
  <2>3. CASE intent \in PipelineKeys
    <3>1. Phase = "validating" /\ InHand = intent
      BY <2>1, <2>3 DEF Phase, InHand, KeyIn, PhaseOf
    <3>2. CASE pc'["bus"] = "claim"
      <4>1. Phase' = "claiming" /\ InHand' = intent
        BY <2>1, <2>3, <3>2 DEF Phase, InHand, KeyIn, PhaseOf
      <4>2. Pipeline!Approve("bus")
        BY <1>3, <2>1, <3>1, <4>1, Moves DEF Pipeline!Approve, Phase, InHand
      <4> QED
        BY <4>2 DEF Pipeline!Next
    <3>3. CASE pc'["bus"] = "idle"
      <4>1. Phase' = "idle" /\ InHand' = NoKey
        BY <3>3 DEF Phase, InHand, KeyIn, PhaseOf
      <4>2. Pipeline!GiveUp("bus")
        BY <1>3, <2>1, <3>1, <4>1, Moves DEF Pipeline!GiveUp, Phase, InHand
      <4> QED
        BY <4>2 DEF Pipeline!Next
    <3> QED
      BY <2>2, <3>2, <3>3
  <2>4. CASE intent \notin PipelineKeys
    <3>1. UNCHANGED <<Phase, InHand>>
      BY <2>1, <2>4 DEF Phase, InHand, KeyIn, PhaseOf
    <3> QED
      BY <1>2, <2>1, <3>1, Unseen DEF Watched
  <2> QED
    BY <2>3, <2>4
<1>6. CASE ClaimAndRegister
  <2>1. intent' = intent /\ pc["bus"] = "claim"
    BY <1>6 DEF ClaimAndRegister, locals
  <2>2. \/ /\ intent \notin claimed /\ claimed' = claimed \cup {intent}
           /\ pc'["bus"] = "submit"
        \/ intent \in claimed /\ claimed' = claimed /\ pc'["bus"] = "idle"
    BY <1>6 DEF ClaimAndRegister, ClaimWins
  <2>3. CASE intent \in PipelineKeys
    <3>1. Phase = "claiming" /\ InHand = intent
      BY <2>1, <2>3 DEF Phase, InHand, KeyIn, PhaseOf
    <3>2. CASE intent \notin claimed
      <4>1. Phase' = "submitting" /\ InHand' = intent
        BY <2>1, <2>2, <2>3, <3>2 DEF Phase, InHand, KeyIn, PhaseOf
      <4>2. Watched' = Watched \cup {intent}
        BY <2>2, <2>3, <3>2 DEF Watched
      <4>3. Pipeline!Claim("bus")
        BY <1>3, <3>1, <3>2, <4>1, <4>2, Moves
           DEF Pipeline!Claim, Pipeline!Wins, Phase, InHand, Watched
      <4> QED
        BY <4>3 DEF Pipeline!Next
    <3>3. CASE intent \in claimed
      <4>1. Phase' = "idle" /\ InHand' = NoKey /\ Watched' = Watched
        BY <2>1, <2>2, <3>3 DEF Phase, InHand, KeyIn, PhaseOf, Watched
      <4>2. Pipeline!Claim("bus")
        BY <1>3, <2>3, <3>1, <3>3, <4>1, Moves
           DEF Pipeline!Claim, Pipeline!Wins, Phase, InHand, Watched
      <4> QED
        BY <4>2 DEF Pipeline!Next
    <3> QED
      BY <3>2, <3>3
  <2>4. CASE intent \notin PipelineKeys
    <3>1. UNCHANGED <<Phase, InHand, Watched>>
      BY <2>1, <2>2, <2>4 DEF Phase, InHand, KeyIn, PhaseOf, Watched
    <3> QED
      BY <1>2, <3>1, Unseen
  <2> QED
    BY <2>3, <2>4
<1>7. CASE Finish
  <2>1. /\ UNCHANGED <<claimed, intent>>
        /\ pc["bus"] = "finish" /\ pc'["bus"] = "idle"
    BY <1>7 DEF Finish, durable, locals
  <2>2. UNCHANGED <<Phase, InHand>>
    BY <2>1 DEF Phase, InHand, KeyIn, PhaseOf
  <2> QED
    BY <1>2, <2>1, <2>2, Unseen DEF Watched
<1> QED
  BY <1>4, <1>5, <1>6, <1>7, <1>8 DEF RunnerStep

(* The request leaves.                                                     *)
LEMMA RefineSend ==
  ASSUME KeyInv, SendRequest
  PROVE  [Pipeline!Next]_(Pipeline!vars)
<1> USE EMSXAssumption, WatchAssumption DEF KeyInv, Shape, Steps, Goto
<1>1. /\ UNCHANGED <<claimed, intent, orders>>
      /\ pc["bus"] = "submit" /\ pc'["bus"] = "await"
  BY DEF SendRequest, durable, locals, venue
<1>2. Phase' = "idle" /\ InHand' = NoKey /\ Watched' = Watched
  BY <1>1 DEF Phase, InHand, KeyIn, PhaseOf, Watched
<1>3. CASE intent \in PipelineKeys
  <2>1. Phase = "submitting" /\ InHand = intent
    BY <1>1, <1>3 DEF Phase, InHand, KeyIn, PhaseOf
  <2>2. request = NoKey /\ request' = intent
    BY DEF SendRequest
  <2>3. ASSUME NEW k \in PipelineKeys
        PROVE  LiveOf(k)' = IF k = intent THEN LiveOf(k) + 1 ELSE LiveOf(k)
    <3>1. Sent(k)' = Sent(k)
      BY <1>1 DEF Sent
    <3>2. Cardinality(Sent(k)) \in Nat
      BY SentFinite
    <3>3. LiveOf(k)' = Cardinality(Sent(k)) + (IF request' = k THEN 1 ELSE 0)
      BY <3>1 DEF LiveOf, Sent
    <3>4. LiveOf(k) = Cardinality(Sent(k))
      BY <2>2, <3>2, LiveIs
    <3> QED
      BY <2>2, <3>2, <3>3, <3>4
  <2>4. [k \in PipelineKeys |-> LiveOf(k)]'
          = [[k \in PipelineKeys |-> LiveOf(k)] EXCEPT ![intent] = @ + 1]
    BY <2>3
  <2>5. Pipeline!Send("bus")
    BY <1>2, <2>1, <2>4, Moves DEF Pipeline!Send, Phase, InHand, Watched
  <2> QED
    BY <2>5 DEF Pipeline!Next
<1>4. CASE intent \notin PipelineKeys
  <2>1. UNCHANGED <<Phase, InHand>>
    BY <1>2, <1>4 DEF Phase, InHand, KeyIn, PhaseOf
  <2>2. ASSUME NEW k \in PipelineKeys
        PROVE  LiveOf(k)' = LiveOf(k)
    <3>1. Sent(k)' = Sent(k)
      BY <1>1 DEF Sent
    <3>2. LiveOf(k)' = Cardinality(Sent(k)) + (IF request' = k THEN 1 ELSE 0)
      BY <3>1 DEF LiveOf, Sent
    <3>3. request # k /\ request' # k
      BY <1>4 DEF SendRequest
    <3> QED
      BY <3>2, <3>3, LiveIs
  <2> QED
    BY <1>2, <2>1, <2>2, Unseen
<1> QED
  BY <1>3, <1>4

(* The rest of the service: the pipeline does not see it.                  *)
LEMMA RefineRest ==
  ASSUME KeyInv,
         HandleResponse \/ ReplayUpdate \/ ReplayFill \/ ReplayDone
           \/ Persist("bus", "replay") \/ SubsStep
  PROVE  UNCHANGED Pipeline!vars
<1> USE EMSXAssumption DEF KeyInv, Shape, Steps, Goto
<1>1. UNCHANGED <<claimed, intent, orders, request>>
  BY DEF HandleResponse, ReplayUpdate, ReplayFill, ReplayDone, Persist, ReadPosition,
         WritePosition, SubsStep, SubsTake, SubsUpdate, SubsFill, DispatchFill, OnFill,
         SubsCallRaises, SubsInsertRaises, LeaveMessage, OnFillUnstored,
         feed, durable, locals, venue
<1>2. \/ pc'["bus"] = pc["bus"]
      \/ /\ pc["bus"] \notin {"validate", "claim", "submit"}
         /\ pc'["bus"] \notin {"validate", "claim", "submit"}
  BY DEF HandleResponse, ReplayUpdate, ReplayFill, ReplayDone, Persist, ReadPosition,
         WritePosition, SubsStep, SubsTake, SubsUpdate, SubsFill, SubsCallRaises,
         SubsInsertRaises, LeaveMessage
<1>3. UNCHANGED <<Phase, InHand, Watched>>
  BY <1>1, <1>2 DEF Phase, InHand, KeyIn, PhaseOf, Watched
<1> QED
  BY <1>1, <1>3, SameLive, Unseen

(* The venue: an accepted request stays live, as an order.                 *)
LEMMA RefineVenue ==
  ASSUME KeyInv, VenueReplies \/ \E s \in DOMAIN orders : VenueWorks(s)
  PROVE  [Pipeline!Next]_(Pipeline!vars)
<1> USE EMSXAssumption, WatchAssumption
<1>1. UNCHANGED <<pc, intent, claimed>>
  BY DEF VenueReplies, VenueAccepts, VenueRefuses, VenueWorks, runnerVars, durable, locals
<1>2. UNCHANGED <<Phase, InHand, Watched>>
  BY <1>1 DEF Phase, InHand, Watched
<1>3. CASE VenueAccepts
  <2> DEFINE n == Len(orders) + 1
             o == [key |-> request, leaves |-> request.qty, filled |-> 0, working |-> FALSE]
  <2>1. request # NoKey /\ request' = NoKey /\ orders' = Append(orders, o)
    BY <1>3 DEF VenueAccepts
  <2>2. o.key = request
    OBVIOUS
  <2> HIDE DEF o
  <2>3. /\ DOMAIN orders' = DOMAIN orders \cup {n} /\ n \notin DOMAIN orders
        /\ \A s \in DOMAIN orders : orders'[s] = orders[s]
        /\ orders'[n] = o
    <3>1. /\ DOMAIN orders' = DOMAIN orders \cup {Len(orders) + 1}
          /\ \A s \in DOMAIN orders : orders'[s] = orders[s]
          /\ orders'[Len(orders) + 1] = o
          /\ Len(orders) \in Nat /\ DOMAIN orders = 1..Len(orders)
      BY <2>1, AppendOrder DEF KeyInv, Shape
    <3> QED
      BY <3>1
  <2> HIDE DEF n
  <2>4. ASSUME NEW k \in PipelineKeys
        PROVE  LiveOf(k)' = LiveOf(k)
    <3>1. IsFiniteSet(Sent(k)) /\ Cardinality(Sent(k)) \in Nat
      BY SentFinite
    <3>2. LiveOf(k)' = Cardinality(Sent(k)')
      <4>1. request' # k
        BY <2>1
      <4>2. LiveOf(k)' = Cardinality(Sent(k)') + (IF request' = k THEN 1 ELSE 0)
        BY DEF LiveOf, Sent
      <4>3. IsFiniteSet(Sent(k)')
        <5>1. Sent(k)' \subseteq Sent(k) \cup {n}
          BY <2>3 DEF Sent
        <5>2. IsFiniteSet(Sent(k) \cup {n})
          BY <3>1, FS_AddElement
        <5> QED
          BY <5>1, <5>2, FS_Subset
      <4>4. Cardinality(Sent(k)') \in Nat
        BY <4>3, FS_CardinalityType
      <4> QED
        BY <4>1, <4>2, <4>4
    <3>3. CASE request = k
      <4>1. Sent(k)' = Sent(k) \cup {n} /\ n \notin Sent(k)
        BY <2>2, <2>3, <3>3 DEF Sent
      <4>2. Cardinality(Sent(k)') = Cardinality(Sent(k)) + 1
        BY <3>1, <4>1, FS_AddElement
      <4> QED
        BY <3>2, <3>3, <4>2, LiveIs
    <3>4. CASE request # k
      <4>1. Sent(k)' = Sent(k)
        BY <2>2, <2>3, <3>4 DEF Sent
      <4> QED
        BY <3>1, <3>2, <3>4, <4>1, LiveIs
    <3> QED
      BY <3>3, <3>4
  <2> QED
    BY <1>2, <2>4, Unseen
<1>4. CASE VenueRefuses
  <2>1. request # NoKey /\ request' = NoKey /\ orders' = orders
    BY <1>4 DEF VenueRefuses
  <2>2. ASSUME NEW k \in PipelineKeys
        PROVE  /\ LiveOf(k)' = IF k = request THEN LiveOf(k) - 1 ELSE LiveOf(k)
               /\ k = request => LiveOf(k) > 0
    <3>1. Cardinality(Sent(k)) \in Nat
      BY SentFinite
    <3>2. LiveOf(k)' = Cardinality(Sent(k)) + (IF request' = k THEN 1 ELSE 0)
      BY <2>1 DEF LiveOf, Sent
    <3>3. request' # k
      BY <2>1
    <3> QED
      BY <3>1, <3>2, <3>3, LiveIs
  <2>3. CASE request \in PipelineKeys
    <3>1. [k \in PipelineKeys |-> LiveOf(k)]'
            = [[k \in PipelineKeys |-> LiveOf(k)] EXCEPT ![request] = @ - 1]
      BY <2>2, <2>3
    <3>2. Pipeline!Refuse(request)
      BY <1>2, <2>2, <2>3, <3>1 DEF Pipeline!Refuse, Phase, InHand, Watched
    <3> QED
      BY <2>3, <3>2 DEF Pipeline!Next
  <2>4. CASE request \notin PipelineKeys
    BY <1>2, <2>2, <2>4, Unseen
  <2> QED
    BY <2>3, <2>4
<1>5. ASSUME NEW s \in DOMAIN orders, VenueWorks(s)
      PROVE  UNCHANGED Pipeline!vars
  <2>1. request' = request
    BY <1>5 DEF VenueWorks
  <2>2. /\ DOMAIN orders' = DOMAIN orders
        /\ \A t \in DOMAIN orders : orders'[t].key = orders[t].key
    BY <1>5, KeptKeys
  <2>3. ASSUME NEW k \in PipelineKeys
        PROVE  LiveOf(k)' = LiveOf(k)
    <3>1. Sent(k)' = Sent(k)
      BY <2>2 DEF Sent
    <3>2. LiveOf(k)' = Cardinality(Sent(k)) + (IF request' = k THEN 1 ELSE 0)
      BY <3>1 DEF LiveOf, Sent
    <3> QED
      BY <2>1, <3>2, LiveIs
  <2> QED
    BY <1>2, <2>3, Unseen
<1> QED
  BY <1>3, <1>4, <1>5 DEF VenueReplies

(* A crash, or an exception on the bus thread, loses the intent in hand    *)
(* and nothing else of the pipeline.                                       *)
LEMMA RefineLeave ==
  ASSUME KeyInv, CrashAndRestart \/ BusCallRaises \/ BusInsertRaises
  PROVE  [Pipeline!Next]_(Pipeline!vars)
<1> USE EMSXAssumption, WatchAssumption
<1>1. UNCHANGED <<claimed, orders, request>> /\ pc'["bus"] = "idle"
  BY DEF CrashAndRestart, Restart, BusCallRaises, BusInsertRaises, LeaveSubmit, Goto, KeyInv,
         Shape, durable, venue
<1>2. Phase' = "idle" /\ InHand' = NoKey /\ Watched' = Watched
  BY <1>1 DEF Phase, InHand, KeyIn, PhaseOf, Watched
<1>3. \A k : LiveOf(k)' = LiveOf(k)
  BY <1>1, SameLive
<1>4. CASE Phase = "idle"
  <2>1. InHand = NoKey
    BY <1>4 DEF Phase, InHand, KeyIn
  <2> QED
    BY <1>2, <1>3, <1>4, <2>1, Unseen
<1>5. CASE Phase # "idle"
  <2>1. [k \in PipelineKeys |-> LiveOf(k)]' = [k \in PipelineKeys |-> LiveOf(k)]
    BY <1>3
  <2>2. Pipeline!GiveUp("bus")
    BY <1>2, <1>5, <2>1, Moves DEF Pipeline!GiveUp, Phase, Watched
  <2> QED
    BY <2>2 DEF Pipeline!Next
<1> QED
  BY <1>4, <1>5

LEMMA RefineInit == Init => Pipeline!Init
<1> SUFFICES ASSUME Init PROVE Pipeline!Init
  OBVIOUS
<1> USE EMSXAssumption, WatchAssumption
<1>1. /\ pc["bus"] = "idle" /\ claimed = {} /\ orders = <<>> /\ request = NoKey
  BY DEF Init, RunnerInit
<1>2. PhaseOf(pc["bus"], intent) = "idle" /\ KeyIn(pc["bus"], intent) = NoKey
  BY <1>1 DEF KeyIn, PhaseOf
<1>3. ASSUME NEW k \in PipelineKeys
      PROVE  LiveOf(k) = 0
  <2>1. Sent(k) = {}
    BY <1>1 DEF Sent
  <2>2. Cardinality(Sent(k)) = 0
    BY <2>1, FS_EmptySet
  <2>3. request # k
    BY <1>1
  <2> QED
    BY <2>2, <2>3, LiveIs
<1> QED
  BY <1>1, <1>2, <1>3 DEF Pipeline!Init

(* The execution service over EMSX does what the pipeline promises for     *)
(* every set of keys: the bus thread is a runner of it, and whatever the   *)
(* subs thread, the venue, an exception or a crash do is one of its steps  *)
(* or changes nothing it sees.                                             *)
THEOREM Refinement == Spec => ImplementsPipeline
<1>1. KeyInv /\ [Next]_vars => [Pipeline!Next]_(Pipeline!vars)
  <2> SUFFICES ASSUME KeyInv, [Next]_vars PROVE [Pipeline!Next]_(Pipeline!vars)
    OBVIOUS
  <2>1. CASE UNCHANGED vars
    <3>1. UNCHANGED <<pc, intent, claimed, orders, request>>
      BY <2>1 DEF vars, runnerVars, durable, locals, venue
    <3>2. UNCHANGED <<Phase, InHand, Watched>>
      BY <3>1 DEF Phase, InHand, Watched
    <3> QED
      BY <3>1, <3>2, SameLive, Unseen
  <2>2. CASE Next
    BY <2>2, RefineRunner, RefineSend, RefineRest, RefineVenue, RefineLeave
       DEF Next, BusStep
  <2> QED
    BY <2>1, <2>2
<1> QED
  BY <1>1, RefineInit, KeyInvariant, PTL DEF Spec, ImplementsPipeline, Pipeline!Spec

-----------------------------------------------------------------------------
(* Counting the places of an element in a sequence.                        *)
LEMMA OccurrencesIs ==
  ASSUME NEW S, NEW s \in Seq(S), NEW i
  PROVE  /\ {n \in DOMAIN s : s[n] = i} = {n \in 1..Len(s) : s[n] = i}
         /\ IsFiniteSet({n \in DOMAIN s : s[n] = i})
         /\ Occurrences(i, s) \in Nat
<1> DEFINE A == {n \in DOMAIN s : s[n] = i}
<1>1. DOMAIN s = 1..Len(s) /\ Len(s) \in Nat
  OBVIOUS
<1>2. IsFiniteSet(A)
  <2>1. IsFiniteSet(DOMAIN s)
    BY <1>1, FS_Interval
  <2>2. A \in SUBSET DOMAIN s
    OBVIOUS
  <2> QED
    BY <2>1, <2>2, FS_Subset
<1>3. Cardinality(A) \in Nat
  BY <1>2, FS_CardinalityType
<1> QED
  BY <1>1, <1>2, <1>3 DEF Occurrences

LEMMA OccurrencesNone ==
  ASSUME NEW S, NEW s \in Seq(S), NEW i, i \notin S
  PROVE  Occurrences(i, s) = 0
<1>1. {n \in DOMAIN s : s[n] = i} = {}
  OBVIOUS
<1> QED
  BY <1>1, FS_EmptySet DEF Occurrences

LEMMA OccurrencesEmpty == \A i : Occurrences(i, <<>>) = 0
<1>1. \A i : {n \in DOMAIN <<>> : <<>>[n] = i} = {}
  OBVIOUS
<1> QED
  BY <1>1, FS_EmptySet DEF Occurrences

LEMMA OccurrencesAppend ==
  ASSUME NEW S, NEW s \in Seq(S), NEW x \in S, NEW i
  PROVE  Occurrences(i, Append(s, x)) = Occurrences(i, s) + (IF x = i THEN 1 ELSE 0)
<1> DEFINE t == Append(s, x)
           m == Len(s) + 1
           A == {n \in DOMAIN s : s[n] = i}
           B == {n \in DOMAIN t : t[n] = i}
<1>1. /\ t \in Seq(S) /\ DOMAIN t = DOMAIN s \cup {m} /\ m \notin DOMAIN s
      /\ t[m] = x /\ \A n \in DOMAIN s : t[n] = s[n]
  OBVIOUS
<1>2. IsFiniteSet(A) /\ Cardinality(A) \in Nat
  BY OccurrencesIs DEF Occurrences
<1> HIDE DEF t, m
<1>3. CASE x = i
  <2>1. B = A \cup {m} /\ m \notin A
    BY <1>1, <1>3
  <2>2. Cardinality(B) = Cardinality(A) + 1
    <3> HIDE DEF A, B
    <3> QED BY <1>2, <2>1, FS_AddElement
  <2> QED
    BY <1>3, <2>2 DEF Occurrences, t
<1>4. CASE x # i
  <2>1. B = A
    BY <1>1, <1>4
  <2>2. Occurrences(i, Append(s, x)) = Occurrences(i, s)
    BY <2>1 DEF Occurrences, t
  <2>3. Occurrences(i, s) \in Nat
    BY OccurrencesIs
  <2> QED
    BY <1>4, <2>2, <2>3
<1> QED
  BY <1>3, <1>4

LEMMA OccurrencesTail ==
  ASSUME NEW S, NEW s \in Seq(S), s # <<>>, NEW i
  PROVE  Occurrences(i, s) = Occurrences(i, Tail(s)) + (IF Head(s) = i THEN 1 ELSE 0)
<1> DEFINE t == Tail(s)
           A == {n \in DOMAIN s : s[n] = i}
           R == A \ {1}
           B == {n \in DOMAIN t : t[n] = i}
           f == [n \in R |-> n - 1]
<1>1. /\ t \in Seq(S) /\ DOMAIN s = 1..Len(s) /\ DOMAIN t = 1..(Len(s) - 1)
      /\ Len(s) \in Nat \ {0} /\ Head(s) = s[1]
      /\ \A n \in 1..(Len(s) - 1) : t[n] = s[n + 1]
  OBVIOUS
<1>2. IsFiniteSet(A) /\ Cardinality(A) \in Nat
  BY OccurrencesIs DEF Occurrences
<1> HIDE DEF t
<1>3. R \subseteq 2..Len(s) /\ 2..Len(s) \subseteq Int
  BY <1>1
<1>4. f \in [R -> B]
  <2>1. \A n \in R : n - 1 \in B
    BY <1>1
  <2> QED
    BY <2>1
<1>5. \A n \in R : \A m \in R : f[n] = f[m] => n = m
  BY <1>3
<1>6. \A b \in B : \E n \in R : f[n] = b
  <2>1. \A b \in B : b + 1 \in R /\ (b + 1) - 1 = b
    BY <1>1
  <2> QED
    BY <2>1
<1>7. ExistsBijection(R, B)
  <2> HIDE DEF f, R, B
  <2> QED
    BY <1>4, <1>5, <1>6 DEF ExistsBijection, Bijection, Injection, Surjection, IsInjective
<1>8. IsFiniteSet(R) /\ Cardinality(R) = IF 1 \in A THEN Cardinality(A) - 1 ELSE Cardinality(A)
  <2> HIDE DEF A
  <2> QED
    BY <1>2, FS_RemoveElement
<1>9. Cardinality(B) = Cardinality(R)
  <2> HIDE DEF R, B
  <2> QED
    BY <1>7, <1>8, FS_Bijection
<1>10. 1 \in A <=> Head(s) = i
  BY <1>1
<1>11. Occurrences(i, s) = Cardinality(A) /\ Occurrences(i, Tail(s)) = Cardinality(B)
  BY DEF Occurrences, t
<1> HIDE DEF A, B, R
<1> QED
  BY <1>2, <1>8, <1>9, <1>10, <1>11

-----------------------------------------------------------------------------
(* The fills.                                                              *)

(* The venue's events are of its orders, and the subs thread is somewhere  *)
(* among them.                                                             *)
StreamShape ==
  /\ DOMAIN orders = 1..Len(orders) /\ Len(orders) <= MaxOrders /\ Len(orders) \in Nat
  /\ \E E : stream \in Seq(E)
  /\ \A i \in 1..Len(stream) : stream[i].seq \in DOMAIN orders
  /\ cursor \in Nat /\ cursor <= Len(stream)

(* The event in hand is one it took; fills wait in the buffer of their     *)
(* own sequence, and are replayed by the bus thread alone, those of one    *)
(* sequence at a time.                                                     *)
Handling == {"update", "fill"}
Replaying == {"replay", "read", "write"}
Spilled   == lost \cup unstored
Taken(s)  == {i \in 1..cursor : stream[i].seq = s}
FillsShape ==
  /\ pc["subs"] \in {"idle", "read", "write"} \cup Handling
  /\ IF pc["subs"] \in Handling THEN job \in 1..cursor ELSE job = 0
  /\ \A s \in Seqs : pendingFills[s] \in Seq({i \in 1..cursor : stream[i].seq = s})
  /\ \E s \in DOMAIN orders \cup {0} : replayFills \in Seq(Taken(s))
  /\ replayFills \in Seq(1..cursor)
  /\ replayFills # <<>> => pc["bus"] \in Replaying
  /\ dbFills \in Seq(Nat)
  /\ crashes \in Nat
  /\ crashes = 0 => dbFills \in Seq(1..cursor) /\ Spilled \subseteq 1..cursor
  /\ raises \in Nat
  /\ Spilled \subseteq 1..Len(stream)

FillInv == StreamShape /\ FillsShape /\ EveryFillSomewhere

LEMMA HeldIs ==
  ASSUME FillInv, NEW i
  PROVE  /\ Occurrences(i, replayFills) \in Nat /\ Occurrences(i, dbFills) \in Nat
         /\ i \in 1..cursor =>
              /\ stream[i].seq \in Seqs
              /\ Occurrences(i, pendingFills[stream[i].seq]) \in Nat
              /\ HeldCopies(i) \in Nat
         /\ Outcomes(i) \in Nat
<1> USE DEF FillInv, FillsShape, StreamShape
<1>1. Occurrences(i, replayFills) \in Nat /\ Occurrences(i, dbFills) \in Nat
  BY OccurrencesIs
<1>2. ASSUME i \in 1..cursor
      PROVE  stream[i].seq \in Seqs /\ Occurrences(i, pendingFills[stream[i].seq]) \in Nat
  <2>1. stream[i].seq \in Seqs
    BY <1>2, EMSXAssumption DEF Seqs
  <2>2. pendingFills[stream[i].seq] \in Seq({j \in 1..cursor : stream[j].seq = stream[i].seq})
    BY <2>1
  <2> HIDE DEF FillInv
  <2> QED
    BY <2>1, <2>2, OccurrencesIs
<1>3. Outcomes(i) \in Nat
  BY <1>1 DEF Outcomes
<1> QED
  BY <1>1, <1>2, <1>3 DEF HeldCopies

(* A step that moves no fill.                                              *)
FillsRest ==
  /\ UNCHANGED <<stream, cursor, pendingFills, replayFills, dbFills, crashes, job, lost,
                 unstored>>
  /\ raises' \in {raises, raises + 1}
FillsThreads ==
  /\ \/ pc'["subs"] = pc["subs"]
     \/ /\ pc["subs"] \in {"idle", "read", "write"}
        /\ pc'["subs"] \in {"idle", "read", "write"}
  /\ \/ replayFills = <<>>
     \/ pc'["bus"] \in Replaying
     \/ pc'["bus"] = pc["bus"]

LEMMA SpilledFinite ==
  ASSUME FillInv
  PROVE  /\ IsFiniteSet({stream[i].seq : i \in Spilled})
         /\ Cardinality({stream[i].seq : i \in Spilled}) \in Nat
<1>1. {stream[i].seq : i \in Spilled} \subseteq 1..Len(orders)
  BY DEF FillInv, FillsShape, StreamShape
<1>2. IsFiniteSet(1..Len(orders))
  BY FS_Interval DEF FillInv, StreamShape
<1> QED
  BY <1>1, <1>2, FS_Subset, FS_CardinalityType

LEMMA FillsRestStep ==
  ASSUME FillInv, FillsRest, UNCHANGED orders, FillsThreads
  PROVE  FillInv'
<1> USE DEF FillInv, FillsRest, FillsThreads, Handling
<1>1. StreamShape'
  BY DEF StreamShape
<1>2. FillsShape'
  <2>1. \A s : Taken(s)' = Taken(s)
    BY DEF Taken
  <2>2. Spilled' = Spilled
    BY DEF Spilled
  <2>3. raises' \in Nat
    BY DEF FillsShape
  <2>4. \E s \in DOMAIN orders' \cup {0} : replayFills' \in Seq(Taken(s)')
    BY <2>1 DEF FillsShape
  <2> QED
    BY <2>2, <2>3, <2>4 DEF FillsShape
<1>3. EveryFillSomewhere'
  <2>1. Cardinality({stream[i].seq : i \in Spilled}) \in Nat
    BY SpilledFinite
  <2> QED
    BY <2>1 DEF EveryFillSomewhere, HeldCopies, Outcomes, FillsShape, Spilled
<1> QED
  BY <1>1, <1>2, <1>3

LEMMA FillsRunner ==
  ASSUME KeyInv, FillInv,
         TargetArrives \/ RunnerStep \/ SendRequest \/ ReplayUpdate
           \/ ReplayDone \/ Persist("bus", "replay") \/ Persist("subs", "idle")
  PROVE  FillInv'
<1> USE EMSXAssumption
<1>1. FillsRest
  BY DEF TargetArrives, RunnerStep, ReadWorking, Validate, ClaimAndRegister, Finish, OnTarget,
         SendRequest, ReplayUpdate, ReplayDone, Persist, ReadPosition,
         WritePosition, feed, durable, venue, subs, adapter, buffers, replays, FillsRest
<1>2. UNCHANGED orders
  BY DEF TargetArrives, RunnerStep, SendRequest, ReplayUpdate,
         ReplayDone, Persist, venue
<1>3. replayFills = <<>> \/ pc["bus"] \in Replaying
  BY DEF FillInv, FillsShape
<1>4. CASE TargetArrives \/ RunnerStep \/ SendRequest
  <2>1. pc["bus"] \notin Replaying
    BY <1>4 DEF TargetArrives, RunnerStep, ReadWorking, Validate, ClaimAndRegister, Finish, OnTarget,
                SendRequest, Replaying
  <2>2. pc'["subs"] = pc["subs"]
    BY <1>4 DEF TargetArrives, RunnerStep, ReadWorking, Validate, ClaimAndRegister, Finish, OnTarget,
                SendRequest, Goto, KeyInv, Shape
  <2> QED
    BY <1>1, <1>2, <1>3, <2>1, <2>2, FillsRestStep DEF FillsThreads
<1>5. CASE ReplayUpdate
  <2>1. pc' = pc
    BY <1>5 DEF ReplayUpdate
  <2> QED
    BY <1>1, <1>2, <2>1, FillsRestStep DEF FillsThreads
<1>6. CASE ReplayDone
  <2>1. replayFills = <<>> /\ pc'["subs"] = pc["subs"]
    BY <1>6 DEF ReplayDone, Goto, KeyInv, Shape
  <2> QED
    BY <1>1, <1>2, <2>1, FillsRestStep DEF FillsThreads
<1>7. CASE Persist("bus", "replay")
  <2>1. pc'["bus"] \in Replaying /\ pc'["subs"] = pc["subs"]
    BY <1>7 DEF Persist, ReadPosition, WritePosition, Goto, KeyInv, Shape, Replaying
  <2> QED
    BY <1>1, <1>2, <2>1, FillsRestStep DEF FillsThreads
<1>8. CASE Persist("subs", "idle")
  <2>1. /\ pc["subs"] \in {"read", "write"} /\ pc'["subs"] \in {"idle", "write"}
        /\ pc'["bus"] = pc["bus"]
    BY <1>8 DEF Persist, ReadPosition, WritePosition, Goto, KeyInv, Shape
  <2> QED
    BY <1>1, <1>2, <2>1, FillsRestStep DEF FillsThreads
<1> QED
  BY <1>4, <1>5, <1>6, <1>7, <1>8

(* The buffer of a sequence becomes what is left to replay.                *)
LEMMA FillsResponse ==
  ASSUME KeyInv, FillInv, HandleResponse
  PROVE  FillInv'
<1> USE EMSXAssumption
<1>1. /\ UNCHANGED <<orders, stream, cursor, job, dbFills, crashes, raises, lost, unstored,
                     Spilled>>
      /\ pc["bus"] = "await" /\ pc'["subs"] = pc["subs"]
      /\ replayFills = <<>>
  BY DEF HandleResponse, feed, durable, venue, subs, Goto, KeyInv, Shape, FillInv, FillsShape,
         Replaying, Spilled
<1>2. CASE response = 0
  <2>1. UNCHANGED <<pendingFills, replayFills>>
    BY <1>2 DEF HandleResponse, buffers, replays
  <2> QED
    BY <1>1, <2>1, FillsRestStep DEF FillsRest, FillsThreads
<1>3. CASE response # 0
  <2>1. /\ response \in Seqs /\ pc'["bus"] = "replay"
        /\ replayFills' = pendingFills[response]
        /\ pendingFills' = [pendingFills EXCEPT ![response] = <<>>]
        /\ pendingFills = [s \in Seqs |-> pendingFills[s]]
    BY <1>3 DEF HandleResponse, KeyInv, Shape, Goto, Steps
  <2>2. /\ pendingFills'[response] = <<>>
        /\ \A s \in Seqs : s # response => pendingFills'[s] = pendingFills[s]
    BY <2>1
  <2>3. StreamShape'
    BY <1>1 DEF FillInv, StreamShape
  <2>4. FillsShape'
    <3>1. replayFills' \in Seq({i \in 1..cursor : stream[i].seq = response})
      BY <2>1 DEF FillInv, FillsShape
    <3>2. replayFills' \in Seq(1..cursor)
      BY <3>1, SeqMonotonic
    <3>3. \A T : <<>> \in Seq(T)
      OBVIOUS
    <3>4. \E s \in DOMAIN orders \cup {0} : replayFills' \in Seq(Taken(s))
      <4>1. CASE response \in DOMAIN orders
        BY <3>1, <4>1 DEF Taken
      <4>2. CASE response \notin DOMAIN orders
        <5>1. \A i \in 1..cursor : stream[i].seq # response
          BY <4>2 DEF FillInv, StreamShape
        <5>2. {i \in 1..cursor : stream[i].seq = response} = {}
          BY <5>1
        <5>3. replayFills' \in Seq(Taken(0))
          BY <3>1, <5>2, SeqMonotonic
        <5> QED
          BY <5>3
      <4> QED
        BY <4>1, <4>2
    <3>5. \E s \in DOMAIN orders' \cup {0} : replayFills' \in Seq(Taken(s)')
      BY <1>1, <3>4 DEF Taken
    <3> QED
      BY <1>1, <2>1, <2>2, <3>2, <3>3, <3>5 DEF FillInv, FillsShape, Replaying
  <2>5. ASSUME NEW i \in 1..cursor
        PROVE  HeldCopies(i)' = HeldCopies(i)
    <3>1. Occurrences(i, replayFills) = 0
      BY <1>1, OccurrencesEmpty
    <3>2. stream[i].seq \in Seqs /\ Occurrences(i, pendingFills[stream[i].seq]) \in Nat
      BY HeldIs
    <3>3. CASE stream[i].seq = response
      <4>1. Occurrences(i, pendingFills'[stream[i].seq]) = 0
        BY <2>2, <3>3, OccurrencesEmpty
      <4> QED
        BY <1>1, <2>1, <3>1, <3>2, <3>3, <4>1 DEF HeldCopies
    <3>4. CASE stream[i].seq # response
      <4>1. pendingFills[response] \in Seq({j \in 1..cursor : stream[j].seq = response})
        BY <2>1 DEF FillInv, FillsShape
      <4>2. Occurrences(i, replayFills') = 0
        BY <2>1, <3>4, <4>1, OccurrencesNone
      <4> QED
        BY <1>1, <2>2, <3>1, <3>2, <3>4, <4>2 DEF HeldCopies
    <3> QED
      BY <3>3, <3>4
  <2>6. EveryFillSomewhere'
    BY <1>1, <2>5 DEF FillInv, EveryFillSomewhere, Outcomes
  <2> QED
    BY <2>3, <2>4, <2>6 DEF FillInv
<1> QED
  BY <1>2, <1>3

(* A step that takes held fills out of hand, each to one place, and spills *)
(* those of one sequence at most, for a call that raised.                  *)
LEMMA Conserves ==
  ASSUME FillInv, NEW moved, NEW spilled, NEW q, UNCHANGED <<stream, cursor, crashes>>,
         \A i \in 1..cursor : stream[i].fill > 0 =>
           /\ HeldCopies(i)' \in Nat
           /\ HeldCopies(i) = HeldCopies(i)' + (IF i \in moved THEN 1 ELSE 0)
           /\ i \in moved => /\ Outcomes(i)' \in Nat \ {0}
                             /\ Outcomes(i) = 0 => Outcomes(i)' = 1
           /\ i \notin moved => Outcomes(i)' = Outcomes(i),
         Spilled' = Spilled \cup spilled,
         \A i \in spilled : stream[i].seq = q,
         raises' = raises + 1 \/ (raises' = raises /\ spilled = {})
  PROVE  EveryFillSomewhere'
<1>1. ASSUME NEW i \in 1..cursor, stream[i].fill > 0
      PROVE  /\ HeldCopies(i)' <= 1
             /\ HeldCopies(i)' + Outcomes(i)' >= 1
             /\ crashes' = 0 => HeldCopies(i)' + Outcomes(i)' = 1
  <2>1. HeldCopies(i) \in Nat /\ Outcomes(i) \in Nat
    BY HeldIs
  <2>2. /\ HeldCopies(i) <= 1 /\ HeldCopies(i) + Outcomes(i) >= 1
        /\ crashes = 0 => HeldCopies(i) + Outcomes(i) = 1
    BY <1>1 DEF FillInv, EveryFillSomewhere
  <2>3. CASE i \in moved
    <3>1. /\ HeldCopies(i)' \in Nat /\ HeldCopies(i) = HeldCopies(i)' + 1
          /\ Outcomes(i)' \in Nat \ {0} /\ (Outcomes(i) = 0 => Outcomes(i)' = 1)
      BY <1>1, <2>3
    <3> QED
      BY <2>1, <2>2, <3>1
  <2>4. CASE i \notin moved
    BY <1>1, <2>1, <2>2, <2>4
  <2> QED
    BY <2>3, <2>4
<1>2. Cardinality({stream[i].seq : i \in Spilled'}) <= raises'
  <2> DEFINE A == {stream[i].seq : i \in Spilled}
             B == {stream[i].seq : i \in Spilled'}
  <2>1. IsFiniteSet(A) /\ Cardinality(A) \in Nat
    BY SpilledFinite
  <2>2. Cardinality(A) <= raises /\ raises \in Nat
    BY DEF FillInv, FillsShape, EveryFillSomewhere, Spilled
  <2>3. CASE spilled = {}
    BY <2>1, <2>2, <2>3
  <2>4. CASE spilled # {}
    <3>1. B \subseteq A \cup {q}
      OBVIOUS
    <3> HIDE DEF A, B
    <3>2. /\ IsFiniteSet(A \cup {q})
          /\ Cardinality(A \cup {q}) \in {Cardinality(A), Cardinality(A) + 1}
      BY <2>1, FS_AddElement
    <3>3. Cardinality(B) \in Nat /\ Cardinality(B) <= Cardinality(A \cup {q})
      BY <3>1, <3>2, FS_Subset, FS_CardinalityType
    <3>4. Cardinality(B) <= raises'
      BY <2>1, <2>2, <2>4, <3>2, <3>3
    <3> QED
      BY <3>4 DEF B
  <2> QED
    BY <2>3, <2>4
<1> QED
  BY <1>1, <1>2 DEF EveryFillSomewhere, Spilled

(* What is in a sequence occurs in it.                                     *)
LEMMA OccursIn ==
  ASSUME NEW S, NEW s \in Seq(S), NEW i
  PROVE  i \in Replayed(s) <=> Occurrences(i, s) >= 1
<1> DEFINE A == {n \in DOMAIN s : s[n] = i}
<1>1. IsFiniteSet(A) /\ Cardinality(A) \in Nat
  BY OccurrencesIs DEF Occurrences
<1>2. A = {} <=> Cardinality(A) = 0
  BY <1>1, FS_EmptySet
<1>3. i \in Replayed(s) <=> A # {}
  BY DEF Replayed
<1> HIDE DEF A
<1>4. i \in Replayed(s) <=> Cardinality(A) >= 1
  BY <1>1, <1>2, <1>3
<1> QED
  BY <1>4 DEF Occurrences, A

(* Applying a fill that was held, from either thread: what was one held    *)
(* copy is one applied.                                                    *)
LEMMA Applies ==
  ASSUME FillInv, NEW j \in 1..cursor, dbFills' = Append(dbFills, j),
         UNCHANGED <<stream, cursor, crashes, raises, lost, unstored>>,
         \A i \in 1..cursor : HeldCopies(i) = HeldCopies(i)' + (IF i = j THEN 1 ELSE 0),
         \A i \in 1..cursor : HeldCopies(i)' \in Nat
  PROVE  /\ EveryFillSomewhere'
         /\ dbFills' \in Seq(Nat)
         /\ crashes' = 0 => dbFills' \in Seq(1..cursor')
<1>1. j \in Nat /\ dbFills \in Seq(Nat)
  BY DEF FillInv, FillsShape, StreamShape
<1>2. dbFills' \in Seq(Nat)
  BY <1>1
<1>3. crashes' = 0 => dbFills' \in Seq(1..cursor')
  BY DEF FillInv, FillsShape
<1>4. ASSUME NEW i \in 1..cursor
      PROVE  Outcomes(i)' = Outcomes(i) + (IF i = j THEN 1 ELSE 0) /\ Outcomes(i) \in Nat
  <2>1. Occurrences(i, dbFills') = Occurrences(i, dbFills) + (IF i = j THEN 1 ELSE 0)
    BY <1>1, OccurrencesAppend
  <2>2. Occurrences(i, dbFills) \in Nat
    BY HeldIs
  <2>3. Outcomes(i)' = Occurrences(i, dbFills') + (IF i \in unstored THEN 1 ELSE 0)
                         + (IF i \in lost THEN 1 ELSE 0)
    BY DEF Outcomes
  <2> QED
    BY <2>1, <2>2, <2>3 DEF Outcomes
<1> DEFINE moved == {j}
<1>5. \A i \in 1..cursor : stream[i].fill > 0 =>
           /\ HeldCopies(i)' \in Nat
           /\ HeldCopies(i) = HeldCopies(i)' + (IF i \in moved THEN 1 ELSE 0)
           /\ i \in moved => /\ Outcomes(i)' \in Nat \ {0}
                             /\ Outcomes(i) = 0 => Outcomes(i)' = 1
           /\ i \notin moved => Outcomes(i)' = Outcomes(i)
  BY <1>4
<1>6. Spilled' = Spilled \cup {}
  BY DEF Spilled
<1> DEFINE none == {}
<1>8. \A i \in none : stream[i].seq = 0
  OBVIOUS
<1>9. Spilled' = Spilled \cup none
  BY <1>6
<1>10. raises' = raises /\ none = {} /\ UNCHANGED <<stream, cursor, crashes>>
  OBVIOUS
<1> HIDE DEF moved, none
<1>7. EveryFillSomewhere'
  BY <1>5, <1>8, <1>9, <1>10, Conserves
<1> QED
  BY <1>2, <1>3, <1>7

LEMMA FillsReplay ==
  ASSUME KeyInv, FillInv, ReplayFill
  PROVE  FillInv'
<1> USE EMSXAssumption
<1> DEFINE j == Head(replayFills)
<1>1. /\ UNCHANGED <<orders, stream, cursor, job, pendingFills, crashes, raises, lost,
                     unstored, Spilled>>
      /\ replayFills # <<>> /\ replayFills' = Tail(replayFills)
      /\ dbFills' = Append(dbFills, j)
      /\ pc'["subs"] = pc["subs"] /\ pc'["bus"] \in Replaying
  BY DEF ReplayFill, DispatchFill, OnFill, feed, venue, subs, buffers, Goto, KeyInv, Shape,
         Replaying, Spilled
<1>7. \E s \in DOMAIN orders' \cup {0} : replayFills' \in Seq(Taken(s)')
  <2>1. PICK s \in DOMAIN orders \cup {0} : replayFills \in Seq(Taken(s))
    BY DEF FillInv, FillsShape
  <2>2. Tail(replayFills) \in Seq(Taken(s))
    BY <1>1, <2>1, HeadTailProperties
  <2>3. Taken(s)' = Taken(s)
    BY <1>1 DEF Taken
  <2> QED
    BY <1>1, <2>2, <2>3
<1>2. j \in 1..cursor /\ replayFills' \in Seq(1..cursor)
  <2>1. replayFills \in Seq(1..cursor)
    BY DEF FillInv, FillsShape
  <2>2. j \in 1..cursor /\ Tail(replayFills) \in Seq(1..cursor)
    BY <1>1, <2>1, HeadTailProperties
  <2> QED
    BY <1>1, <2>2
<1>3. ASSUME NEW i \in 1..cursor
      PROVE  /\ HeldCopies(i) = HeldCopies(i)' + (IF i = j THEN 1 ELSE 0)
             /\ HeldCopies(i)' \in Nat
  <2>1. Occurrences(i, replayFills) = Occurrences(i, replayFills') + (IF j = i THEN 1 ELSE 0)
    BY <1>1, OccurrencesTail DEF FillInv, FillsShape
  <2>2. Occurrences(i, replayFills') \in Nat
    BY <1>2, OccurrencesIs
  <2>3. Occurrences(i, pendingFills[stream[i].seq]) \in Nat
    BY HeldIs
  <2> HIDE DEF j
  <2>4. HeldCopies(i)' = Occurrences(i, pendingFills[stream[i].seq])
                           + Occurrences(i, replayFills') + (IF job = i THEN 1 ELSE 0)
    BY <1>1 DEF HeldCopies
  <2> QED
    BY <2>1, <2>2, <2>3, <2>4 DEF HeldCopies
<1> HIDE DEF j
<1>4. /\ EveryFillSomewhere'
      /\ dbFills' \in Seq(Nat)
      /\ crashes' = 0 => dbFills' \in Seq(1..cursor')
  BY <1>1, <1>2, <1>3, Applies
<1>5. StreamShape'
  BY <1>1 DEF FillInv, StreamShape
<1>6. FillsShape'
  BY <1>1, <1>2, <1>4, <1>7 DEF FillInv, FillsShape
<1> QED
  BY <1>4, <1>5, <1>6 DEF FillInv

(* The event taken is in the thread's hand, or its fill is buffered.       *)
LEMMA FillsTake ==
  ASSUME KeyInv, FillInv, SubsTake
  PROVE  FillInv'
<1> USE EMSXAssumption
<1> DEFINE n == cursor + 1
           e == stream[n]
<1>1. /\ UNCHANGED <<orders, stream, replayFills, dbFills, crashes, raises, lost, unstored,
                     Spilled>>
      /\ pc["subs"] = "idle" /\ pc'["bus"] = pc["bus"]
      /\ cursor < Len(stream) /\ cursor' = n
  BY DEF SubsTake, feed, durable, venue, replays, Goto, KeyInv, Shape, Spilled
<1>2. /\ cursor \in Nat /\ n \in 1..cursor' /\ n \notin 1..cursor
      /\ 1..cursor' = 1..cursor \cup {n} /\ Len(stream) \in Nat
      /\ e.seq \in DOMAIN orders /\ e.seq \in Seqs
  <2>1. cursor \in Nat /\ Len(stream) \in Nat
    BY DEF FillInv, StreamShape
  <2>2. n \in 1..Len(stream) /\ n \in 1..cursor' /\ n \notin 1..cursor
        /\ 1..cursor' = 1..cursor \cup {n}
    BY <1>1, <2>1
  <2>3. e.seq \in DOMAIN orders
    BY <2>2 DEF FillInv, StreamShape
  <2> QED
    BY <2>1, <2>2, <2>3 DEF FillInv, StreamShape, Seqs
<1>3. job = 0 /\ job # n
  BY <1>1, <1>2 DEF FillInv, FillsShape, Handling
<1> HIDE DEF n
<1>4. StreamShape'
  BY <1>1, <1>2 DEF FillInv, StreamShape
<1>5. /\ replayFills \in Seq(1..cursor')
      /\ crashes = 0 => dbFills \in Seq(1..cursor') /\ Spilled \subseteq 1..cursor'
      /\ \E s \in DOMAIN orders' \cup {0} : replayFills' \in Seq(Taken(s)')
  <2>1. PICK s \in DOMAIN orders \cup {0} : replayFills \in Seq(Taken(s))
    BY DEF FillInv, FillsShape
  <2>2. Taken(s) \subseteq Taken(s)'
    BY <1>1, <1>2 DEF Taken
  <2>3. replayFills' \in Seq(Taken(s)')
    BY <1>1, <2>1, <2>2, SeqMonotonic
  <2>4. \E t \in DOMAIN orders' \cup {0} : replayFills' \in Seq(Taken(t)')
    BY <1>1, <2>3
  <2>5. replayFills \in Seq(1..cursor')
    BY <1>2, SeqMonotonic DEF FillInv, FillsShape
  <2>6. crashes = 0 => dbFills \in Seq(1..cursor') /\ Spilled \subseteq 1..cursor'
    BY <1>2, SeqMonotonic DEF FillInv, FillsShape
  <2> QED
    BY <2>4, <2>5, <2>6
<1>6. \A s \in Seqs : pendingFills[s] \in Seq({i \in 1..cursor' : stream[i].seq = s})
  <2> SUFFICES ASSUME NEW s \in Seqs
               PROVE  pendingFills[s] \in Seq({i \in 1..cursor' : stream[i].seq = s})
    OBVIOUS
  <2>1. pendingFills[s] \in Seq({i \in 1..cursor : stream[i].seq = s})
    BY DEF FillInv, FillsShape
  <2>2. {i \in 1..cursor : stream[i].seq = s} \subseteq {i \in 1..cursor' : stream[i].seq = s}
    BY <1>2
  <2> QED
    BY <2>1, <2>2, SeqMonotonic
<1>7. \A i \in 1..cursor : i # n
  BY <1>2
<1>8. /\ Occurrences(n, replayFills) = 0
      /\ Occurrences(n, pendingFills[e.seq]) = 0
      /\ crashes = 0 => Outcomes(n) = 0
  <2>1. /\ replayFills \in Seq(1..cursor)
        /\ crashes = 0 => dbFills \in Seq(1..cursor) /\ n \notin Spilled
    BY <1>2 DEF FillInv, FillsShape
  <2>2. pendingFills[e.seq] \in Seq({i \in 1..cursor : stream[i].seq = e.seq})
    BY <1>2 DEF FillInv, FillsShape
  <2>3. n \notin {i \in 1..cursor : stream[i].seq = e.seq}
    BY <1>2
  <2> HIDE DEF e
  <2> QED
    BY <1>2, <2>1, <2>2, <2>3, OccurrencesNone DEF Outcomes, Spilled
<1>9. Outcomes(n) \in Nat /\ \A i \in 1..cursor' : Outcomes(i)' = Outcomes(i)
  BY <1>1, HeldIs DEF Outcomes
<1>10. CASE Known(e.seq)
  <2>1. /\ job' = n /\ UNCHANGED pendingFills /\ pc'["subs"] = "update"
    BY <1>10 DEF SubsTake, Goto, KeyInv, Shape, buffers, n
  <2>2. FillsShape'
    BY <1>1, <1>2, <1>5, <1>6, <2>1 DEF FillInv, FillsShape, Handling
  <2>3. \A i \in 1..cursor : HeldCopies(i)' = HeldCopies(i)
    <3> SUFFICES ASSUME NEW i \in 1..cursor PROVE HeldCopies(i)' = HeldCopies(i)
      OBVIOUS
    <3>1. job # i /\ job' # i
      BY <1>3, <1>7, <2>1, <1>2
    <3> QED
      BY <1>1, <2>1, <3>1 DEF HeldCopies
  <2>4. \A i \in {n} : HeldCopies(i)' = 1
    BY <1>1, <1>8, <2>1 DEF HeldCopies
  <2>5. ASSUME NEW i \in 1..cursor', stream[i].fill > 0
        PROVE  /\ HeldCopies(i)' <= 1
               /\ HeldCopies(i)' + Outcomes(i) >= 1
               /\ crashes = 0 => HeldCopies(i)' + Outcomes(i) = 1
    <3>1. CASE i \in 1..cursor
      BY <2>3, <2>5, <3>1 DEF FillInv, EveryFillSomewhere
    <3>2. CASE i \in {n}
      <4>1. HeldCopies(i)' = 1
        BY <2>4, <3>2
      <4> HIDE DEF e
      <4> QED
        BY <1>8, <1>9, <3>2, <4>1
    <3> QED
      BY <1>2, <3>1, <3>2
  <2>6. EveryFillSomewhere'
    BY <1>1, <1>9, <2>5 DEF FillInv, EveryFillSomewhere
  <2> QED
    BY <1>4, <2>2, <2>6 DEF FillInv
<1>11. CASE ~Known(e.seq)
  <2>1. /\ job' = job /\ pc'["subs"] = "idle"
        /\ pendingFills' = IF e.fill > 0
                             THEN [pendingFills EXCEPT ![e.seq] = Append(@, n)]
                             ELSE pendingFills
    BY <1>1, <1>11 DEF SubsTake, BufferFill, n
  <2>2. pendingFills = [s \in Seqs |-> pendingFills[s]]
    BY DEF KeyInv, Shape
  <2>3. /\ \A s \in Seqs : s # e.seq => pendingFills'[s] = pendingFills[s]
        /\ pendingFills'[e.seq] = IF e.fill > 0 THEN Append(pendingFills[e.seq], n)
                                                ELSE pendingFills[e.seq]
    BY <1>2, <2>1, <2>2
  <2> DEFINE T == {i \in 1..cursor' : stream[i].seq = e.seq}
  <2>4. n \in T /\ pendingFills[e.seq] \in Seq(T)
    BY <1>2, <1>6
  <2>5. FillsShape'
    <3>1. Append(pendingFills[e.seq], n) \in Seq(T)
      <4> HIDE DEF T, e
      <4> QED
        BY <2>4, AppendProperties
    <3>2. pendingFills'[e.seq] \in Seq(T)
      BY <2>3, <2>4, <3>1
    <3>3. \A s \in Seqs : pendingFills'[s] \in Seq({i \in 1..cursor' : stream[i].seq = s})
      BY <1>6, <2>3, <3>2
    <3> QED
      BY <1>1, <1>3, <1>5, <2>1, <3>3 DEF FillInv, FillsShape, Handling
  <2>6. \A i : Occurrences(i, Append(pendingFills[e.seq], n))
                 = Occurrences(i, pendingFills[e.seq]) + (IF n = i THEN 1 ELSE 0)
    <3> HIDE DEF T, e
    <3> QED
      BY <2>4, OccurrencesAppend
  <2>7. \A i \in 1..cursor : HeldCopies(i)' = HeldCopies(i)
    <3> SUFFICES ASSUME NEW i \in 1..cursor PROVE HeldCopies(i)' = HeldCopies(i)
      OBVIOUS
    <3>1. n # i
      BY <1>7
    <3>2. Occurrences(i, pendingFills'[stream[i].seq]) = Occurrences(i, pendingFills[stream[i].seq])
      <4>1. stream[i].seq \in Seqs /\ Occurrences(i, pendingFills[stream[i].seq]) \in Nat
        BY HeldIs
      <4> HIDE DEF e
      <4> QED
        BY <2>3, <2>6, <3>1, <4>1
    <3> QED
      BY <1>1, <2>1, <3>2 DEF HeldCopies
  <2>8. e.fill > 0 => \A i \in {n} : HeldCopies(i)' = 1
    <3> SUFFICES ASSUME e.fill > 0, NEW i \in {n} PROVE HeldCopies(i)' = 1
      OBVIOUS
    <3>1. Occurrences(n, pendingFills'[e.seq]) = 1
      BY <1>8, <2>3, <2>6
    <3>2. job' # n
      BY <1>3, <2>1
    <3>3. HeldCopies(i)' = Occurrences(i, pendingFills'[stream[i].seq])
                             + Occurrences(i, replayFills) + (IF job' = i THEN 1 ELSE 0)
      BY <1>1 DEF HeldCopies
    <3>4. i = n /\ stream[i].seq = e.seq
      OBVIOUS
    <3> HIDE DEF e
    <3> QED
      BY <1>8, <3>1, <3>2, <3>3, <3>4
  <2>9. ASSUME NEW i \in 1..cursor', stream[i].fill > 0
        PROVE  /\ HeldCopies(i)' <= 1
               /\ HeldCopies(i)' + Outcomes(i) >= 1
               /\ crashes = 0 => HeldCopies(i)' + Outcomes(i) = 1
    <3>1. CASE i \in 1..cursor
      BY <2>7, <2>9, <3>1 DEF FillInv, EveryFillSomewhere
    <3>2. CASE i \in {n}
      <4>1. HeldCopies(i)' = 1
        BY <2>8, <2>9, <3>2
      <4> HIDE DEF e
      <4> QED
        BY <1>8, <1>9, <3>2, <4>1
    <3> QED
      BY <1>2, <3>1, <3>2
  <2>10. EveryFillSomewhere'
    BY <1>1, <1>9, <2>9 DEF FillInv, EveryFillSomewhere
  <2> QED
    BY <1>4, <2>5, <2>10 DEF FillInv
<1> QED
  BY <1>10, <1>11

(* The update is dispatched: the event stays in hand when it has a fill.   *)
LEMMA FillsUpdate ==
  ASSUME KeyInv, FillInv, SubsUpdate
  PROVE  FillInv'
<1> USE EMSXAssumption
<1>1. /\ UNCHANGED <<orders, stream, cursor, pendingFills, replayFills, dbFills, crashes,
                     raises, lost, unstored, Spilled>>
      /\ pc["subs"] = "update" /\ pc'["bus"] = pc["bus"]
      /\ \/ /\ stream[job].fill > 0 /\ job' = job /\ pc'["subs"] = "fill"
         \/ /\ ~(stream[job].fill > 0) /\ job' = 0 /\ pc'["subs"] = "idle"
  BY DEF SubsUpdate, feed, durable, venue, adapter, buffers, replays, Goto, KeyInv, Shape, Spilled
<1>2. StreamShape'
  BY <1>1 DEF FillInv, StreamShape
<1>3. FillsShape'
  BY <1>1 DEF FillInv, FillsShape, Handling, Taken
<1>4. ASSUME NEW i \in 1..cursor, stream[i].fill > 0
      PROVE  HeldCopies(i)' = HeldCopies(i)
  <2>1. job' = i <=> job = i
    <3>1. i # 0
      BY DEF FillInv, StreamShape
    <3> QED
      BY <1>1, <1>4, <3>1
  <2> QED
    BY <1>1, <2>1 DEF HeldCopies
<1>5. EveryFillSomewhere'
  BY <1>1, <1>4 DEF FillInv, EveryFillSomewhere, Outcomes
<1> QED
  BY <1>2, <1>3, <1>5 DEF FillInv

LEMMA FillsFill ==
  ASSUME KeyInv, FillInv, SubsFill
  PROVE  FillInv'
<1> USE EMSXAssumption
<1>1. /\ UNCHANGED <<orders, stream, cursor, pendingFills, replayFills, crashes, raises, lost,
                     unstored, Spilled>>
      /\ pc["subs"] = "fill" /\ pc'["bus"] = pc["bus"] /\ pc'["subs"] = "read"
      /\ job' = 0 /\ dbFills' = Append(dbFills, job)
  BY DEF SubsFill, DispatchFill, OnFill, feed, venue, adapter, buffers, replays, Goto,
         KeyInv, Shape, Spilled
<1>2. job \in 1..cursor
  BY <1>1 DEF FillInv, FillsShape, Handling
<1>3. ASSUME NEW i \in 1..cursor
      PROVE  /\ HeldCopies(i) = HeldCopies(i)' + (IF i = job THEN 1 ELSE 0)
             /\ HeldCopies(i)' \in Nat
  <2>1. /\ Occurrences(i, replayFills) \in Nat
        /\ Occurrences(i, pendingFills[stream[i].seq]) \in Nat
    BY HeldIs
  <2>2. job' # i
    BY <1>1 DEF FillInv, StreamShape
  <2>3. HeldCopies(i)' = Occurrences(i, pendingFills[stream[i].seq]) + Occurrences(i, replayFills)
    BY <1>1, <2>1, <2>2 DEF HeldCopies
  <2> QED
    BY <2>1, <2>3 DEF HeldCopies
<1>4. /\ EveryFillSomewhere'
      /\ dbFills' \in Seq(Nat)
      /\ crashes' = 0 => dbFills' \in Seq(1..cursor')
  BY <1>1, <1>2, <1>3, Applies
<1>5. StreamShape'
  BY <1>1 DEF FillInv, StreamShape
<1>6. FillsShape'
  BY <1>1, <1>4 DEF FillInv, FillsShape, Handling, Taken
<1> QED
  BY <1>4, <1>5, <1>6 DEF FillInv

(* A call of the subs thread raises: the fill in hand is given up, or is   *)
(* booked and not stored.                                                  *)
LEMMA FillsSubsRaise ==
  ASSUME KeyInv, FillInv, SubsCallRaises \/ SubsInsertRaises
  PROVE  FillInv'
<1> USE EMSXAssumption
<1>1. /\ UNCHANGED <<orders, stream, cursor, pendingFills, replayFills, dbFills, crashes>>
      /\ raises' = raises + 1 /\ job' = 0
      /\ pc'["bus"] = pc["bus"] /\ pc'["subs"] = "idle"
  BY DEF SubsCallRaises, SubsInsertRaises, LeaveMessage, Raise, OnFillUnstored, durable, venue,
         adapter, buffers, replays, Goto, KeyInv, Shape
<1>2. CASE SubsCallRaises /\ pc["subs"] = "write"
  <2>1. UNCHANGED <<job, lost, unstored>>
    <3>1. lost' = lost \cup {}
      BY <1>2 DEF SubsCallRaises, LeaveMessage, Handling, FillInv, FillsShape
    <3> QED
      BY <1>1, <1>2, <3>1 DEF SubsCallRaises, LeaveMessage, durable, FillInv, FillsShape, Handling
  <2> QED
    BY <1>1, <1>2, <2>1, FillsRestStep DEF FillsRest, FillsThreads
<1>3. ASSUME NEW given, given \in {{}, {job}}, stream[job].fill > 0 => given = {job},
             pc["subs"] \in Handling,
             \/ lost' = lost \cup given /\ unstored' = unstored
             \/ lost' = lost /\ unstored' = unstored \cup given
      PROVE  FillInv'
  <2>1. job \in 1..cursor /\ job \in 1..Len(stream) /\ job # 0
    BY <1>3 DEF FillInv, FillsShape, StreamShape
  <2>2. Spilled' = Spilled \cup given
    BY <1>3 DEF Spilled
  <2>3. StreamShape'
    BY <1>1 DEF FillInv, StreamShape
  <2>4. FillsShape'
    <3>1. \A s : Taken(s)' = Taken(s)
      BY <1>1 DEF Taken
    <3>2. \E s \in DOMAIN orders' \cup {0} : replayFills' \in Seq(Taken(s)')
      BY <1>1, <3>1 DEF FillInv, FillsShape
    <3>3. /\ Spilled' \subseteq 1..Len(stream')
          /\ crashes' = 0 => Spilled' \subseteq 1..cursor'
      BY <1>1, <1>3, <2>1, <2>2 DEF FillInv, FillsShape
    <3> QED
      BY <1>1, <3>2, <3>3 DEF FillInv, FillsShape, Handling
  <2>5. ASSUME NEW i \in 1..cursor, stream[i].fill > 0
        PROVE  /\ HeldCopies(i)' \in Nat
               /\ HeldCopies(i) = HeldCopies(i)' + (IF i \in {job} THEN 1 ELSE 0)
               /\ i \in {job} => /\ Outcomes(i)' \in Nat \ {0}
                                 /\ Outcomes(i) = 0 => Outcomes(i)' = 1
               /\ i \notin {job} => Outcomes(i)' = Outcomes(i)
    <3>1. /\ Occurrences(i, replayFills) \in Nat /\ Occurrences(i, dbFills) \in Nat
          /\ Occurrences(i, pendingFills[stream[i].seq]) \in Nat
      BY HeldIs
    <3>2. job' # i
      BY <1>1 DEF FillInv, StreamShape
    <3>3. HeldCopies(i)' = Occurrences(i, pendingFills[stream[i].seq]) + Occurrences(i, replayFills)
      BY <1>1, <3>1, <3>2 DEF HeldCopies
    <3>4. /\ HeldCopies(i)' \in Nat
          /\ HeldCopies(i) = HeldCopies(i)' + (IF i = job THEN 1 ELSE 0)
      BY <3>1, <3>3 DEF HeldCopies
    <3>5. Outcomes(i)' = Occurrences(i, dbFills) + (IF i \in unstored' THEN 1 ELSE 0)
                           + (IF i \in lost' THEN 1 ELSE 0)
      BY <1>1 DEF Outcomes
    <3>6. CASE i = job
      <4>1. given = {i}
        BY <1>3, <2>5, <3>6
      <4> QED
        BY <1>3, <3>1, <3>4, <3>5, <3>6, <4>1 DEF Outcomes
    <3>7. CASE i # job
      <4>1. (i \in unstored' <=> i \in unstored) /\ (i \in lost' <=> i \in lost)
        BY <1>3, <3>7
      <4> QED
        BY <3>4, <3>5, <3>7, <4>1 DEF Outcomes
    <3> QED
      BY <3>6, <3>7
  <2>6. EveryFillSomewhere'
    <3>1. \A i \in given : stream[i].seq = stream[job].seq
      BY <1>3
    <3> DEFINE moved == {job}
               q == stream[job].seq
    <3>2. \A i \in 1..cursor : stream[i].fill > 0 =>
           /\ HeldCopies(i)' \in Nat
           /\ HeldCopies(i) = HeldCopies(i)' + (IF i \in moved THEN 1 ELSE 0)
           /\ i \in moved => /\ Outcomes(i)' \in Nat \ {0}
                             /\ Outcomes(i) = 0 => Outcomes(i)' = 1
           /\ i \notin moved => Outcomes(i)' = Outcomes(i)
      BY <2>5
    <3>3. \A i \in given : stream[i].seq = q
      BY <3>1
    <3> HIDE DEF moved, q
    <3> QED
      BY <1>1, <2>2, <3>2, <3>3, Conserves
  <2> QED
    BY <2>3, <2>4, <2>6 DEF FillInv
<1>4. CASE SubsCallRaises /\ pc["subs"] # "write"
  <2>1. /\ pc["subs"] \in Handling /\ lost' = lost \cup Unbooked /\ unstored' = unstored
    BY <1>4 DEF SubsCallRaises, LeaveMessage, durable, Handling
  <2>2. Unbooked \in {{}, {job}} /\ (stream[job].fill > 0 => Unbooked = {job})
    BY DEF Unbooked
  <2> QED
    BY <1>3, <2>1, <2>2
<1>5. CASE SubsInsertRaises
  <2>1. /\ pc["subs"] \in Handling /\ lost' = lost \cup {} /\ unstored' = unstored \cup {job}
    BY <1>5 DEF SubsInsertRaises, LeaveMessage, OnFillUnstored, Handling
  <2> QED
    BY <1>3, <2>1
<1> QED
  BY <1>2, <1>4, <1>5

(* A call of the bus thread raises: what is left of a replay is given up,  *)
(* but for the fill that was booked and not stored.                        *)
LEMMA FillsBusRaise ==
  ASSUME KeyInv, FillInv, BusCallRaises \/ BusInsertRaises
  PROVE  FillInv'
<1> USE EMSXAssumption
<1> DEFINE moved == Replayed(replayFills)
<1>1. /\ UNCHANGED <<orders, stream, cursor, pendingFills, dbFills, crashes, job>>
      /\ raises' = raises + 1 /\ replayFills' = <<>>
      /\ pc'["bus"] = "idle" /\ pc'["subs"] = pc["subs"]
  BY DEF BusCallRaises, BusInsertRaises, LeaveSubmit, Raise, OnFillUnstored, durable, venue,
         subs, buffers, Goto, KeyInv, Shape
<1>2. /\ lost \subseteq lost' /\ unstored \subseteq unstored' /\ Spilled' = Spilled \cup moved
      /\ \A i : i \notin moved => (i \in lost' <=> i \in lost) /\ (i \in unstored' <=> i \in unstored)
      /\ \A i \in moved : /\ i \in lost' \/ i \in unstored'
                          /\ Occurrences(i, replayFills) <= 1 /\ i \notin Spilled =>
                               ~(i \in lost' /\ i \in unstored')
  <2>1. CASE BusCallRaises
    <3>1. lost' = lost \cup moved /\ unstored' = unstored
      BY <2>1 DEF BusCallRaises, LeaveSubmit, durable
    <3> HIDE DEF moved
    <3> QED
      BY <3>1 DEF Spilled
  <2>2. CASE BusInsertRaises
    <3> DEFINE h == Head(replayFills)
               t == Replayed(Tail(replayFills))
    <3>1. replayFills # <<>> /\ lost' = lost \cup t /\ unstored' = unstored \cup {h}
      BY <2>2 DEF BusInsertRaises, LeaveSubmit, OnFillUnstored
    <3>2. replayFills \in Seq(1..cursor) /\ Tail(replayFills) \in Seq(1..cursor)
      BY <3>1, HeadTailProperties DEF FillInv, FillsShape
    <3>3. \A i : /\ Occurrences(i, replayFills)
                      = Occurrences(i, Tail(replayFills)) + (IF h = i THEN 1 ELSE 0)
                 /\ Occurrences(i, Tail(replayFills)) \in Nat
                 /\ i \in moved <=> Occurrences(i, replayFills) >= 1
                 /\ i \in t <=> Occurrences(i, Tail(replayFills)) >= 1
      BY <3>1, <3>2, OccurrencesTail, OccurrencesIs, OccursIn
    <3> HIDE DEF h, t, moved
    <3>4. moved = t \cup {h}
      BY <3>3
    <3>5. ASSUME NEW i \in moved, Occurrences(i, replayFills) <= 1 PROVE ~(i \in t /\ i = h)
      BY <3>3, <3>5
    <3> QED
      BY <3>1, <3>4, <3>5 DEF Spilled
  <2> QED
    BY <2>1, <2>2
<1>3. PICK q \in DOMAIN orders \cup {0} : replayFills \in Seq(Taken(q))
  BY DEF FillInv, FillsShape
<1>4. \A i \in moved : i \in 1..cursor /\ i \in 1..Len(stream) /\ stream[i].seq = q
  <2>1. \A n \in DOMAIN replayFills : replayFills[n] \in Taken(q)
    BY <1>3
  <2>2. \A i \in Taken(q) : i \in 1..cursor /\ i \in 1..Len(stream) /\ stream[i].seq = q
    BY DEF Taken, FillInv, StreamShape
  <2> QED
    BY <2>1, <2>2 DEF Replayed
<1>5. StreamShape'
  BY <1>1 DEF FillInv, StreamShape
<1>6. FillsShape'
  <2>1. <<>> \in Seq(Taken(0)') /\ <<>> \in Seq(1..cursor')
    OBVIOUS
  <2>2. Spilled' \subseteq 1..Len(stream') /\ (crashes' = 0 => Spilled' \subseteq 1..cursor')
    BY <1>1, <1>2, <1>4 DEF FillInv, FillsShape
  <2>3. \E s \in DOMAIN orders' \cup {0} : replayFills' \in Seq(Taken(s)')
    <3>1. 0 \in DOMAIN orders' \cup {0}
      OBVIOUS
    <3> QED
      BY <1>1, <2>1, <3>1
  <2> HIDE DEF moved
  <2>4. /\ replayFills' \in Seq(1..cursor') /\ raises' \in Nat
        /\ replayFills' # <<>> => pc'["bus"] \in Replaying
        /\ crashes' = 0 => dbFills' \in Seq(1..cursor') /\ Spilled' \subseteq 1..cursor'
    BY <1>1, <2>1, <2>2 DEF FillInv, FillsShape
  <2> QED
    BY <1>1, <2>2, <2>3, <2>4 DEF FillInv, FillsShape
<1>7. ASSUME NEW i \in 1..cursor, stream[i].fill > 0
      PROVE  /\ HeldCopies(i)' \in Nat
             /\ HeldCopies(i) = HeldCopies(i)' + (IF i \in moved THEN 1 ELSE 0)
             /\ i \in moved => /\ Outcomes(i)' \in Nat \ {0}
                               /\ Outcomes(i) = 0 => Outcomes(i)' = 1
             /\ i \notin moved => Outcomes(i)' = Outcomes(i)
  <2>1. /\ Occurrences(i, replayFills) \in Nat /\ Occurrences(i, dbFills) \in Nat
        /\ Occurrences(i, pendingFills[stream[i].seq]) \in Nat
        /\ HeldCopies(i) \in Nat /\ HeldCopies(i) <= 1
    BY <1>7, HeldIs DEF FillInv, EveryFillSomewhere
  <2>2. Occurrences(i, replayFills) <= 1
    BY <2>1 DEF HeldCopies
  <2>3. i \in moved <=> Occurrences(i, replayFills) = 1
    BY <1>3, <2>1, <2>2, OccursIn
  <2>4. HeldCopies(i)' = Occurrences(i, pendingFills[stream[i].seq]) + (IF job = i THEN 1 ELSE 0)
    <3>1. Occurrences(i, replayFills') = 0
      BY <1>1, OccurrencesEmpty
    <3>2. HeldCopies(i)' = Occurrences(i, pendingFills[stream[i].seq])
                             + Occurrences(i, replayFills') + (IF job = i THEN 1 ELSE 0)
      BY <1>1 DEF HeldCopies
    <3> QED
      BY <2>1, <3>1, <3>2
  <2>5. Outcomes(i)' = Occurrences(i, dbFills) + (IF i \in unstored' THEN 1 ELSE 0)
                         + (IF i \in lost' THEN 1 ELSE 0)
    BY <1>1 DEF Outcomes
  <2>6. CASE i \in moved
    <3>1. HeldCopies(i)' \in Nat /\ HeldCopies(i) = HeldCopies(i)' + 1
      BY <2>1, <2>3, <2>4, <2>6 DEF HeldCopies
    <3>2. /\ i \in lost' \/ i \in unstored'
          /\ i \notin Spilled => ~(i \in lost' /\ i \in unstored')
      BY <1>2, <2>2, <2>6
    <3>3. Outcomes(i)' \in Nat \ {0}
      BY <2>1, <2>5, <3>2
    <3>4. Outcomes(i) = 0 => Occurrences(i, dbFills) = 0 /\ i \notin Spilled
      BY <2>1 DEF Outcomes, Spilled
    <3> HIDE DEF moved
    <3> QED
      BY <2>5, <2>6, <3>1, <3>2, <3>3, <3>4
  <2>7. CASE i \notin moved
    <3>1. (i \in unstored' <=> i \in unstored) /\ (i \in lost' <=> i \in lost)
      BY <1>2, <2>7
    <3>2. Occurrences(i, replayFills) = 0
      BY <2>1, <2>2, <2>3, <2>7
    <3> HIDE DEF moved
    <3> QED
      BY <2>1, <2>4, <2>5, <2>7, <3>1, <3>2 DEF HeldCopies, Outcomes
  <2> QED
    BY <2>6, <2>7
<1>8. EveryFillSomewhere'
  <2> HIDE DEF moved
  <2>1. \A i \in 1..cursor : stream[i].fill > 0 =>
           /\ HeldCopies(i)' \in Nat
           /\ HeldCopies(i) = HeldCopies(i)' + (IF i \in moved THEN 1 ELSE 0)
           /\ i \in moved => /\ Outcomes(i)' \in Nat \ {0}
                             /\ Outcomes(i) = 0 => Outcomes(i)' = 1
           /\ i \notin moved => Outcomes(i)' = Outcomes(i)
    BY <1>7
  <2>2. \A i \in moved : stream[i].seq = q
    BY <1>4
  <2> QED
    BY <1>1, <1>2, <2>1, <2>2, Conserves
<1> QED
  BY <1>5, <1>6, <1>8 DEF FillInv

(* The venue publishes after what was published: the events before stay.   *)
StreamGrows ==
  /\ \E E : stream' \in Seq(E)
  /\ Len(stream) <= Len(stream') /\ Len(stream') \in Nat
  /\ \A i \in 1..Len(stream) : stream'[i] = stream[i]
  /\ \A i \in 1..Len(stream') : i > Len(stream) => stream'[i].seq \in DOMAIN orders'

(* It grows by one event with the fill, or by that and one without.        *)
FillPublished(fill) ==
  LET n == Len(stream) IN
  \/ Len(stream') = n + 1 /\ stream'[n + 1].fill = fill
  \/ Len(stream') = n + 2 /\ stream'[n + 1].fill = fill /\ stream'[n + 2].fill = 0
  \/ Len(stream') = n + 2 /\ stream'[n + 1].fill = 0 /\ stream'[n + 2].fill = fill

LEMMA PublishGrows ==
  ASSUME StreamShape, NEW s \in DOMAIN orders, NEW status, NEW leaves, NEW fill,
         DOMAIN orders' = DOMAIN orders, Publish(s, status, leaves, fill)
  PROVE  /\ StreamGrows /\ Len(stream) \in Nat /\ Len(stream) < Len(stream')
         /\ \A i \in 1..Len(stream') : i > Len(stream) =>
              /\ stream'[i].seq = s /\ stream'[i].status = status
              /\ stream'[i].leaves = leaves /\ stream'[i].fill \in {0, fill}
         /\ FillPublished(fill)
<1> DEFINE route == [seq |-> s, topic |-> "route", status |-> status,
                     leaves |-> leaves, fill |-> fill]
           order == [route EXCEPT !.topic = "order", !.fill = 0]
           News(e) == /\ e.seq = s /\ e.status = status
                      /\ e.leaves = leaves /\ e.fill \in {0, fill}
<1>1. PICK E : stream \in Seq(E)
  BY DEF StreamShape
<1>2. \/ stream' = stream \o <<route, order>>
      \/ stream' = stream \o <<order, route>>
      \/ stream' = Append(stream, route)
  BY DEF Publish
<1>3. News(route) /\ News(order) /\ route.fill = fill /\ order.fill = 0
  OBVIOUS
<1> HIDE DEF route, order
<1> DEFINE F == E \cup {route, order}
<1>4. stream \in Seq(F) /\ route \in F /\ order \in F
  BY <1>1, SeqMonotonic
<1> HIDE DEF F
<1>5. CASE stream' = Append(stream, route)
  <2>1. /\ stream' \in Seq(F) /\ Len(stream') = Len(stream) + 1 /\ Len(stream) \in Nat
        /\ \A i \in 1..Len(stream) : stream'[i] = stream[i]
        /\ stream'[Len(stream) + 1] = route
    BY <1>4, <1>5, AppendProperties
  <2>2. \A i \in 1..Len(stream') : i > Len(stream) => stream'[i] = route
    BY <2>1
  <2> QED
    BY <1>3, <2>1, <2>2 DEF StreamGrows, FillPublished
<1>6. ASSUME NEW a \in F, NEW b \in F, News(a), News(b), stream' = stream \o <<a, b>>
      PROVE  /\ StreamGrows /\ Len(stream) \in Nat /\ Len(stream) < Len(stream')
             /\ \A i \in 1..Len(stream') : i > Len(stream) => News(stream'[i])
             /\ Len(stream') = Len(stream) + 2
             /\ stream'[Len(stream) + 1] = a /\ stream'[Len(stream) + 2] = b
  <2>1. <<a, b>> \in Seq(F) /\ Len(<<a, b>>) = 2 /\ <<a, b>>[1] = a /\ <<a, b>>[2] = b
    OBVIOUS
  <2>2. /\ stream' \in Seq(F) /\ Len(stream') = Len(stream) + 2 /\ Len(stream) \in Nat
        /\ \A i \in 1..Len(stream) : stream'[i] = stream[i]
        /\ stream'[Len(stream) + 1] = a /\ stream'[Len(stream) + 2] = b
    BY <1>4, <1>6, <2>1
  <2>3. \A i \in 1..Len(stream') : i > Len(stream) => stream'[i] \in {a, b}
    BY <2>2
  <2>4. \A i \in 1..Len(stream') : i > Len(stream) => News(stream'[i])
    BY <1>6, <2>3
  <2>5. StreamGrows
    BY <2>2, <2>4 DEF StreamGrows
  <2> QED
    BY <2>2, <2>4, <2>5
<1>7. CASE stream' = stream \o <<route, order>> \/ stream' = stream \o <<order, route>>
  BY <1>3, <1>4, <1>6, <1>7 DEF FillPublished
<1> QED
  BY <1>2, <1>5, <1>7

LEMMA FillsVenue ==
  ASSUME KeyInv, FillInv, VenueReplies \/ \E s \in DOMAIN orders : VenueWorks(s)
  PROVE  FillInv'
<1> USE EMSXAssumption
<1>1. UNCHANGED <<pc, cursor, job, pendingFills, replayFills, dbFills, crashes, raises, lost,
                  unstored, Spilled>>
  BY DEF VenueReplies, VenueAccepts, VenueRefuses, VenueWorks, runnerVars, feed, durable,
         subs, adapter, buffers, replays, Spilled
<1>2. /\ DOMAIN orders \subseteq DOMAIN orders' /\ DOMAIN orders' = 1..Len(orders')
      /\ Len(orders') <= MaxOrders /\ Len(orders') \in Nat
      /\ StreamGrows
  <2>1. CASE VenueAccepts
    <3>1. /\ stream' = stream /\ request # NoKey
          /\ \E o : orders' = Append(orders, o)
      BY <2>1 DEF VenueAccepts
    <3>2. Len(orders) < MaxOrders
      BY <3>1 DEF KeyInv, SentKeysClaimed
    <3>3. /\ DOMAIN orders' = DOMAIN orders \cup {Len(orders) + 1}
          /\ Len(orders') = Len(orders) + 1
          /\ Len(orders) \in Nat /\ DOMAIN orders = 1..Len(orders)
      BY <3>1, AppendOrder DEF KeyInv, Shape
    <3> QED
      BY <3>1, <3>2, <3>3 DEF FillInv, StreamShape, StreamGrows
  <2>2. CASE VenueRefuses
    BY <2>2 DEF VenueRefuses, FillInv, StreamShape, StreamGrows
  <2>3. ASSUME NEW s \in DOMAIN orders, VenueWorks(s)
        PROVE  /\ DOMAIN orders' = DOMAIN orders /\ Len(orders') = Len(orders)
               /\ StreamGrows
    <3>1. DOMAIN orders' = DOMAIN orders /\ Len(orders') = Len(orders)
      BY <2>3, KeptKeys
    <3>2. \E status, leaves, fill : Publish(s, status, leaves, fill)
      BY <2>3 DEF VenueWorks
    <3> QED
      BY <3>1, <3>2, PublishGrows DEF FillInv
  <2> QED
    BY <2>1, <2>2, <2>3 DEF VenueReplies, FillInv, StreamShape
<1>3. /\ \A i \in 1..cursor : i \in 1..Len(stream) /\ stream'[i] = stream[i]
      /\ cursor' \in Nat /\ cursor' <= Len(stream')
  <2>1. cursor \in Nat /\ cursor <= Len(stream) /\ Len(stream) \in Nat
    BY DEF FillInv, StreamShape
  <2> QED
    BY <1>1, <1>2, <2>1 DEF StreamGrows
<1>4. StreamShape'
  <2>1. Len(stream) \in Nat /\ Len(stream') \in Nat
    BY <1>2 DEF FillInv, StreamShape, StreamGrows
  <2>2. \A i \in 1..Len(stream') : stream'[i].seq \in DOMAIN orders'
    BY <1>2, <2>1 DEF FillInv, StreamShape, StreamGrows
  <2> QED
    BY <1>2, <1>3, <2>2 DEF StreamShape, StreamGrows
<1>7. /\ Spilled \subseteq 1..Len(stream) /\ Spilled \subseteq 1..Len(stream')
      /\ \A i \in Spilled : stream'[i] = stream[i]
  <2>1. Len(stream) \in Nat /\ Spilled \subseteq 1..Len(stream)
    BY DEF FillInv, StreamShape, FillsShape
  <2> QED
    BY <1>2, <2>1 DEF StreamGrows
<1>5. FillsShape'
  <2>1. \A s : {i \in 1..cursor' : stream'[i].seq = s} = {i \in 1..cursor : stream[i].seq = s}
    BY <1>1, <1>3
  <2>2. \A s : Taken(s)' = Taken(s)
    BY <2>1 DEF Taken
  <2>3. \E s \in DOMAIN orders' \cup {0} : replayFills' \in Seq(Taken(s)')
    BY <1>1, <1>2, <2>2 DEF FillInv, FillsShape
  <2> QED
    BY <1>1, <1>7, <2>1, <2>3 DEF FillInv, FillsShape
<1>6. EveryFillSomewhere'
  <2>1. {stream'[i].seq : i \in Spilled} = {stream[i].seq : i \in Spilled}
    BY <1>7
  <2>2. \A i \in 1..cursor : HeldCopies(i)' = HeldCopies(i) /\ Outcomes(i)' = Outcomes(i)
    BY <1>1, <1>3 DEF HeldCopies, Outcomes
  <2> QED
    BY <1>1, <1>3, <2>1, <2>2 DEF FillInv, EveryFillSomewhere, Spilled
<1> QED
  BY <1>4, <1>5, <1>6 DEF FillInv

(* A crash takes the subscription back to the first event.                 *)
LEMMA FillsCrash ==
  ASSUME KeyInv, FillInv, CrashAndRestart
  PROVE  FillInv'
<1> USE EMSXAssumption
<1>1. /\ UNCHANGED <<orders, stream, dbFills, raises, lost, unstored, Spilled>>
      /\ pc' = [t \in Threads |-> "idle"] /\ cursor' = 0 /\ job' = 0
      /\ pendingFills' = NoBuffer /\ replayFills' = <<>>
      /\ crashes' = crashes + 1
  BY DEF CrashAndRestart, Restart, durable, venue, Spilled
<1>2. StreamShape'
  BY <1>1 DEF FillInv, StreamShape
<1>3. FillsShape'
  <2>1. replayFills' \in Seq(Taken(0)')
    BY <1>1
  <2> QED
    BY <1>1, <2>1 DEF FillInv, FillsShape, Handling, NoBuffer
<1>4. EveryFillSomewhere'
  BY <1>1 DEF FillInv, EveryFillSomewhere
<1> QED
  BY <1>2, <1>3, <1>4 DEF FillInv

LEMMA FillsInit == Init => FillInv
<1> SUFFICES ASSUME Init PROVE FillInv
  OBVIOUS
<1>1. /\ orders = <<>> /\ Len(orders) = 0 /\ DOMAIN orders = {}
      /\ stream = <<>> /\ Len(stream) = 0 /\ stream \in Seq({})
  BY DEF Init
<1>2. lost = {} /\ unstored = {} /\ Spilled = {} /\ raises = 0
  BY DEF Init, RunnerInit, Spilled
<1>3. {stream[i].seq : i \in Spilled} = {} /\ Cardinality({}) = 0
  BY <1>2, FS_EmptySet
<1>4. \E s \in DOMAIN orders \cup {0} : replayFills \in Seq(Taken(s))
  <2>1. replayFills \in Seq(Taken(0))
    BY DEF Init
  <2>2. 0 \in DOMAIN orders \cup {0}
    OBVIOUS
  <2> QED
    BY <2>1, <2>2
<1>5. StreamShape
  BY <1>1, EMSXAssumption DEF Init, StreamShape
<1>6. FillsShape
  BY <1>1, <1>2, <1>4, EMSXAssumption
     DEF Init, RunnerInit, NoBuffer, FillsShape, Handling
<1>7. EveryFillSomewhere
  <2>1. 1..cursor = {}
    BY DEF Init
  <2>2. lost \cup unstored = {} /\ raises = 0
    BY DEF Init, RunnerInit
  <2>3. {stream[i].seq : i \in lost \cup unstored} = {}
    BY <2>2
  <2>4. Cardinality({stream[i].seq : i \in lost \cup unstored}) <= raises
    BY <2>2, <2>3, FS_EmptySet
  <2> QED
    BY <2>1, <2>4 DEF EveryFillSomewhere
<1> QED
  BY <1>5, <1>6, <1>7 DEF FillInv

THEOREM FillInvariant == Spec => []FillInv
<1>1. KeyInv /\ FillInv /\ [Next]_vars => FillInv'
  <2> SUFFICES ASSUME KeyInv, FillInv, [Next]_vars PROVE FillInv'
    OBVIOUS
  <2>1. CASE UNCHANGED vars
    BY <2>1, FillsRestStep
       DEF vars, runnerVars, feed, durable, venue, subs, adapter, buffers, replays,
           FillsRest, FillsThreads
  <2>2. CASE Next
    BY <2>2, FillsRunner, FillsResponse, FillsReplay, FillsTake, FillsUpdate, FillsFill,
       FillsSubsRaise, FillsBusRaise, FillsVenue, FillsCrash DEF Next, BusStep, SubsStep
  <2> QED
    BY <2>1, <2>2
<1> QED
  BY <1>1, FillsInit, KeyInvariant, PTL DEF Spec

(* Every fill the subs thread took is held, booked, or given up because a  *)
(* call raised; before a restart in exactly one place, and each raise      *)
(* costs fills of one order at most.                                       *)
THEOREM EveryFillIsSomewhere == Spec => []EveryFillSomewhere
<1>1. FillInv => EveryFillSomewhere
  BY DEF FillInv
<1> QED
  BY <1>1, FillInvariant, PTL

-----------------------------------------------------------------------------
(* The orderly venue.                                                      *)

(* A response is of the order the venue made last, which is not mapped yet *)
(* and which the bus thread waits for; updates wait in the buffer of their *)
(* own sequence.                                                           *)
Routes ==
  /\ DOMAIN seqToClient \subseteq DOMAIN orders
  /\ response # -1 => pc["bus"] = "await" /\ request = NoKey
  /\ response \in Seqs => response = Len(orders) /\ response \notin DOMAIN seqToClient
  /\ \A s \in Seqs : pendingUpdates[s] \in Seq({i \in 1..cursor : stream[i].seq = s})
  /\ readPos = [t \in Threads |-> readPos[t]]

(* With nothing published before its response was handled there is nothing *)
(* to replay, so the subs thread alone writes positions, every one of them *)
(* while no call raises.                                                   *)
Orderly ==
  /\ response \in Seqs => \A i \in 1..Len(stream) : stream[i].seq # response
  /\ replayUpdates = <<>> /\ replayFills = <<>>
  /\ pc["bus"] \notin {"read", "write"}
  /\ raises = 0 =>
       /\ pc["subs"] \in {"idle", "update", "fill"} => dbPosition = position
       /\ pc["subs"] = "write" => readPos["subs"] = position

OrderlyInv == Routes /\ (~conduct.early => Orderly)

LEMMA OrderlyRunner ==
  ASSUME KeyInv, OrderlyInv, TargetArrives \/ RunnerStep \/ SendRequest
  PROVE  OrderlyInv'
<1> USE EMSXAssumption
<1>1. UNCHANGED <<seqToClient, orders, response, pendingUpdates, cursor, stream,
                  replayUpdates, replayFills, dbPosition, position, readPos, raises, conduct>>
  BY DEF TargetArrives, RunnerStep, ReadWorking, Validate, ClaimAndRegister, Finish, OnTarget,
         SendRequest, feed, books, durable, locals, venue, subs, adapter,
         buffers, replays
<1>2. /\ pc["bus"] # "await" /\ pc'["bus"] \notin {"read", "write"}
      /\ pc'["subs"] = pc["subs"]
  BY DEF TargetArrives, RunnerStep, ReadWorking, Validate, ClaimAndRegister, Finish, OnTarget,
         SendRequest, Goto, KeyInv, Shape
<1>3. response = -1
  BY <1>2 DEF OrderlyInv, Routes
<1> QED
  BY <1>1, <1>2, <1>3 DEF OrderlyInv, Routes, Orderly, Seqs

LEMMA OrderlyResponse ==
  ASSUME KeyInv, FillInv, OrderlyInv, HandleResponse
  PROVE  OrderlyInv'
<1> USE EMSXAssumption
<1>1. /\ UNCHANGED <<orders, request, cursor, stream, dbPosition, position, readPos, raises,
                     conduct>>
      /\ pc["bus"] = "await" /\ pc'["bus"] \in {"finish", "replay"}
      /\ pc'["subs"] = pc["subs"] /\ response # -1 /\ response' = -1
  BY DEF HandleResponse, feed, books, durable, venue, subs, Goto, KeyInv, Shape
<1>2. -1 \notin Seqs
  BY DEF Seqs
<1>3. CASE response = 0
  <2>1. UNCHANGED <<seqToClient, pendingUpdates, replayUpdates, replayFills>>
    BY <1>3 DEF HandleResponse, buffers, replays
  <2> QED
    BY <1>1, <1>2, <2>1 DEF OrderlyInv, Routes, Orderly
<1>4. CASE response # 0
  <2>1. /\ response \in Seqs
        /\ seqToClient' = Put(seqToClient, response, intent)
        /\ replayUpdates' = pendingUpdates[response] /\ replayFills' = pendingFills[response]
        /\ pendingUpdates' = [pendingUpdates EXCEPT ![response] = <<>>]
        /\ pendingUpdates = [s \in Seqs |-> pendingUpdates[s]]
    BY <1>1, <1>4 DEF HandleResponse, KeyInv, Shape
  <2>2. response \in DOMAIN orders
    BY <2>1 DEF OrderlyInv, Routes, FillInv, StreamShape, Seqs
  <2>3. DOMAIN seqToClient' \subseteq DOMAIN orders'
    BY <1>1, <2>1, <2>2 DEF OrderlyInv, Routes, Put
  <2>4. \A s \in Seqs : pendingUpdates'[s] \in Seq({i \in 1..cursor : stream[i].seq = s})
    <3>1. \A T : <<>> \in Seq(T)
      OBVIOUS
    <3>2. \A s \in Seqs : pendingUpdates'[s] = IF s = response THEN <<>> ELSE pendingUpdates[s]
      BY <2>1
    <3> QED
      BY <3>1, <3>2 DEF OrderlyInv, Routes
  <2>5. Routes'
    BY <1>1, <1>2, <2>3, <2>4 DEF OrderlyInv, Routes
  <2>6. ASSUME ~conduct.early
        PROVE  replayUpdates' = <<>> /\ replayFills' = <<>>
    <3>1. \A i \in 1..cursor : stream[i].seq # response
      BY <2>1, <2>6 DEF OrderlyInv, Orderly, FillInv, StreamShape
    <3>2. {i \in 1..cursor : stream[i].seq = response} = {}
      BY <3>1
    <3>3. pendingUpdates[response] \in Seq({}) /\ pendingFills[response] \in Seq({})
      BY <2>1, <3>2 DEF OrderlyInv, Routes, FillInv, FillsShape
    <3>4. \A q \in Seq({}) : q = <<>>
      OBVIOUS
    <3> QED
      BY <2>1, <3>3, <3>4
  <2> QED
    BY <1>1, <1>2, <2>5, <2>6 DEF OrderlyInv, Orderly
<1> QED
  BY <1>3, <1>4

LEMMA OrderlyReplay ==
  ASSUME KeyInv, OrderlyInv, ReplayUpdate \/ ReplayFill \/ ReplayDone \/ Persist("bus", "replay")
  PROVE  OrderlyInv'
<1> USE EMSXAssumption
<1>1. /\ UNCHANGED <<seqToClient, orders, response, pendingUpdates, cursor, stream, conduct>>
      /\ pc["bus"] # "await" /\ pc'["subs"] = pc["subs"]
      /\ readPos' = [t \in Threads |-> readPos'[t]]
  BY DEF ReplayUpdate, ReplayFill, ReplayDone, Persist, ReadPosition, WritePosition, feed,
         books, durable, locals, venue, subs, adapter, buffers, replays, Goto, KeyInv,
         Shape, OrderlyInv, Routes
<1>2. response = -1 /\ -1 \notin Seqs
  BY <1>1 DEF OrderlyInv, Routes, Seqs
<1>3. Routes'
  BY <1>1, <1>2 DEF OrderlyInv, Routes
<1>4. ASSUME ~conduct.early
      PROVE  ReplayDone
  BY <1>4 DEF OrderlyInv, Orderly, ReplayUpdate, ReplayFill, Persist, ReadPosition,
              WritePosition
<1>5. ASSUME ReplayDone
      PROVE  /\ pc'["bus"] = "finish"
             /\ UNCHANGED <<replayUpdates, replayFills, dbPosition, position, readPos, raises>>
  BY <1>5 DEF ReplayDone, feed, books, durable, locals, adapter, replays, Goto, KeyInv, Shape
<1> QED
  BY <1>1, <1>2, <1>3, <1>4, <1>5 DEF OrderlyInv, Orderly

LEMMA OrderlyTake ==
  ASSUME KeyInv, FillInv, OrderlyInv, SubsTake
  PROVE  OrderlyInv'
<1> USE EMSXAssumption
<1>1. /\ UNCHANGED <<seqToClient, orders, request, response, stream, replayUpdates,
                     replayFills, dbPosition, position, readPos, raises, conduct>>
      /\ pc["subs"] = "idle" /\ pc'["bus"] = pc["bus"] /\ pc'["subs"] \in {"idle", "update"}
      /\ cursor < Len(stream) /\ cursor' = cursor + 1
  BY DEF SubsTake, feed, books, durable, locals, venue, replays, Goto, KeyInv, Shape
<1>2. /\ cursor \in Nat /\ Len(stream) \in Nat
      /\ stream[cursor'].seq \in Seqs
  BY <1>1 DEF FillInv, StreamShape, Seqs
<1>3. /\ cursor' \in 1..cursor' /\ 1..cursor \subseteq 1..cursor'
  BY <1>1, <1>2
<1>4. \A s \in Seqs : pendingUpdates[s] \in Seq({i \in 1..cursor' : stream[i].seq = s})
  <2> SUFFICES ASSUME NEW s \in Seqs
               PROVE  pendingUpdates[s] \in Seq({i \in 1..cursor' : stream[i].seq = s})
    OBVIOUS
  <2>1. pendingUpdates[s] \in Seq({i \in 1..cursor : stream[i].seq = s})
    BY DEF OrderlyInv, Routes
  <2>2. {i \in 1..cursor : stream[i].seq = s} \subseteq {i \in 1..cursor' : stream[i].seq = s}
    BY <1>3
  <2> QED
    BY <2>1, <2>2, SeqMonotonic
<1>5. \A s \in Seqs : pendingUpdates'[s] \in Seq({i \in 1..cursor' : stream[i].seq = s})
  <2>1. CASE pendingUpdates' = pendingUpdates
    BY <1>4, <2>1
  <2>2. CASE pendingUpdates' = [pendingUpdates EXCEPT ![stream[cursor'].seq] = Append(@, cursor')]
    <3> DEFINE r == stream[cursor'].seq
               T == {i \in 1..cursor' : stream[i].seq = r}
    <3>1. pendingUpdates[r] \in Seq(T) /\ cursor' \in T
      BY <1>2, <1>3, <1>4
    <3>2. Append(pendingUpdates[r], cursor') \in Seq(T)
      <4> HIDE DEF T, r
      <4> QED
        BY <3>1, AppendProperties
    <3>3. pendingUpdates = [s \in Seqs |-> pendingUpdates[s]]
      BY DEF KeyInv, Shape
    <3>4. \A s \in Seqs : pendingUpdates'[s] = IF s = r THEN Append(pendingUpdates[r], cursor')
                                                        ELSE pendingUpdates[s]
      BY <1>2, <2>2, <3>3
    <3> QED
      BY <1>4, <3>2, <3>4
  <2> QED
    BY <1>1, <2>1, <2>2 DEF SubsTake, buffers
<1>6. Routes'
  BY <1>1, <1>5 DEF OrderlyInv, Routes
<1> QED
  BY <1>1, <1>6 DEF OrderlyInv, Orderly

LEMMA OrderlySubs ==
  ASSUME KeyInv, FillInv, OrderlyInv, SubsUpdate \/ SubsFill \/ Persist("subs", "idle")
  PROVE  OrderlyInv'
<1> USE EMSXAssumption
<1>1. /\ UNCHANGED <<seqToClient, orders, request, response, stream, cursor, pendingUpdates,
                     replayUpdates, replayFills, raises, conduct>>
      /\ pc'["bus"] = pc["bus"]
      /\ readPos' = [t \in Threads |-> readPos'[t]]
  BY DEF SubsUpdate, SubsFill, Persist, ReadPosition, WritePosition, feed, books, durable,
         locals, venue, subs, adapter, buffers, replays, Goto, KeyInv, Shape, OrderlyInv,
         Routes
<1>2. Routes'
  BY <1>1 DEF OrderlyInv, Routes
<1>3. \/ /\ pc["subs"] = "update" /\ pc'["subs"] \in {"fill", "idle"}
         /\ UNCHANGED <<dbPosition, position, readPos>>
      \/ pc["subs"] = "fill" /\ pc'["subs"] = "read"
      \/ /\ pc["subs"] = "read" /\ pc'["subs"] = "write"
         /\ readPos'["subs"] = position /\ UNCHANGED position
      \/ /\ pc["subs"] = "write" /\ pc'["subs"] = "idle"
         /\ dbPosition' = readPos["subs"] /\ UNCHANGED position
  BY DEF SubsUpdate, SubsFill, Persist, ReadPosition, WritePosition, books, durable, locals,
         Goto, KeyInv, Shape, OrderlyInv, Routes
<1> QED
  BY <1>1, <1>2, <1>3 DEF OrderlyInv, Orderly

LEMMA OrderlyRaise ==
  ASSUME KeyInv, FillInv, OrderlyInv,
         BusCallRaises \/ BusInsertRaises \/ SubsCallRaises \/ SubsInsertRaises
  PROVE  OrderlyInv'
<1> USE EMSXAssumption
<1>1. /\ UNCHANGED <<seqToClient, orders, request, response, pendingUpdates, cursor, stream,
                     readPos, conduct>>
      /\ raises' = raises + 1 /\ raises \in Nat
  BY DEF BusCallRaises, BusInsertRaises, SubsCallRaises, SubsInsertRaises, LeaveSubmit,
         LeaveMessage, Raise, locals, venue, subs, adapter, buffers, FillInv, FillsShape
<1>2. \/ /\ pc["bus"] # "await" /\ pc'["bus"] = "idle"
         /\ replayUpdates' = <<>> /\ replayFills' = <<>>
      \/ pc'["bus"] = pc["bus"] /\ UNCHANGED <<replayUpdates, replayFills>>
  BY DEF BusCallRaises, BusInsertRaises, SubsCallRaises, SubsInsertRaises, LeaveSubmit,
         LeaveMessage, OnTargetMayRaise, adapter, replays, Goto, KeyInv, Shape
<1>3. Routes'
  BY <1>1, <1>2 DEF OrderlyInv, Routes
<1>4. raises' # 0
  BY <1>1
<1> QED
  BY <1>1, <1>2, <1>3, <1>4 DEF OrderlyInv, Orderly

LEMMA OrderlyVenue ==
  ASSUME KeyInv, FillInv, OrderlyInv, VenueReplies \/ \E s \in DOMAIN orders : VenueWorks(s)
  PROVE  OrderlyInv'
<1> USE EMSXAssumption
<1>1. UNCHANGED <<seqToClient, pc, pendingUpdates, cursor, replayUpdates, replayFills,
                  dbPosition, position, readPos, raises, conduct>>
  BY DEF VenueReplies, VenueAccepts, VenueRefuses, VenueWorks, runnerVars, feed, books,
         durable, locals, subs, adapter, buffers, replays
<1>2. /\ DOMAIN orders = 1..Len(orders) /\ Len(orders) \in Nat /\ Len(stream) \in Nat
      /\ cursor \in Nat /\ cursor <= Len(stream)
      /\ \A i \in 1..Len(stream) : stream[i].seq \in DOMAIN orders
      /\ -1 \notin Seqs /\ 0 \notin Seqs
  BY DEF FillInv, StreamShape, Seqs
<1>3. CASE VenueAccepts
  <2>1. /\ request # NoKey /\ request' = NoKey /\ stream' = stream
        /\ \E o : orders' = Append(orders, o)
        /\ response' = IF pc["bus"] = "await" THEN Len(orders) + 1 ELSE response
    BY <1>3 DEF VenueAccepts
  <2>2. DOMAIN orders' = DOMAIN orders \cup {Len(orders) + 1} /\ Len(orders') = Len(orders) + 1
    BY <2>1, AppendOrder DEF KeyInv, Shape
  <2>3. response = -1
    BY <2>1 DEF OrderlyInv, Routes
  <2>4. Len(orders) + 1 \notin DOMAIN orders /\ Len(orders) + 1 # -1
    BY <1>2
  <2>5. Routes'
    BY <1>1, <1>2, <2>1, <2>2, <2>3, <2>4 DEF OrderlyInv, Routes
  <2>6. ASSUME ~conduct.early PROVE Orderly'
    BY <1>1, <1>2, <2>1, <2>3, <2>4, <2>6 DEF OrderlyInv, Orderly
  <2> QED
    BY <1>1, <2>5, <2>6 DEF OrderlyInv
<1>4. CASE VenueRefuses
  <2>1. /\ request # NoKey /\ request' = NoKey /\ UNCHANGED <<stream, orders>>
        /\ response' = IF pc["bus"] = "await" THEN 0 ELSE response
    BY <1>4 DEF VenueRefuses
  <2>2. response = -1
    BY <2>1 DEF OrderlyInv, Routes
  <2> QED
    BY <1>1, <1>2, <2>1, <2>2 DEF OrderlyInv, Routes, Orderly
<1>5. ASSUME NEW s \in DOMAIN orders, VenueWorks(s)
      PROVE  OrderlyInv'
  <2>1. UNCHANGED <<request, response>> /\ (conduct.early \/ s \in DOMAIN seqToClient)
    BY <1>5 DEF VenueWorks
  <2>2. DOMAIN orders' = DOMAIN orders /\ Len(orders') = Len(orders)
    BY <1>5, KeptKeys
  <2>3. \E status, leaves, fill : Publish(s, status, leaves, fill)
    BY <1>5 DEF VenueWorks
  <2>4. /\ \A i \in 1..Len(stream) : stream'[i] = stream[i]
        /\ \A i \in 1..Len(stream') : i > Len(stream) => stream'[i].seq = s
    BY <2>2, <2>3, PublishGrows DEF FillInv, StreamGrows
  <2>5. \A i \in 1..cursor : stream'[i] = stream[i]
    BY <1>2, <2>4
  <2>6. \A r : {i \in 1..cursor' : stream'[i].seq = r} = {i \in 1..cursor : stream[i].seq = r}
    BY <1>1, <2>5
  <2>7. Routes'
    BY <1>1, <2>1, <2>2, <2>6 DEF OrderlyInv, Routes
  <2>8. ASSUME ~conduct.early PROVE Orderly'
    <3>1. response \in Seqs => s # response
      BY <2>1, <2>8 DEF OrderlyInv, Routes
    <3>2. response \in Seqs => \A i \in 1..Len(stream') : stream'[i].seq # response
      BY <1>2, <2>4, <2>8, <3>1 DEF OrderlyInv, Orderly
    <3> QED
      BY <1>1, <2>1, <2>8, <3>2 DEF OrderlyInv, Orderly
  <2> QED
    BY <1>1, <2>7, <2>8 DEF OrderlyInv
<1> QED
  BY <1>3, <1>4, <1>5 DEF VenueReplies

LEMMA OrderlyCrash ==
  ASSUME KeyInv, OrderlyInv, CrashAndRestart
  PROVE  OrderlyInv'
<1> USE EMSXAssumption
<1>1. /\ DOMAIN seqToClient' = {} /\ pendingUpdates' = [s \in Seqs |-> <<>>]
      /\ pc' = [t \in Threads |-> "idle"] /\ response' = -1
      /\ replayUpdates' = <<>> /\ replayFills' = <<>>
      /\ dbPosition' = dbPosition /\ position' = dbPosition
      /\ readPos' = [t \in Threads |-> 0]
  BY DEF CrashAndRestart, Restart, durable, EmptyBook, NoBuffer
<1>2. -1 \notin Seqs /\ \A T : <<>> \in Seq(T)
  BY DEF Seqs
<1>3. \A s \in Seqs : pendingUpdates'[s] = <<>>
  BY <1>1
<1>4. Routes'
  BY <1>1, <1>2, <1>3 DEF Routes
<1> QED
  BY <1>1, <1>2, <1>4 DEF OrderlyInv, Orderly

LEMMA OrderlyInit == Init => OrderlyInv
<1> SUFFICES ASSUME Init PROVE OrderlyInv
  OBVIOUS
<1>1. /\ DOMAIN seqToClient = {} /\ pendingUpdates = [s \in Seqs |-> <<>>]
      /\ pc = [t \in Threads |-> "idle"] /\ response = -1
      /\ replayUpdates = <<>> /\ replayFills = <<>>
      /\ dbPosition = 0 /\ position = 0 /\ readPos = [t \in Threads |-> 0]
  BY DEF Init, RunnerInit, EmptyBook, NoBuffer
<1>2. -1 \notin Seqs /\ \A T : <<>> \in Seq(T)
  BY DEF Seqs
<1>3. \A s \in Seqs : pendingUpdates[s] = <<>>
  BY <1>1
<1>4. Routes
  BY <1>1, <1>2, <1>3 DEF Routes
<1> QED
  BY <1>1, <1>2, <1>4, EMSXAssumption DEF OrderlyInv, Orderly

THEOREM OrderlyInvariant == Spec => []OrderlyInv
<1>1. KeyInv /\ FillInv /\ OrderlyInv /\ [Next]_vars => OrderlyInv'
  <2> SUFFICES ASSUME KeyInv, FillInv, OrderlyInv, [Next]_vars PROVE OrderlyInv'
    OBVIOUS
  <2>1. CASE UNCHANGED vars
    BY <2>1
       DEF vars, runnerVars, feed, books, durable, locals, venue, subs, adapter, buffers,
           replays, OrderlyInv, Routes, Orderly
  <2>2. CASE Next
    BY <2>2, OrderlyRunner, OrderlyResponse, OrderlyReplay, OrderlyTake, OrderlySubs,
       OrderlyRaise, OrderlyVenue, OrderlyCrash DEF Next, BusStep, SubsStep
  <2> QED
    BY <2>1, <2>2
<1> QED
  BY <1>1, OrderlyInit, KeyInvariant, FillInvariant, PTL DEF Spec

(* When all is quiet the stored position is the book's, crashes included,  *)
(* as long as no call raised and the venue publishes after its response    *)
(* was handled.                                                            *)
THEOREM StoredPositionIsCurrent == Spec => []StoredPositionCurrent
<1>1. OrderlyInv => StoredPositionCurrent
  BY EMSXAssumption DEF OrderlyInv, Orderly, StoredPositionCurrent, Settled
<1> QED
  BY <1>1, OrderlyInvariant, PTL

-----------------------------------------------------------------------------
(* Sums over finite sets.  The fold of the community modules is a          *)
(* recursive function on the subsets of a set; that there is one, and that *)
(* the order of its choices does not matter, is shown by a smallest        *)
(* counterexample.                                                         *)
SumIt(f, S, g) ==
  [s \in SUBSET S |-> IF s = {} THEN 0
                      ELSE LET x == CHOOSE x \in s : TRUE IN f[x] + g[s \ {x}]]
IsSum(f, S, g) == g = SumIt(f, S, g)
Sum(f, S) == MapThenSumSet(LAMBDA x : f[x], S)
First(s) == CHOOSE x \in s : TRUE

LEMMA Least ==
  ASSUME NEW S \in SUBSET Nat, S # {}
  PROVE  \E n \in S : \A m \in S : n <= m
<1> DEFINE R == OpToRel(<, Nat)
<1>1. \E n \in S : \A m \in S : <<m, n>> \notin R
  BY NatLessThanWellFounded, WFMin
<1>2. \A m, n \in Nat : m < n => <<m, n>> \in R
  BY DEF OpToRel
<1> HIDE DEF R
<1>3. PICK n \in S : \A m \in S : <<m, n>> \notin R
  BY <1>1
<1>4. \A m \in S : m \in Nat /\ n \in Nat /\ ~(m < n)
  BY <1>2, <1>3
<1>5. \A m \in S : n <= m
  BY <1>4
<1> QED
  BY <1>3, <1>5

(* Of a set of finite sets, one has no element that is smaller.            *)
LEMMA Smallest ==
  ASSUME NEW S, IsFiniteSet(S), NEW B \in SUBSET SUBSET S, B # {}
  PROVE  \E T \in B : \A U \in SUBSET T : U # T => U \notin B
<1>1. \A T \in SUBSET S : IsFiniteSet(T) /\ Cardinality(T) \in Nat
  BY FS_Subset, FS_CardinalityType
<1> DEFINE N == {Cardinality(T) : T \in B}
<1>2. N \in SUBSET Nat /\ N # {}
  BY <1>1
<1> HIDE DEF N
<1>3. PICK n \in N : \A m \in N : n <= m
  BY <1>2, Least
<1>4. PICK T \in B : n = Cardinality(T)
  BY <1>3 DEF N
<1>5. ASSUME NEW U \in SUBSET T, U # T, U \in B PROVE FALSE
  <2>1. IsFiniteSet(T) /\ Cardinality(U) \in Nat /\ Cardinality(T) \in Nat
    BY <1>1, <1>4, <1>5
  <2>2. Cardinality(U) < Cardinality(T)
    BY <2>1, <1>5, FS_Subset
  <2>3. Cardinality(U) \in N
    BY <1>5 DEF N
  <2> QED
    BY <1>3, <1>4, <2>1, <2>2, <2>3
<1> QED
  BY <1>5

LEMMA SumIs ==
  ASSUME NEW f, NEW S
  PROVE  Sum(f, S) = (CHOOSE g : IsSum(f, S, g))[S]
BY DEF Sum, MapThenSumSet, MapThenFoldSet, IsSum, SumIt

LEMMA SumUnfolds ==
  ASSUME NEW f, NEW S, NEW g, IsSum(f, S, g), NEW s \in SUBSET S
  PROVE  /\ s = {} => g[s] = 0
         /\ s # {} => First(s) \in s /\ g[s] = f[First(s)] + g[s \ {First(s)}]
<1>1. g[s] = SumIt(f, S, g)[s]
  BY DEF IsSum
<1>2. SumIt(f, S, g)[s] = IF s = {} THEN 0 ELSE f[First(s)] + g[s \ {First(s)}]
  BY DEF SumIt, First
<1>3. s # {} => First(s) \in s
  BY DEF First
<1> QED
  BY <1>1, <1>2, <1>3

LEMMA SumUnique ==
  ASSUME NEW f, NEW S, IsFiniteSet(S), NEW T \in SUBSET S,
         NEW g, IsSum(f, S, g), NEW h, IsSum(f, T, h)
  PROVE  \A s \in SUBSET T : g[s] = h[s]
<1> DEFINE B == {s \in SUBSET T : g[s] # h[s]}
<1> SUFFICES ASSUME B # {} PROVE FALSE
  OBVIOUS
<1>1. B \in SUBSET SUBSET S
  OBVIOUS
<1>2. PICK s \in B : \A u \in SUBSET s : u # s => u \notin B
  <2> HIDE DEF B
  <2> QED
    BY <1>1, Smallest
<1>3. s \in SUBSET S /\ s \in SUBSET T /\ g[s] # h[s]
  OBVIOUS
<1>4. s # {}
  BY <1>3, SumUnfolds
<1> DEFINE u == s \ {First(s)}
<1>5. /\ First(s) \in s
      /\ g[s] = f[First(s)] + g[u] /\ h[s] = f[First(s)] + h[u]
  BY <1>3, <1>4, SumUnfolds
<1>6. u \in SUBSET s /\ u # s /\ u \in SUBSET T
  BY <1>3, <1>5
<1> HIDE DEF u
<1>7. g[u] = h[u]
  BY <1>2, <1>6
<1> QED
  BY <1>3, <1>5, <1>7

(* There is one for each finite set.                                       *)
LEMMA SumExists ==
  ASSUME NEW f, NEW S, IsFiniteSet(S)
  PROVE  \A T \in SUBSET S : \E g : IsSum(f, T, g)
<1> DEFINE B == {T \in SUBSET S : ~ \E g : IsSum(f, T, g)}
<1> SUFFICES ASSUME B # {} PROVE FALSE
  OBVIOUS
<1>1. PICK T \in B : \A u \in SUBSET T : u # T => u \notin B
  <2>1. B \in SUBSET SUBSET S
    OBVIOUS
  <2> HIDE DEF B
  <2> QED
    BY <2>1, Smallest
<1>2. T \in SUBSET S /\ ~ \E g : IsSum(f, T, g) /\ IsFiniteSet(T)
  BY FS_Subset
<1> DEFINE G(u) == CHOOSE g : IsSum(f, u, g)
           h == [s \in SUBSET T |-> IF s = {} THEN 0
                                    ELSE f[First(s)] + G(s \ {First(s)})[s \ {First(s)}]]
<1>3. ASSUME NEW u \in SUBSET T, u # T PROVE IsSum(f, u, G(u)) /\ IsFiniteSet(u)
  <2>1. u \notin B /\ u \in SUBSET S
    BY <1>1, <1>3
  <2>2. \E g : IsSum(f, u, g)
    BY <2>1
  <2> HIDE DEF B
  <2> QED
    BY <1>2, <1>3, <2>2, FS_Subset
<1> HIDE DEF G
<1>4. ASSUME NEW s, NEW g, IsSum(f, s, g), s # {}
      PROVE  First(s) \in s /\ g[s] = f[First(s)] + g[s \ {First(s)}]
  BY <1>4, SumUnfolds
<1>5. ASSUME NEW s \in SUBSET T, s # T PROVE h[s] = G(s)[s]
  <2>1. IsSum(f, s, G(s)) /\ IsFiniteSet(s)
    BY <1>3, <1>5
  <2>2. CASE s = {}
    BY <2>1, <2>2, SumUnfolds
  <2>3. CASE s # {}
    <3> DEFINE u == s \ {First(s)}
    <3>1. First(s) \in s /\ G(s)[s] = f[First(s)] + G(s)[u]
      BY <2>1, <2>3, <1>4
    <3>2. h[s] = f[First(s)] + G(u)[u]
      BY <2>3
    <3>3. u \in SUBSET s /\ u \in SUBSET T /\ u # T
      BY <1>5, <3>1
    <3> HIDE DEF u
    <3>4. IsSum(f, u, G(u))
      BY <1>3, <3>3
    <3>5. G(s)[u] = G(u)[u]
      BY <2>1, <3>3, <3>4, SumUnique
    <3> QED
      BY <3>1, <3>2, <3>5
  <2> QED
    BY <2>2, <2>3
<1>6. ASSUME NEW s \in SUBSET T, s # {}
      PROVE  h[s \ {First(s)}] = G(s \ {First(s)})[s \ {First(s)}]
  <2>1. First(s) \in s
    BY <1>6 DEF First
  <2>2. s \ {First(s)} \in SUBSET T /\ s \ {First(s)} # T
    BY <1>6, <2>1
  <2> QED
    BY <1>5, <2>2
<1>7. h = [s \in SUBSET T |-> IF s = {} THEN 0 ELSE f[First(s)] + h[s \ {First(s)}]]
  BY <1>6
<1> HIDE DEF h
<1>8. IsSum(f, T, h)
  BY <1>7 DEF IsSum, SumIt, First
<1> QED
  BY <1>2, <1>8

LEMMA SumFirst ==
  ASSUME NEW f, NEW S, IsFiniteSet(S)
  PROVE  /\ S = {} => Sum(f, S) = 0
         /\ S # {} => First(S) \in S /\ Sum(f, S) = f[First(S)] + Sum(f, S \ {First(S)})
<1> DEFINE g == CHOOSE g : IsSum(f, S, g)
           u == S \ {First(S)}
           h == CHOOSE h : IsSum(f, u, h)
<1>1. IsSum(f, S, g)
  BY SumExists
<1>2. IsSum(f, u, h) /\ u \in SUBSET S
  BY SumExists
<1>3. Sum(f, S) = g[S] /\ Sum(f, u) = h[u]
  BY SumIs
<1> HIDE DEF g, h
<1>4. g[u] = h[u]
  BY <1>1, <1>2, SumUnique
<1>5. /\ S = {} => g[S] = 0
      /\ S # {} => First(S) \in S /\ g[S] = f[First(S)] + g[u]
  BY <1>1, SumUnfolds
<1> QED
  BY <1>3, <1>4, <1>5

LEMMA SumType ==
  ASSUME NEW f, NEW S, IsFiniteSet(S), \A x \in S : f[x] \in Int
  PROVE  \A T \in SUBSET S : Sum(f, T) \in Int
<1> DEFINE B == {T \in SUBSET S : Sum(f, T) \notin Int}
<1> SUFFICES ASSUME B # {} PROVE FALSE
  OBVIOUS
<1>1. PICK T \in B : \A u \in SUBSET T : u # T => u \notin B
  <2>1. B \in SUBSET SUBSET S
    OBVIOUS
  <2> HIDE DEF B
  <2> QED
    BY <2>1, Smallest
<1>2. T \in SUBSET S /\ IsFiniteSet(T) /\ Sum(f, T) \notin Int
  BY FS_Subset
<1>3. T # {}
  <2>1. T = {} => Sum(f, T) = 0
    BY <1>2, SumFirst
  <2> QED
    BY <1>2, <2>1
<1> DEFINE u == T \ {First(T)}
<1>4. First(T) \in T /\ Sum(f, T) = f[First(T)] + Sum(f, u)
  BY <1>2, <1>3, SumFirst
<1>5. u \in SUBSET T /\ u # T /\ u \in SUBSET S
  BY <1>2, <1>4
<1> HIDE DEF u
<1>6. Sum(f, u) \in Int
  BY <1>1, <1>5
<1>7. f[First(T)] \in Int
  BY <1>2, <1>4
<1> QED
  BY <1>2, <1>4, <1>6, <1>7

(* Any element may be taken out.                                           *)
LEMMA SumWithout ==
  ASSUME NEW f, NEW S, IsFiniteSet(S), \A x \in S : f[x] \in Int
  PROVE  \A T \in SUBSET S : \A z \in T : Sum(f, T) = f[z] + Sum(f, T \ {z})
<1> DEFINE Out(T, z) == Sum(f, T) = f[z] + Sum(f, T \ {z})
           B == {T \in SUBSET S : \E z \in T : ~Out(T, z)}
<1> SUFFICES ASSUME B # {} PROVE FALSE
  OBVIOUS
<1>1. PICK T \in B : \A u \in SUBSET T : u # T => u \notin B
  <2>1. B \in SUBSET SUBSET S
    OBVIOUS
  <2> HIDE DEF B
  <2> QED
    BY <2>1, Smallest
<1>2. T \in SUBSET S /\ IsFiniteSet(T)
  BY FS_Subset
<1>3. PICK z \in T : ~Out(T, z)
  OBVIOUS
<1> DEFINE y == First(T)
<1>4. y \in T /\ Out(T, y)
  BY <1>2, <1>3, SumFirst
<1>5. y # z
  BY <1>3, <1>4
<1> HIDE DEF y
<1>6. ASSUME NEW x \in T, NEW w \in T, w # x PROVE Out(T \ {x}, w)
  <2>1. T \ {x} \in SUBSET T /\ T \ {x} # T /\ T \ {x} \in SUBSET S /\ w \in T \ {x}
    BY <1>2, <1>6
  <2>2. T \ {x} \notin B
    BY <1>1, <2>1
  <2> HIDE DEF Out
  <2> QED
    BY <2>1, <2>2
<1>7. (T \ {y}) \ {z} = (T \ {z}) \ {y}
  OBVIOUS
<1> DEFINE r == (T \ {z}) \ {y}
<1>8. /\ Sum(f, T) = f[y] + Sum(f, T \ {y})
      /\ Sum(f, T \ {y}) = f[z] + Sum(f, r)
      /\ Sum(f, T \ {z}) = f[y] + Sum(f, r)
  BY <1>4, <1>5, <1>6, <1>7
<1>9. f[y] \in Int /\ f[z] \in Int /\ Sum(f, r) \in Int
  BY <1>2, <1>4, SumType
<1> HIDE DEF r
<1>10. Sum(f, T) = f[z] + Sum(f, T \ {z})
  BY <1>8, <1>9
<1> QED
  BY <1>3, <1>10

(* Functions that agree on a set have the same sum.                        *)
LEMMA SumAgrees ==
  ASSUME NEW f, NEW h, NEW S, IsFiniteSet(S), \A x \in S : f[x] = h[x]
  PROVE  \A T \in SUBSET S : Sum(f, T) = Sum(h, T)
<1> DEFINE B == {T \in SUBSET S : Sum(f, T) # Sum(h, T)}
<1> SUFFICES ASSUME B # {} PROVE FALSE
  OBVIOUS
<1>1. PICK T \in B : \A u \in SUBSET T : u # T => u \notin B
  <2>1. B \in SUBSET SUBSET S
    OBVIOUS
  <2> HIDE DEF B
  <2> QED
    BY <2>1, Smallest
<1>2. T \in SUBSET S /\ IsFiniteSet(T) /\ Sum(f, T) # Sum(h, T)
  BY FS_Subset
<1>3. T # {}
  <2>1. T = {} => Sum(f, T) = 0 /\ Sum(h, T) = 0
    BY <1>2, SumFirst
  <2> QED
    BY <1>2, <2>1
<1> DEFINE u == T \ {First(T)}
<1>4. /\ First(T) \in T
      /\ Sum(f, T) = f[First(T)] + Sum(f, u) /\ Sum(h, T) = h[First(T)] + Sum(h, u)
  BY <1>2, <1>3, SumFirst
<1>5. u \in SUBSET T /\ u # T /\ u \in SUBSET S
  BY <1>2, <1>4
<1> HIDE DEF u
<1>6. Sum(f, u) = Sum(h, u)
  BY <1>1, <1>5
<1>7. f[First(T)] = h[First(T)]
  BY <1>2, <1>4
<1> QED
  BY <1>2, <1>4, <1>6, <1>7

LEMMA SumAdd ==
  ASSUME NEW f, NEW S, IsFiniteSet(S), NEW z, z \notin S, \A x \in S \cup {z} : f[x] \in Int
  PROVE  /\ Sum(f, S \cup {z}) = Sum(f, S) + f[z]
         /\ Sum(f, S) \in Int /\ IsFiniteSet(S \cup {z})
<1> DEFINE T == S \cup {z}
<1>1. IsFiniteSet(T) /\ z \in T /\ T \ {z} = S
  BY FS_AddElement
<1> HIDE DEF T
<1>2. \A x \in T : f[x] \in Int
  BY DEF T
<1>3. Sum(f, T) = f[z] + Sum(f, S)
  BY <1>1, <1>2, SumWithout
<1>4. Sum(f, S) \in Int /\ f[z] \in Int
  BY <1>1, <1>2, SumType
<1> QED
  BY <1>1, <1>3, <1>4 DEF T

LEMMA SumUpTo ==
  ASSUME NEW f, NEW n \in Nat, \A i \in 1..(n + 1) : f[i] \in Int
  PROVE  Sum(f, 1..(n + 1)) = Sum(f, 1..n) + f[n + 1] /\ Sum(f, 1..n) \in Int
<1> DEFINE R == 1..n
           z == n + 1
<1>1. IsFiniteSet(R) /\ z \notin R /\ 1..z = R \cup {z}
  BY FS_Interval
<1>2. \A i \in R \cup {z} : f[i] \in Int
  BY <1>1
<1> HIDE DEF R, z
<1>3. Sum(f, R \cup {z}) = Sum(f, R) + f[z] /\ Sum(f, R) \in Int
  BY <1>1, <1>2, SumAdd
<1> QED
  BY <1>1, <1>3 DEF R, z

(* A function changes at one place.                                        *)
LEMMA SumChange ==
  ASSUME NEW f, NEW h, NEW S, IsFiniteSet(S), NEW z \in S,
         \A x \in S : f[x] \in Int /\ h[x] \in Int,
         \A x \in S \ {z} : h[x] = f[x]
  PROVE  Sum(h, S) = Sum(f, S) + h[z] - f[z] /\ Sum(f, S) \in Int /\ Sum(h, S) \in Int
<1> DEFINE R == S \ {z}
<1>1. IsFiniteSet(R) /\ z \notin R /\ S = R \cup {z}
  BY FS_RemoveElement
<1>2. \A x \in R : h[x] = f[x] /\ f[x] \in Int /\ h[x] \in Int
  OBVIOUS
<1> HIDE DEF R
<1>3. Sum(f, S) = Sum(f, R) + f[z] /\ Sum(h, S) = Sum(h, R) + h[z] /\ Sum(f, R) \in Int
  BY <1>1, SumAdd
<1>4. Sum(h, R) = Sum(f, R)
  BY <1>1, <1>2, SumAgrees
<1> QED
  BY <1>3, <1>4

LEMMA SumNat ==
  ASSUME NEW f, NEW S, IsFiniteSet(S), \A x \in S : f[x] \in Nat
  PROVE  \A T \in SUBSET S : Sum(f, T) \in Nat
<1> DEFINE B == {T \in SUBSET S : Sum(f, T) \notin Nat}
<1> SUFFICES ASSUME B # {} PROVE FALSE
  OBVIOUS
<1>1. PICK T \in B : \A u \in SUBSET T : u # T => u \notin B
  <2>1. B \in SUBSET SUBSET S
    OBVIOUS
  <2> HIDE DEF B
  <2> QED
    BY <2>1, Smallest
<1>2. T \in SUBSET S /\ IsFiniteSet(T) /\ Sum(f, T) \notin Nat
  BY FS_Subset
<1>3. T # {}
  <2>1. T = {} => Sum(f, T) = 0
    BY <1>2, SumFirst
  <2> QED
    BY <1>2, <2>1
<1> DEFINE u == T \ {First(T)}
<1>4. First(T) \in T /\ Sum(f, T) = f[First(T)] + Sum(f, u)
  BY <1>2, <1>3, SumFirst
<1>5. u \in SUBSET T /\ u # T /\ u \in SUBSET S
  BY <1>2, <1>4
<1> HIDE DEF u
<1>6. Sum(f, u) \in Nat /\ f[First(T)] \in Nat
  BY <1>1, <1>2, <1>4, <1>5
<1> QED
  BY <1>2, <1>4, <1>6

-----------------------------------------------------------------------------
(* The types of what is counted.                                           *)
Signed(book) == [k \in DOMAIN book |-> k.side * book[k]]

LEMMA NetWorkingIsSum == NetWorking = Sum(Signed(working), DOMAIN working)
<1> DEFINE D == DOMAIN working
           It(g) == [s \in SUBSET D |->
              IF s = {} THEN 0
              ELSE LET x == CHOOSE x \in s : TRUE
                   IN  x.side * working[x] + g[s \ {x}]]
<1>1. NetWorking = (CHOOSE g : g = It(g))[D]
  BY DEF NetWorking, MapThenSumSet, MapThenFoldSet
<1>2. \A g : It(g) = SumIt(Signed(working), D, g)
  BY DEF SumIt, Signed
<1> HIDE DEF It
<1>3. (CHOOSE g : g = It(g)) = (CHOOSE g : IsSum(Signed(working), D, g))
  BY <1>2 DEF IsSum
<1> QED
  BY <1>1, <1>3, SumIs

BookTyped(book) ==
  /\ IsFiniteSet(DOMAIN book)
  /\ \A k \in DOMAIN book : k \in Key /\ book[k] \in Nat \ {0}

LEMMA UpsertTyped ==
  ASSUME NEW book, BookTyped(book), NEW k \in Key, NEW leaves \in Nat, NEW status
  PROVE  /\ BookTyped(Upsert(book, k, leaves, status))
         /\ \A j \in DOMAIN book : j # k =>
              /\ j \in DOMAIN Upsert(book, k, leaves, status)
              /\ Upsert(book, k, leaves, status)[j] = book[j]
         /\ DOMAIN Upsert(book, k, leaves, status) \subseteq DOMAIN book \cup {k}
         /\ status \notin Terminal /\ leaves # 0 =>
              /\ k \in DOMAIN Upsert(book, k, leaves, status)
              /\ Upsert(book, k, leaves, status)[k] = leaves
         /\ status \in Terminal \/ leaves = 0 => k \notin DOMAIN Upsert(book, k, leaves, status)
<1> DEFINE new == Upsert(book, k, leaves, status)
<1>1. CASE status \in Terminal \/ leaves = 0
  <2>1. new = [j \in DOMAIN book \ {k} |-> book[j]]
    BY <1>1 DEF Upsert, Restrict
  <2>2. DOMAIN new = DOMAIN book \ {k} /\ IsFiniteSet(DOMAIN book \ {k})
    BY <2>1, FS_RemoveElement DEF BookTyped
  <2> QED
    BY <1>1, <2>1, <2>2 DEF BookTyped
<1>2. CASE ~(status \in Terminal \/ leaves = 0)
  <2>1. new = [j \in DOMAIN book \cup {k} |-> IF j = k THEN leaves ELSE book[j]]
    BY <1>2 DEF Upsert, Put
  <2>2. DOMAIN new = DOMAIN book \cup {k} /\ IsFiniteSet(DOMAIN book \cup {k})
    BY <2>1, FS_AddElement DEF BookTyped
  <2> QED
    BY <1>2, <2>1, <2>2 DEF BookTyped
<1> QED
  BY <1>1, <1>2

LEMMA NetWorkingTyped ==
  ASSUME BookTyped(working)
  PROVE  NetWorking \in Int
<1>1. \A k \in DOMAIN working : Signed(working)[k] \in Int
  <2> SUFFICES ASSUME NEW k \in DOMAIN working PROVE k.side * working[k] \in Int
    BY DEF Signed
  <2>1. k.side \in {1, -1} /\ working[k] \in Int
    BY DEF BookTyped, Key, Side
  <2> QED
    BY <2>1
<1> QED
  BY <1>1, NetWorkingIsSum, SumType DEF BookTyped

(* The books, and what is read of them.                                    *)
BooksTyped ==
  /\ targetOf \in [1..MaxBar -> Int]
  /\ position \in Int /\ dbPosition \in Int /\ readPos \in [Threads -> Int]
  /\ decision.current \in Int
  /\ BookTyped(working)

(* The venue: the last event of an order leaves nothing.                   *)
OrderTyped(o) == o.key \in Key /\ o.leaves \in Nat /\ o.filled \in Nat
EventTyped(e) ==
  /\ e.leaves \in Nat /\ e.fill \in Nat
  /\ e.status \in Terminal <=> e.leaves = 0
VenueTyped ==
  /\ \A s \in DOMAIN orders : OrderTyped(orders[s])
  /\ \A i \in 1..Len(stream) : EventTyped(stream[i])

(* The keys in hand.                                                       *)
KeysTyped ==
  /\ intent \in Key \cup {NoKey} /\ request \in Key \cup {NoKey}
  /\ pc["bus"] \notin {"idle", "working"} => intent \in Key
  /\ pc["bus"] = "await" /\ request # NoKey => request = intent

(* What is known of a sequence is right, and what is replayed or in hand   *)
(* was taken off the stream.                                               *)
MapRight ==
  /\ \A s \in DOMAIN seqToClient : seqToClient[s] = orders[s].key
  /\ response \in Seqs => orders[response].key = intent
  /\ pc["subs"] \in Handling => job = cursor /\ stream[job].seq \in DOMAIN seqToClient
  /\ replayUpdates \in Seq(1..cursor)

Typed == BooksTyped /\ VenueTyped /\ KeysTyped /\ MapRight

LEMMA KeyTyped ==
  ASSUME KeyInv, BooksTyped
  PROVE  /\ Delta \in Int /\ NetWorking \in Int
         /\ Delta = (targetOf[decision.bar] - decision.current) - NetWorking
         /\ Delta # 0 => KeyOf \in Key
         /\ KeyOf.side = (IF Delta > 0 THEN 1 ELSE -1) /\ KeyOf.qty = Abs(Delta)
<1>1. NetWorking \in Int
  BY NetWorkingTyped DEF BooksTyped
<1>2. decision.bar \in 1..MaxBar /\ decision.current \in Int /\ targetOf[decision.bar] \in Int
  BY DEF BooksTyped, KeyInv, Shape
<1>3. Delta \in Int /\ Delta = (targetOf[decision.bar] - decision.current) - NetWorking
  BY <1>1, <1>2 DEF Delta
<1> DEFINE d == Delta
<1>4. KeyOf = [bar |-> decision.bar, side |-> IF d > 0 THEN 1 ELSE -1, qty |-> Abs(d)]
  BY DEF KeyOf
<1> HIDE DEF d
<1>5. Delta # 0 => Abs(d) \in Nat \ {0}
  BY <1>3 DEF d, Abs
<1>6. d = Delta
  BY DEF d
<1>7. Delta # 0 => KeyOf \in Key
  BY <1>2, <1>4, <1>5 DEF Key, Side
<1> QED
  BY <1>1, <1>3, <1>4, <1>6, <1>7

LEMMA BooksStep ==
  ASSUME KeyInv, FillInv, Typed, Next
  PROVE  BooksTyped'
<1> USE EMSXAssumption
<1>1. targetOf' = targetOf
  BY DEF Next, TargetArrives, BusStep, RunnerStep, ReadWorking, Validate, ClaimAndRegister,
         Finish, OnTarget, SendRequest, HandleResponse, ReplayUpdate, ReplayFill,
         ReplayDone, Persist, ReadPosition, WritePosition, BusCallRaises, BusInsertRaises,
         LeaveSubmit, Raise, SubsStep, SubsTake, SubsUpdate, SubsFill, SubsCallRaises,
         SubsInsertRaises, LeaveMessage, VenueReplies, VenueAccepts, VenueRefuses,
         VenueWorks, CrashAndRestart, Restart, runnerVars, feed
<1>2. ASSUME UNCHANGED <<position, dbPosition, readPos, working, decision>>
      PROVE  BooksTyped'
  BY <1>1, <1>2 DEF Typed, BooksTyped
<1>3. ASSUME NEW k \in Key, NEW leaves \in Nat, NEW status,
             working' = Upsert(working, k, leaves, status),
             UNCHANGED <<position, dbPosition, readPos, decision>>
      PROVE  BooksTyped'
  BY <1>1, <1>3, UpsertTyped DEF Typed, BooksTyped
<1>4. ASSUME NEW k \in Key, NEW e, EventTyped(e), DispatchUpdate(k, e),
             UNCHANGED <<position, dbPosition, readPos, decision>>
      PROVE  BooksTyped'
  <2>1. CASE working' = working
    BY <1>2, <1>4, <2>1
  <2>2. CASE working' = Upsert(working, k, e.leaves, e.status)
    BY <1>3, <1>4, <2>2 DEF EventTyped
  <2> QED
    BY <1>4, <2>1, <2>2 DEF DispatchUpdate, OnExecutionUpdate
<1>5. ASSUME NEW k \in Key, NEW i \in 1..cursor,
             position' = position + k.side * stream[i].fill,
             UNCHANGED <<dbPosition, readPos, working, decision>>
      PROVE  BooksTyped'
  <2>1. stream[i].fill \in Nat
    BY DEF FillInv, StreamShape, Typed, VenueTyped, EventTyped
  <2>2. k.side \in {1, -1} /\ position \in Int
    BY DEF Key, Side, Typed, BooksTyped
  <2>3. position' \in Int
    BY <1>5, <2>1, <2>2
  <2> QED
    BY <1>1, <1>5, <2>3 DEF Typed, BooksTyped
<1>6. pc["bus"] \notin {"idle", "working"} => intent \in Key
  BY DEF Typed, KeysTyped
<1>7. CASE SendRequest \/ HandleResponse \/ ReplayDone \/ BusCallRaises \/ SubsTake
             \/ SubsCallRaises \/ VenueReplies \/ \E s \in DOMAIN orders : VenueWorks(s)
  BY <1>2, <1>7 DEF SendRequest, HandleResponse, ReplayDone, BusCallRaises, LeaveSubmit,
         SubsTake, SubsCallRaises, LeaveMessage, VenueReplies, VenueAccepts, VenueRefuses,
         VenueWorks, runnerVars, books, durable, locals
<1>14. CASE TargetArrives
  <2>1. /\ UNCHANGED <<position, dbPosition, readPos, working>>
        /\ decision' = [bar |-> offset, current |-> position]
    BY <1>14 DEF TargetArrives, OnTarget, books, durable
  <2>2. decision'.current \in Int
    BY <2>1 DEF Typed, BooksTyped
  <2> QED
    BY <1>1, <2>1, <2>2 DEF Typed, BooksTyped
<1>15. CASE ReadWorking
  BY <1>2, <1>15 DEF ReadWorking, books, durable
<1>8. CASE Validate \/ ClaimAndRegister \/ Finish
  <2>1. UNCHANGED <<position, dbPosition, readPos, decision>>
    BY <1>8 DEF Validate, ClaimAndRegister, Finish, books, durable, locals
  <2>2. \/ working' = working
        \/ working' = Upsert(working, intent, intent.qty, "NEW")
        \/ working' = Upsert(working, intent, 0, "REJECTED")
    BY <1>8 DEF Validate, ClaimAndRegister, Finish, books
  <2>3. intent \in Key
    BY <1>6, <1>8 DEF Validate, ClaimAndRegister, Finish
  <2>4. intent.qty \in Nat
    BY <2>3 DEF Key
  <2> QED
    BY <1>2, <1>3, <2>1, <2>2, <2>3, <2>4
<1>9. CASE ReplayUpdate
  <2>1. intent \in Key
    BY <1>6, <1>9 DEF ReplayUpdate
  <2>2. Head(replayUpdates) \in 1..cursor
    BY <1>9, HeadTailProperties DEF ReplayUpdate, Typed, MapRight
  <2>3. EventTyped(stream[Head(replayUpdates)])
    BY <2>2 DEF FillInv, StreamShape, Typed, VenueTyped
  <2>4. UNCHANGED <<position, dbPosition, readPos, decision>>
    BY <1>9 DEF ReplayUpdate, durable, locals
  <2> QED
    BY <1>4, <1>9, <2>1, <2>3, <2>4 DEF ReplayUpdate
<1>10. CASE ReplayFill \/ BusInsertRaises
  <2>1. intent \in Key
    BY <1>6, <1>10 DEF ReplayFill, BusInsertRaises
  <2>2. Head(replayFills) \in 1..cursor
    BY <1>10, HeadTailProperties DEF ReplayFill, BusInsertRaises, FillInv, FillsShape
  <2>3. /\ UNCHANGED <<dbPosition, readPos, working, decision>>
        /\ position' = position + intent.side * stream[Head(replayFills)].fill
    BY <1>10 DEF ReplayFill, DispatchFill, OnFill, BusInsertRaises, OnFillUnstored,
                 LeaveSubmit, locals
  <2> QED
    BY <1>5, <2>1, <2>2, <2>3
<1>11. CASE SubsUpdate \/ SubsFill \/ SubsInsertRaises
  <2>1. job \in 1..cursor /\ stream[job].seq \in DOMAIN seqToClient
    BY <1>11 DEF SubsUpdate, SubsFill, SubsInsertRaises, FillInv, FillsShape, Handling, Typed, MapRight
  <2>2. job \in 1..Len(stream) /\ stream[job].seq \in DOMAIN orders
    BY <2>1 DEF FillInv, StreamShape
  <2>3. seqToClient[stream[job].seq] \in Key
    BY <2>1, <2>2 DEF Typed, MapRight, VenueTyped, OrderTyped
  <2>4. EventTyped(stream[job])
    BY <2>2 DEF Typed, VenueTyped
  <2>5. CASE SubsUpdate
    <3>1. UNCHANGED <<position, dbPosition, readPos, decision>>
      BY <2>5 DEF SubsUpdate, durable, locals
    <3> QED
      BY <1>4, <2>3, <2>4, <2>5, <3>1 DEF SubsUpdate
  <2>6. CASE SubsFill \/ SubsInsertRaises
    <3>1. /\ UNCHANGED <<dbPosition, readPos, working, decision>>
          /\ position' = position + seqToClient[stream[job].seq].side * stream[job].fill
      BY <2>6 DEF SubsFill, DispatchFill, OnFill, SubsInsertRaises, OnFillUnstored,
                  LeaveMessage, locals
    <3> QED
      BY <1>5, <2>1, <2>3, <3>1
  <2> QED
    BY <1>11, <2>5, <2>6
<1>12. ASSUME NEW t \in Threads, NEW next, Persist(t, next)
       PROVE  BooksTyped'
  BY <1>1, <1>12 DEF Persist, ReadPosition, WritePosition, books, durable, locals, Typed,
                     BooksTyped
<1>13. CASE CrashAndRestart
  <2>1. DOMAIN EmptyBook = {} /\ IsFiniteSet({})
    BY FS_EmptySet DEF EmptyBook
  <2>2. decision'.current \in Int
    BY <1>13 DEF CrashAndRestart, Restart, FirstDecision
  <2> QED
    BY <1>1, <1>13, <2>1, <2>2
       DEF CrashAndRestart, Restart, durable, Typed, BooksTyped, BookTyped
<1> QED
  BY <1>7, <1>8, <1>9, <1>10, <1>11, <1>12, <1>13, <1>14, <1>15
     DEF Next, BusStep, SubsStep, RunnerStep

(* An order that moves: what is published of it is what it has left.       *)
LEMMA Works ==
  ASSUME KeyInv, FillInv, VenueTyped, NEW s \in DOMAIN orders, VenueWorks(s)
  PROVE  /\ OrderTyped(orders'[s]) /\ orders'[s].key = orders[s].key
         /\ \A t \in DOMAIN orders : t # s => orders'[t] = orders[t]
         /\ DOMAIN orders' = DOMAIN orders
         /\ \E status, fill :
              /\ Publish(s, status, orders'[s].leaves, fill)
              /\ fill \in Nat /\ (status \in Terminal <=> orders'[s].leaves = 0)
              /\ orders'[s].filled = orders[s].filled + fill
              /\ orders'[s].leaves + fill <= orders[s].leaves
<1> DEFINE o == orders[s]
           Gives(new) ==
             \E status, fill : /\ Publish(s, status, new.leaves, fill)
                              /\ fill \in Nat /\ (status \in Terminal <=> new.leaves = 0)
                              /\ new.filled = o.filled + fill
                              /\ new.leaves + fill <= o.leaves
<1>1. /\ o \in [key : Key, leaves : Nat, filled : Nat, working : {o.working}]
      /\ o.leaves > 0 /\ o.leaves \in Nat /\ o.filled \in Nat /\ o.key \in Key
  <2>1. o = [key |-> o.key, leaves |-> o.leaves, filled |-> o.filled, working |-> o.working]
    BY DEF KeyInv, Shape
  <2> QED
    BY <2>1 DEF VenueTyped, OrderTyped, VenueWorks
<1>2. \E new :
        /\ orders' = [orders EXCEPT ![s] = new] /\ new.key = o.key
        /\ new.leaves \in Nat /\ new.filled \in Nat
        /\ Gives(new)
  <2>1. CASE /\ orders' = [orders EXCEPT ![s].working = TRUE]
             /\ Publish(s, "WORKING", o.leaves, 0)
    <3> DEFINE new == [o EXCEPT !.working = TRUE]
    <3>1. orders' = [orders EXCEPT ![s] = new]
      BY <2>1
    <3>2. new.key = o.key /\ new.leaves = o.leaves /\ new.filled = o.filled
      BY <1>1
    <3>3. Publish(s, "WORKING", new.leaves, 0) /\ new.leaves # 0
      BY <1>1, <2>1, <3>2
    <3>4. "WORKING" \notin Terminal /\ new.leaves \in Nat /\ new.filled \in Nat
      BY <1>1, <3>2 DEF Terminal
    <3>5. new.filled = o.filled + 0 /\ new.leaves + 0 <= o.leaves
      BY <1>1, <3>2
    <3> HIDE DEF new, o
    <3> QED
      BY <3>1, <3>2, <3>3, <3>4, <3>5
  <2>2. ASSUME NEW q \in 1..o.leaves,
               orders' = [orders EXCEPT ![s].leaves = @ - q, ![s].filled = @ + q],
               Publish(s, IF q = o.leaves THEN "FILLED" ELSE "PART_FILLED", o.leaves - q, q)
        PROVE  \E new :
                 /\ orders' = [orders EXCEPT ![s] = new] /\ new.key = o.key
                 /\ new.leaves \in Nat /\ new.filled \in Nat
                 /\ Gives(new)
    <3> DEFINE new == [o EXCEPT !.leaves = o.leaves - q, !.filled = o.filled + q]
    <3>1. orders' = [orders EXCEPT ![s] = new]
      BY <2>2
    <3>2. new.key = o.key /\ new.leaves = o.leaves - q /\ new.filled = o.filled + q
      BY <1>1
    <3>3. /\ q \in Nat /\ o.leaves - q \in Nat /\ o.filled + q \in Nat
          /\ o.leaves - q + q <= o.leaves
      BY <1>1, <2>2
    <3> DEFINE status == IF q = o.leaves THEN "FILLED" ELSE "PART_FILLED"
    <3>4. status \in Terminal <=> o.leaves - q = 0
      BY <1>1, <2>2 DEF Terminal
    <3>5. Publish(s, status, new.leaves, q)
      BY <2>2, <3>2
    <3> HIDE DEF new, status, o
    <3> QED
      BY <3>1, <3>2, <3>3, <3>4, <3>5
  <2>3. CASE orders' = [orders EXCEPT ![s].leaves = 0] /\ Publish(s, "CANCELLED", 0, 0)
    <3> DEFINE new == [o EXCEPT !.leaves = 0]
    <3>1. orders' = [orders EXCEPT ![s] = new]
      BY <2>3
    <3>2. new.key = o.key /\ new.leaves = 0 /\ new.filled = o.filled
      BY <1>1
    <3>3. Publish(s, "CANCELLED", new.leaves, 0)
      BY <2>3, <3>2
    <3>4. "CANCELLED" \in Terminal /\ new.leaves \in Nat /\ new.filled \in Nat
      BY <1>1, <3>2 DEF Terminal
    <3>5. new.filled = o.filled + 0 /\ new.leaves + 0 <= o.leaves
      BY <1>1, <3>2
    <3> HIDE DEF new, o
    <3> QED
      BY <3>1, <3>2, <3>3, <3>4, <3>5
  <2> QED
    BY <2>1, <2>2, <2>3 DEF VenueWorks
<1>3. PICK new :
        /\ orders' = [orders EXCEPT ![s] = new] /\ new.key = o.key
        /\ new.leaves \in Nat /\ new.filled \in Nat
        /\ Gives(new)
  BY <1>2
<1>4. /\ DOMAIN orders' = DOMAIN orders /\ orders'[s] = new
      /\ \A t \in DOMAIN orders : t # s => orders'[t] = orders[t]
  BY <1>3, UpdateOrder DEF KeyInv, Shape
<1> HIDE DEF o
<1>5. OrderTyped(new)
  BY <1>1, <1>3 DEF OrderTyped
<1> QED
  BY <1>3, <1>4, <1>5 DEF o

LEMMA VenueTypedStep ==
  ASSUME KeyInv, FillInv, Typed, Next
  PROVE  VenueTyped'
<1> USE EMSXAssumption
<1>1. CASE UNCHANGED <<orders, stream>>
  BY <1>1 DEF Typed, VenueTyped
<1>2. CASE VenueAccepts
  <2> DEFINE o == [key |-> request, leaves |-> request.qty, filled |-> 0, working |-> FALSE]
  <2>1. request # NoKey /\ orders' = Append(orders, o) /\ stream' = stream
    BY <1>2 DEF VenueAccepts
  <2>2. request \in Key /\ request.qty \in Nat
    BY <2>1 DEF Typed, KeysTyped, Key
  <2>3. OrderTyped(o)
    BY <2>2 DEF OrderTyped
  <2> HIDE DEF o
  <2>4. /\ DOMAIN orders' = DOMAIN orders \cup {Len(orders) + 1}
        /\ \A s \in DOMAIN orders : orders'[s] = orders[s]
        /\ orders'[Len(orders) + 1] = o
    BY <2>1, AppendOrder DEF KeyInv, Shape
  <2> QED
    BY <2>1, <2>3, <2>4 DEF Typed, VenueTyped
<1>3. ASSUME NEW s \in DOMAIN orders, VenueWorks(s)
      PROVE  VenueTyped'
  <2>1. /\ OrderTyped(orders'[s])
        /\ \A t \in DOMAIN orders : t # s => orders'[t] = orders[t]
        /\ DOMAIN orders' = DOMAIN orders
    BY <1>3, Works DEF Typed
  <2>2. PICK status, fill : /\ Publish(s, status, orders'[s].leaves, fill)
                            /\ fill \in Nat /\ (status \in Terminal <=> orders'[s].leaves = 0)
    BY <1>3, Works DEF Typed
  <2>3. /\ Len(stream) \in Nat /\ Len(stream') \in Nat
        /\ \A i \in 1..Len(stream) : stream'[i] = stream[i]
        /\ \A i \in 1..Len(stream') : i > Len(stream) =>
             /\ stream'[i].status = status /\ stream'[i].leaves = orders'[s].leaves
             /\ stream'[i].fill \in {0, fill}
    BY <2>1, <2>2, PublishGrows DEF FillInv, StreamGrows
  <2>4. ASSUME NEW i \in 1..Len(stream') PROVE EventTyped(stream'[i])
    <3>1. CASE i \in 1..Len(stream)
      BY <2>3, <3>1 DEF Typed, VenueTyped
    <3>2. CASE i > Len(stream)
      BY <2>1, <2>2, <2>3, <3>2 DEF EventTyped, OrderTyped
    <3> QED
      BY <2>3, <3>1, <3>2
  <2> QED
    BY <2>1, <2>4 DEF Typed, VenueTyped
<1>4. CASE TargetArrives \/ BusStep \/ SubsStep \/ VenueRefuses \/ CrashAndRestart
  BY <1>1, <1>4 DEF TargetArrives, BusStep, RunnerStep, SendRequest, HandleResponse,
         ReplayUpdate, ReplayFill, ReplayDone, Persist, BusCallRaises, BusInsertRaises,
         LeaveSubmit, SubsStep, SubsTake, SubsUpdate, SubsFill, SubsCallRaises,
         SubsInsertRaises, LeaveMessage, VenueRefuses, CrashAndRestart, venue
<1> QED
  BY <1>2, <1>3, <1>4 DEF Next, VenueReplies

LEMMA KeysStep ==
  ASSUME KeyInv, Typed, Next
  PROVE  KeysTyped'
<1> USE EMSXAssumption DEF KeyInv, Shape, Typed, KeysTyped, Goto
<1>1. CASE UNCHANGED <<intent, request>> /\ pc'["bus"] = pc["bus"]
  BY <1>1
<1>2. CASE TargetArrives
  <2>1. UNCHANGED <<request, intent>> /\ pc'["bus"] = "working"
    BY <1>2 DEF TargetArrives, OnTarget, venue
  <2> QED
    BY <2>1
<1>9. CASE ReadWorking /\ UNCHANGED venue
  <2>1. request' = request
    BY <1>9 DEF venue
  <2>2. CASE Goto("bus", "idle") /\ UNCHANGED intent
    BY <2>1, <2>2
  <2>3. CASE Delta # 0 /\ Goto("bus", "validate") /\ intent' = KeyOf
    <3>1. KeyOf \in Key
      BY <2>3, KeyTyped
    <3>2. pc'["bus"] = "validate"
      BY <2>3
    <3> QED
      BY <2>1, <2>3, <3>1, <3>2
  <2> QED
    BY <1>9, <2>2, <2>3 DEF ReadWorking
<1>3. CASE \/ (Validate \/ ClaimAndRegister \/ Finish) /\ UNCHANGED venue
           \/ ReplayDone \/ HandleResponse \/ ReplayFill \/ BusCallRaises \/ BusInsertRaises
  <2>1. UNCHANGED <<intent, request>>
    BY <1>3 DEF Validate, ClaimAndRegister, Finish, ReplayDone,
                HandleResponse, ReplayFill, BusCallRaises, BusInsertRaises, LeaveSubmit,
                locals, venue
  <2>2. /\ pc["bus"] \notin {"idle", "working"} \/ pc'["bus"] = "idle"
        /\ pc'["bus"] # "await"
    BY <1>3 DEF Validate, ClaimAndRegister, Finish, ReplayDone, HandleResponse, ReplayFill,
                BusCallRaises, BusInsertRaises, LeaveSubmit, OnTargetMayRaise
  <2> QED
    BY <2>1, <2>2
<1>4. CASE SendRequest
  <2>1. intent' = intent /\ request' = intent /\ pc["bus"] = "submit" /\ pc'["bus"] = "await"
    BY <1>4 DEF SendRequest, locals
  <2> QED
    BY <2>1
<1>5. CASE ReplayUpdate \/ SubsStep
  <2>1. UNCHANGED <<intent, request>> /\ pc'["bus"] = pc["bus"]
    BY <1>5 DEF ReplayUpdate, SubsStep, SubsTake, SubsUpdate, SubsFill, Persist,
                ReadPosition, WritePosition, SubsCallRaises, SubsInsertRaises,
                LeaveMessage, locals, venue
  <2> QED
    BY <1>1, <2>1
<1>6. CASE Persist("bus", "replay")
  <2>1. /\ UNCHANGED <<intent, request>>
        /\ pc["bus"] \in {"read", "write"} /\ pc'["bus"] \in {"write", "replay"}
    BY <1>6 DEF Persist, ReadPosition, WritePosition, locals, venue
  <2> QED
    BY <2>1
<1>7. CASE VenueReplies \/ \E s \in DOMAIN orders : VenueWorks(s)
  <2>1. UNCHANGED <<intent, pc>> /\ request' \in {request, NoKey}
    BY <1>7 DEF VenueReplies, VenueAccepts, VenueRefuses, VenueWorks, runnerVars, locals
  <2> QED
    BY <2>1
<1>8. CASE CrashAndRestart
  <2>1. request' = request /\ intent' = NoKey /\ pc'["bus"] = "idle"
    BY <1>8 DEF CrashAndRestart, Restart, venue
  <2> QED
    BY <2>1
<1> QED
  BY <1>2, <1>3, <1>4, <1>5, <1>6, <1>7, <1>8, <1>9 DEF Next, BusStep, RunnerStep

LEMMA MapStep ==
  ASSUME KeyInv, FillInv, OrderlyInv, Typed, Next
  PROVE  MapRight'
<1> USE EMSXAssumption DEF Typed
<1>1. /\ cursor \in Nat /\ cursor <= Len(stream) /\ Len(stream) \in Nat
      /\ DOMAIN orders = 1..Len(orders) /\ Len(orders) \in Nat
      /\ DOMAIN seqToClient \subseteq DOMAIN orders
      /\ response \in Seqs => response = Len(orders)
      /\ response # -1 => pc["bus"] = "await" /\ request = NoKey
      /\ -1 \notin Seqs /\ 0 \notin Seqs
  BY DEF FillInv, StreamShape, OrderlyInv, Routes, Seqs
<1>2. CASE TargetArrives \/ RunnerStep \/ SendRequest
  <2>1. UNCHANGED <<seqToClient, orders, response, job, cursor, stream, replayUpdates>>
    BY <1>2 DEF TargetArrives, RunnerStep, SendRequest, venue, subs, adapter, replays
  <2>2. pc["bus"] # "await" /\ pc'["subs"] = pc["subs"]
    BY <1>2 DEF TargetArrives, RunnerStep, ReadWorking, Validate, ClaimAndRegister, Finish,
                OnTarget, SendRequest, Goto, KeyInv, Shape
  <2> QED
    BY <1>1, <2>1, <2>2 DEF MapRight
<1>3. CASE HandleResponse
  <2>1. /\ UNCHANGED <<orders, stream, cursor, job, intent>> /\ pc'["subs"] = pc["subs"]
        /\ response' = -1 /\ response # -1
    BY <1>3 DEF HandleResponse, venue, subs, Goto, KeyInv, Shape
  <2>2. CASE response = 0
    <3>1. UNCHANGED <<seqToClient, replayUpdates>>
      BY <1>3, <2>2 DEF HandleResponse, replays
    <3> QED
      BY <1>1, <2>1, <3>1 DEF MapRight
  <2>3. CASE response # 0
    <3>1. /\ response \in Seqs /\ seqToClient' = Put(seqToClient, response, intent)
          /\ replayUpdates' = pendingUpdates[response]
      BY <1>3, <2>3 DEF HandleResponse, KeyInv, Shape
    <3>2. \A s \in DOMAIN seqToClient' : seqToClient'[s] = orders'[s].key
      BY <2>1, <3>1 DEF MapRight, Put
    <3>3. DOMAIN seqToClient \subseteq DOMAIN seqToClient'
      BY <3>1 DEF Put
    <3>4. replayUpdates' \in Seq({i \in 1..cursor : stream[i].seq = response})
      BY <3>1 DEF OrderlyInv, Routes
    <3>5. replayUpdates' \in Seq(1..cursor)
      BY <3>4, SeqMonotonic
    <3> QED
      BY <1>1, <2>1, <3>2, <3>3, <3>5 DEF MapRight
  <2> QED
    BY <2>2, <2>3
<1>4. CASE ReplayUpdate \/ ReplayFill \/ ReplayDone \/ Persist("bus", "replay")
  <2>1. /\ UNCHANGED <<seqToClient, orders, response, job, cursor, stream, intent>>
        /\ pc'["subs"] = pc["subs"]
    BY <1>4 DEF ReplayUpdate, ReplayFill, ReplayDone, Persist, ReadPosition, WritePosition,
                locals, venue, subs, adapter, Goto, KeyInv, Shape
  <2>2. replayUpdates' = replayUpdates \/ (replayUpdates # <<>> /\ replayUpdates' = Tail(replayUpdates))
    BY <1>4 DEF ReplayUpdate, ReplayFill, ReplayDone, Persist, adapter, replays
  <2>3. replayUpdates' \in Seq(1..cursor)
    BY <2>2, HeadTailProperties DEF MapRight
  <2> QED
    BY <2>1, <2>3 DEF MapRight
<1>11. CASE BusCallRaises \/ BusInsertRaises \/ SubsCallRaises \/ SubsInsertRaises
  <2>1. PICK given : LeaveSubmit(given) \/ LeaveMessage(given)
    BY <1>11 DEF BusCallRaises, BusInsertRaises, SubsCallRaises, SubsInsertRaises
  <2>5. UNCHANGED orders /\ UNCHANGED stream
    BY <2>1 DEF LeaveSubmit, LeaveMessage, venue
  <2>6. UNCHANGED <<seqToClient, response, cursor, intent>>
    BY <2>1 DEF LeaveSubmit, LeaveMessage, locals, subs, adapter
  <2>7. replayUpdates' = replayUpdates \/ replayUpdates' = <<>>
    BY <2>1 DEF LeaveSubmit, LeaveMessage, adapter, replays
  <2>8. \/ pc'["subs"] \notin Handling
        \/ pc'["subs"] = pc["subs"] /\ job' = job
    BY <2>1 DEF LeaveSubmit, LeaveMessage, subs, Handling, Goto, KeyInv, Shape
  <2>2. replayUpdates' \in Seq(1..cursor')
    <3>1. cursor' = cursor /\ replayUpdates \in Seq(1..cursor)
      BY <2>6 DEF MapRight
    <3>2. <<>> \in Seq(1..cursor)
      OBVIOUS
    <3> QED
      BY <2>7, <3>1, <3>2
  <2>3. \A s \in DOMAIN seqToClient' : seqToClient'[s] = orders'[s].key
    BY <2>5, <2>6 DEF MapRight
  <2> QED
    BY <1>1, <2>2, <2>3, <2>5, <2>6, <2>8 DEF MapRight
<1>5. CASE SubsTake
  <2>1. /\ UNCHANGED <<seqToClient, orders, response, stream, intent, replayUpdates>>
        /\ cursor' = cursor + 1 /\ pc["subs"] = "idle"
        /\ \/ /\ job' = cursor' /\ stream[cursor'].seq \in DOMAIN seqToClient
           \/ pc'["subs"] = "idle"
    BY <1>5 DEF SubsTake, locals, venue, replays, Known, Goto, KeyInv, Shape
  <2>2. replayUpdates' \in Seq(1..cursor')
    <3>1. 1..cursor \subseteq 1..cursor'
      BY <1>1, <2>1
    <3> QED
      BY <2>1, <3>1, SeqMonotonic DEF MapRight
  <2> QED
    BY <2>1, <2>2 DEF MapRight, Handling
<1>6. CASE SubsUpdate \/ SubsFill \/ Persist("subs", "idle")
  <2>1. UNCHANGED <<seqToClient, orders, response, cursor, stream, intent, replayUpdates>>
    BY <1>6 DEF SubsUpdate, SubsFill, Persist, ReadPosition, WritePosition, locals, venue,
                subs, adapter, replays
  <2>2. \/ pc'["subs"] \notin Handling
        \/ pc["subs"] \in Handling /\ job' = job
    BY <1>6 DEF SubsUpdate, SubsFill, Persist, ReadPosition, WritePosition, Handling, Goto,
                KeyInv, Shape
  <2> QED
    BY <2>1, <2>2 DEF MapRight
<1>7. CASE VenueAccepts
  <2> DEFINE o == [key |-> request, leaves |-> request.qty, filled |-> 0, working |-> FALSE]
  <2>1. /\ UNCHANGED <<seqToClient, pc, job, cursor, stream, intent, replayUpdates>>
        /\ request # NoKey /\ orders' = Append(orders, o)
        /\ response' = IF pc["bus"] = "await" THEN Len(orders) + 1 ELSE response
    BY <1>7 DEF VenueAccepts, runnerVars, locals, subs, adapter, replays
  <2>2. o.key = request
    OBVIOUS
  <2> HIDE DEF o
  <2>3. /\ \A s \in DOMAIN orders : orders'[s] = orders[s]
        /\ orders'[Len(orders) + 1] = o
    BY <2>1, AppendOrder DEF KeyInv, Shape
  <2>4. response' \in Seqs => orders'[response'].key = intent'
    BY <1>1, <2>1, <2>2, <2>3 DEF KeysTyped
  <2> QED
    BY <1>1, <2>1, <2>3, <2>4 DEF MapRight
<1>8. CASE VenueRefuses
  <2>1. /\ UNCHANGED <<seqToClient, orders, pc, job, cursor, stream, intent, replayUpdates>>
        /\ request # NoKey /\ response' \in {response, 0}
    BY <1>8 DEF VenueRefuses, runnerVars, locals, subs, adapter, replays
  <2> QED
    BY <1>1, <2>1 DEF MapRight
<1>9. ASSUME NEW s \in DOMAIN orders, VenueWorks(s)
      PROVE  MapRight'
  <2>1. UNCHANGED <<seqToClient, pc, job, cursor, response, intent, replayUpdates>>
    BY <1>9 DEF VenueWorks, runnerVars, locals, subs, adapter, replays
  <2>2. \A t \in DOMAIN orders : orders'[t].key = orders[t].key
    BY <1>9, KeptKeys
  <2>3. \E status, leaves, fill : Publish(s, status, leaves, fill)
    BY <1>9 DEF VenueWorks
  <2>4. \A i \in 1..Len(stream) : stream'[i] = stream[i]
    BY <1>9, <2>3, KeptKeys, PublishGrows DEF FillInv, StreamGrows
  <2>5. pc["subs"] \in Handling => stream'[job] = stream[job]
    <3>1. pc["subs"] \in Handling => job \in 1..Len(stream)
      BY <1>1 DEF FillInv, FillsShape
    <3> QED
      BY <2>4, <3>1
  <2>6. response \in Seqs => response \in DOMAIN orders
    BY <1>1 DEF Seqs
  <2> QED
    BY <1>1, <2>1, <2>2, <2>5, <2>6 DEF MapRight
<1>10. CASE CrashAndRestart
  <2>1. /\ DOMAIN seqToClient' = {} /\ response' = -1 /\ cursor' = 0 /\ replayUpdates' = <<>>
        /\ pc'["subs"] = "idle"
    BY <1>10 DEF CrashAndRestart, Restart, EmptyBook
  <2> QED
    BY <1>1, <2>1 DEF MapRight, Handling
<1> QED
  BY <1>2, <1>3, <1>4, <1>5, <1>6, <1>7, <1>8, <1>9, <1>10, <1>11
     DEF Next, BusStep, SubsStep, VenueReplies

LEMMA TypedInit == Init => Typed
<1> SUFFICES ASSUME Init PROVE Typed
  OBVIOUS
<1> USE EMSXAssumption, RunnerAssumption
<1>1. /\ position = 0 /\ dbPosition = 0 /\ readPos = [t \in Threads |-> 0]
      /\ working = EmptyBook /\ seqToClient = EmptyBook
      /\ orders = <<>> /\ stream = <<>> /\ DOMAIN orders = {} /\ Len(stream) = 0
      /\ intent = NoKey /\ request = NoKey /\ pc = [t \in Threads |-> "idle"]
      /\ decision.current = 0
      /\ response = -1 /\ -1 \notin Seqs /\ replayUpdates = <<>>
  BY DEF Init, RunnerInit, FirstDecision, Seqs
<1>2. DOMAIN EmptyBook = {} /\ IsFiniteSet({})
  BY FS_EmptySet DEF EmptyBook
<1>3. targetOf \in [1..MaxBar -> Int]
  BY DEF Init, RunnerInit
<1>4. BooksTyped
  BY <1>1, <1>2, <1>3 DEF BooksTyped, BookTyped
<1>5. VenueTyped
  BY <1>1 DEF VenueTyped
<1>6. KeysTyped
  BY <1>1 DEF KeysTyped
<1>7. MapRight
  BY <1>1, <1>2 DEF MapRight, Handling
<1> QED
  BY <1>4, <1>5, <1>6, <1>7 DEF Typed

THEOREM TypedInvariant == Spec => []Typed
<1>1. KeyInv /\ FillInv /\ OrderlyInv /\ Typed /\ [Next]_vars => Typed'
  <2> SUFFICES ASSUME KeyInv, FillInv, OrderlyInv, Typed, [Next]_vars PROVE Typed'
    OBVIOUS
  <2>1. CASE UNCHANGED vars
    BY <2>1
       DEF vars, runnerVars, feed, books, durable, locals, venue, subs, adapter, buffers,
           replays, Typed, BooksTyped, VenueTyped, KeysTyped, MapRight
  <2>2. CASE Next
    BY <2>2, BooksStep, VenueTypedStep, KeysStep, MapStep DEF Typed
  <2> QED
    BY <2>1, <2>2
<1> QED
  BY <1>1, TypedInit, KeyInvariant, FillInvariant, OrderlyInvariant, PTL DEF Spec

-----------------------------------------------------------------------------
(* The working book against the venue.                                     *)

(* An order's leaves as its last event among the first n tells them.       *)
Believed(s, n, leaves) ==
  \/ \E i \in 1..n : /\ stream[i].seq = s /\ stream[i].leaves = leaves
                     /\ \A j \in 1..n : j > i => stream[j].seq # s
  \/ leaves = orders[s].key.qty /\ \A i \in 1..n : stream[i].seq # s

Shown(book, k, leaves) ==
  /\ k \in DOMAIN book <=> leaves # 0
  /\ leaves # 0 => book[k] = leaves
Covered(book, k, leaves) == leaves # 0 => k \in DOMAIN book /\ book[k] >= leaves

(* The events the subs thread has dispatched.                              *)
Dispatched == IF pc["subs"] = "update" THEN cursor - 1 ELSE cursor

Trading == crashes = 0 /\ ~conduct.early

(* The order in hand is not at the venue yet, or never will be.            *)
Pending == pc["bus"] = "submit" \/ (pc["bus"] = "await" /\ request = intent)
Refused == (pc["bus"] = "await" /\ response = 0) \/ (pc["bus"] = "finish" /\ ~accepted)

(* Every working order is at the venue, or in hand, or a call raised.      *)
Registered ==
  /\ \A s \in DOMAIN orders : orders[s].key \in registered
  /\ Pending => intent \in registered /\ Shown(working, intent, intent.qty)
  /\ \A k \in DOMAIN working :
       \/ \E s \in DOMAIN orders : orders[s].key = k
       \/ k = intent /\ (Pending \/ Refused)
       \/ raises # 0
  /\ Refused => \A s \in DOMAIN orders : orders[s].key # intent
  /\ pc["bus"] = "await" => request = intent \/ response # -1
  /\ request # NoKey => pc["bus"] = "await"
  /\ pc["bus"] = "replay" => accepted

(* The last event of an order tells what it has left, no event more than   *)
(* the one before; and the book shows what the last one dispatched told,   *)
(* or, once a call raised, at least that.                                  *)
Descends ==
  \A i \in 1..Len(stream) : \A b \in Nat :
    Believed(stream[i].seq, i - 1, b) => stream[i].leaves <= b
Follows ==
  /\ \A i \in 1..Len(stream) : stream[i].seq \in DOMAIN seqToClient
  /\ \A s \in DOMAIN orders : Believed(s, Len(stream), orders[s].leaves)
  /\ \A s \in DOMAIN orders :
       \E leaves \in Nat : /\ Believed(s, Dispatched, leaves)
                           /\ Covered(working, orders[s].key, leaves)
                           /\ raises = 0 => Shown(working, orders[s].key, leaves)
  /\ Descends

BookInv == Trading => Registered /\ Follows

LEMMA FollowsFrame ==
  ASSUME Follows, UNCHANGED <<stream, orders>>, Dispatched' = Dispatched,
         DOMAIN seqToClient \subseteq DOMAIN seqToClient',
         raises' = raises \/ raises' # 0,
         \A s \in DOMAIN orders : \A leaves \in Nat :
           /\ Covered(working, orders[s].key, leaves) => Covered(working', orders[s].key, leaves)
           /\ Shown(working, orders[s].key, leaves) => Shown(working', orders[s].key, leaves)
  PROVE  Follows'
<1>1. \A s, leaves : Believed(s, Len(stream), leaves)' = Believed(s, Len(stream), leaves)
  BY DEF Believed
<1>2. \A s, leaves : Believed(s, Dispatched, leaves)' = Believed(s, Dispatched, leaves)
  BY DEF Believed
<1>3. \A s \in DOMAIN orders' : Believed(s, Len(stream), orders[s].leaves)'
  BY <1>1 DEF Follows
<1>4. \A s \in DOMAIN orders' : \E leaves \in Nat :
        /\ Believed(s, Dispatched, leaves)'
        /\ Covered(working', orders'[s].key, leaves)
        /\ raises' = 0 => Shown(working', orders'[s].key, leaves)
  BY <1>2 DEF Follows
<1>5. Descends'
  <2>1. \A i : \A b : Believed(stream[i].seq, i - 1, b)' = Believed(stream[i].seq, i - 1, b)
    BY DEF Believed
  <2> QED
    BY <2>1 DEF Follows, Descends
<1> QED
  BY <1>3, <1>4, <1>5 DEF Follows

(* What the other invariants say here.                                     *)
LEMMA BookFacts ==
  ASSUME KeyInv, FillInv, OrderlyInv, Typed, BookInv, Trading
  PROVE  /\ Registered /\ Follows /\ Orderly
         /\ Pending => \A s \in DOMAIN orders : orders[s].key # intent
         /\ pc["bus"] \notin {"idle", "working"} =>
              intent \in Key /\ intent.qty \in Nat \ {0} /\ intent # NoKey
         /\ request # NoKey => request = intent
         /\ cursor \in Nat /\ cursor <= Len(stream) /\ Len(stream) \in Nat
         /\ Dispatched \in Nat /\ Dispatched <= cursor
         /\ pc["subs"] = "update" => job = cursor /\ job \in 1..Len(stream)
         /\ BookTyped(working)
         /\ response # -1 => pc["bus"] = "await" /\ request = NoKey
<1> USE DEF KeyInv, OrderlyInv, Routes, Typed, BookInv, Trading
<1>1. Registered /\ Follows /\ Orderly
  OBVIOUS
<1>2. Pending => \A s \in DOMAIN orders : orders[s].key # intent
  BY DEF Pending, SentKeysClaimed, OneOrderPerKey
<1>3. pc["bus"] \notin {"idle", "working"} => intent \in Key /\ intent.qty \in Nat \ {0} /\ intent # NoKey
  BY DEF KeysTyped, Key, NoKey
<1>4. request # NoKey => request = intent
  BY <1>1 DEF Registered, KeysTyped
<1>5. cursor \in Nat /\ cursor <= Len(stream) /\ Len(stream) \in Nat
  BY DEF FillInv, StreamShape
<1>6. pc["subs"] = "update" => job = cursor /\ job \in 1..cursor
  BY DEF FillInv, FillsShape, Handling, MapRight
<1>7. /\ Dispatched \in Nat /\ Dispatched <= cursor
      /\ pc["subs"] = "update" => job = cursor /\ job \in 1..Len(stream)
  BY <1>5, <1>6 DEF Dispatched
<1> QED
  BY <1>1, <1>2, <1>3, <1>4, <1>5, <1>7 DEF BooksTyped

LEMMA BookRunner ==
  ASSUME KeyInv, FillInv, OrderlyInv, Typed, BookInv, Trading, TargetArrives \/ RunnerStep
  PROVE  Registered' /\ Follows'
<1> USE EMSXAssumption
<1>1. /\ UNCHANGED <<orders, stream, seqToClient, request, response, cursor, raises>>
      /\ pc["bus"] \in {"idle", "working", "validate", "claim", "finish"}
      /\ pc'["bus"] \in {"idle", "working", "validate", "claim", "submit"}
      /\ pc'["subs"] = pc["subs"]
  BY DEF TargetArrives, RunnerStep, ReadWorking, Validate, ClaimAndRegister, Finish, OnTarget,
         venue, feed, subs, adapter, Goto, KeyInv, Shape
<1>2. request = NoKey /\ ~Pending /\ Dispatched' = Dispatched /\ response = -1
  BY <1>1, BookFacts DEF Registered, Pending, Dispatched
<1>3. CASE UNCHANGED <<working, registered>> /\ ~Refused /\ pc'["bus"] # "submit"
  <2>1. Follows'
    BY <1>1, <1>2, <1>3, BookFacts, FollowsFrame
  <2>2. Registered'
    BY <1>1, <1>2, <1>3, BookFacts DEF Registered, Pending, Refused
  <2> QED
    BY <2>1, <2>2
<1>4. CASE TargetArrives \/ ReadWorking \/ Validate
  <2>1. UNCHANGED <<working, registered>> /\ ~Refused /\ pc'["bus"] # "submit"
    BY <1>4 DEF TargetArrives, OnTarget, ReadWorking, Validate, books, Refused, Goto, KeyInv, Shape
  <2> QED
    BY <1>3, <2>1
<1>5. CASE ClaimAndRegister
  <2>1. CASE intent \in claimed
    <3>1. UNCHANGED <<working, registered>> /\ ~Refused /\ pc'["bus"] # "submit"
      BY <1>5, <2>1 DEF ClaimAndRegister, ClaimWins, Refused, Goto, KeyInv, Shape
    <3> QED
      BY <1>3, <3>1
  <2>2. CASE intent \notin claimed
    <3>1. /\ intent' = intent /\ pc["bus"] = "claim" /\ pc'["bus"] = "submit"
          /\ working' = Upsert(working, intent, intent.qty, "NEW")
          /\ registered' = registered \cup {intent}
      BY <1>5, <2>2 DEF ClaimAndRegister, ClaimWins, locals, Goto, KeyInv, Shape
    <3>2. \A s \in DOMAIN orders : orders[s].key # intent
      BY <2>2 DEF KeyInv, SentKeysClaimed
    <3>3. intent \in Key /\ intent.qty \in Nat \ {0} /\ BookTyped(working)
      BY <3>1, BookFacts
    <3>4. /\ \A j \in DOMAIN working : j # intent => j \in DOMAIN working' /\ working'[j] = working[j]
          /\ DOMAIN working' \subseteq DOMAIN working \cup {intent}
          /\ intent \in DOMAIN working' /\ working'[intent] = intent.qty
      BY <3>1, <3>3, UpsertTyped DEF Terminal
    <3>5. Follows'
      <4>1. \A s \in DOMAIN orders : \A leaves \in Nat :
              /\ Covered(working, orders[s].key, leaves) => Covered(working', orders[s].key, leaves)
              /\ Shown(working, orders[s].key, leaves) => Shown(working', orders[s].key, leaves)
        BY <3>2, <3>4 DEF Shown, Covered
      <4> QED
        BY <1>1, <1>2, <4>1, BookFacts, FollowsFrame
    <3>7. Registered /\ ~Refused /\ Pending'
      BY <3>1, BookFacts DEF Refused, Pending
    <3>8. Registered'
      BY <1>1, <1>2, <3>1, <3>3, <3>4, <3>7 DEF Registered, Shown, Refused
    <3> QED
      BY <3>5, <3>8
  <2> QED
    BY <2>1, <2>2
<1>6. CASE Finish
  <2>1. pc["bus"] = "finish" /\ pc'["bus"] = "idle" /\ intent' = intent
    BY <1>6 DEF Finish, locals, Goto, KeyInv, Shape
  <2>2. CASE accepted
    <3>1. UNCHANGED <<working, registered>> /\ ~Refused
      BY <1>6, <2>1, <2>2 DEF Finish, Refused
    <3> QED
      BY <1>3, <2>1, <3>1
  <2>3. CASE ~accepted
    <3>1. /\ working' = Upsert(working, intent, 0, "REJECTED")
          /\ registered' = registered
      BY <1>6, <2>3 DEF Finish
    <3>2. Refused
      BY <2>1, <2>3 DEF Refused
    <3>3. /\ \A s \in DOMAIN orders : orders[s].key # intent
          /\ intent \in Key /\ BookTyped(working)
      BY <2>1, <3>2, BookFacts DEF Registered
    <3>4. /\ \A j \in DOMAIN working : j # intent => j \in DOMAIN working' /\ working'[j] = working[j]
          /\ DOMAIN working' \subseteq DOMAIN working \cup {intent}
          /\ intent \notin DOMAIN working'
      BY <3>1, <3>3, UpsertTyped
    <3>5. Follows'
      <4>1. \A s \in DOMAIN orders : \A leaves \in Nat :
              /\ Covered(working, orders[s].key, leaves) => Covered(working', orders[s].key, leaves)
              /\ Shown(working, orders[s].key, leaves) => Shown(working', orders[s].key, leaves)
        BY <3>3, <3>4 DEF Shown, Covered
      <4> QED
        BY <1>1, <1>2, <4>1, BookFacts, FollowsFrame
    <3>7. Registered'
      BY <1>1, <1>2, <2>1, <3>1, <3>4, BookFacts DEF Registered, Pending, Refused
    <3> QED
      BY <3>5, <3>7
  <2> QED
    BY <2>2, <2>3
<1> QED
  BY <1>4, <1>5, <1>6 DEF RunnerStep

LEMMA BookSubmit ==
  ASSUME KeyInv, FillInv, OrderlyInv, Typed, BookInv, Trading,
         SendRequest \/ HandleResponse \/ ReplayUpdate \/ ReplayFill
           \/ ReplayDone \/ Persist("bus", "replay")
  PROVE  Registered' /\ Follows'
<1> USE EMSXAssumption
<1>1. SendRequest \/ HandleResponse \/ ReplayDone
  <2>1. Orderly
    BY BookFacts
  <2> QED
    BY <2>1 DEF Orderly, ReplayUpdate, ReplayFill, Persist, ReadPosition, WritePosition
<1>2. /\ UNCHANGED <<orders, stream, cursor, working, registered, raises, intent>>
      /\ pc'["subs"] = pc["subs"] /\ Dispatched' = Dispatched
      /\ pc["bus"] \notin {"idle", "working"}
  BY <1>1 DEF SendRequest, HandleResponse, ReplayDone, feed, books, locals, venue, subs,
              Goto, KeyInv, Shape, Dispatched
<1>3. DOMAIN seqToClient \subseteq DOMAIN seqToClient'
  BY <1>1 DEF SendRequest, HandleResponse, ReplayDone, adapter, Put
<1>4. Follows'
  BY <1>2, <1>3, BookFacts, FollowsFrame
<1>5. CASE SendRequest
  <2>1. /\ request' = intent /\ response' = response
        /\ pc["bus"] = "submit" /\ pc'["bus"] = "await"
    BY <1>5 DEF SendRequest, Goto, KeyInv, Shape
  <2>2. response = -1 /\ Pending /\ ~Refused /\ Pending' /\ ~Refused'
    BY <1>2, <2>1, BookFacts DEF Pending, Refused
  <2>3. Registered'
    BY <1>2, <2>1, <2>2, BookFacts DEF Registered
  <2> QED
    BY <1>4, <2>3
<1>6. CASE HandleResponse
  <2>1. /\ request' = request /\ response' = -1 /\ response # -1 /\ accepted' = (response # 0)
        /\ pc["bus"] = "await" /\ pc'["bus"] = IF response = 0 THEN "finish" ELSE "replay"
    BY <1>6 DEF HandleResponse, venue, Goto, KeyInv, Shape
  <2>2. request = NoKey /\ intent # NoKey
    BY <2>1, BookFacts
  <2>3. ~Pending /\ ~Pending' /\ (Refused <=> response = 0) /\ (Refused' <=> response = 0)
    BY <1>2, <2>1, <2>2 DEF Pending, Refused
  <2>4. Registered'
    BY <1>2, <2>1, <2>2, <2>3, BookFacts DEF Registered
  <2> QED
    BY <1>4, <2>4
<1>7. CASE ReplayDone
  <2>1. UNCHANGED <<request, response, accepted>> /\ pc["bus"] = "replay" /\ pc'["bus"] = "finish"
    BY <1>7 DEF ReplayDone, venue, locals, Goto, KeyInv, Shape
  <2>2. accepted
    BY <2>1, BookFacts DEF Registered
  <2>3. ~Pending /\ ~Refused /\ ~Pending' /\ ~Refused'
    BY <2>1, <2>2 DEF Pending, Refused
  <2>4. Registered'
    BY <1>2, <2>1, <2>2, <2>3, BookFacts DEF Registered
  <2> QED
    BY <1>4, <2>4
<1> QED
  BY <1>1, <1>5, <1>6, <1>7

(* A call of the bus thread raises: the order in hand stays in the book.   *)
LEMMA BookBusRaise ==
  ASSUME KeyInv, FillInv, OrderlyInv, Typed, BookInv, Trading, BusCallRaises \/ BusInsertRaises
  PROVE  Registered' /\ Follows'
<1> USE EMSXAssumption
<1>1. BusCallRaises /\ pc["bus"] \in OnTargetMayRaise /\ raises \in Nat
  <2>1. Orderly
    BY BookFacts
  <2>2. replayUpdates \o replayFills = <<>>
    BY <2>1 DEF Orderly
  <2> QED
    BY <2>1, <2>2 DEF Orderly, BusCallRaises, BusInsertRaises, FillInv, FillsShape
<1>2. /\ UNCHANGED <<orders, stream, cursor, seqToClient, working, registered, intent, request,
                     response, accepted>>
      /\ pc'["subs"] = pc["subs"] /\ Dispatched' = Dispatched /\ raises' # 0
      /\ pc["bus"] # "await" /\ pc'["bus"] = "idle"
  BY <1>1 DEF BusCallRaises, LeaveSubmit, Raise, OnTargetMayRaise, books, locals, venue, subs,
              Goto, KeyInv, Shape, Dispatched
<1>3. Follows'
  BY <1>2, BookFacts, FollowsFrame
<1>4. ~Pending' /\ ~Refused' /\ request = NoKey /\ response = -1
  BY <1>2, BookFacts DEF Pending, Refused, Registered
<1>5. Registered'
  BY <1>2, <1>4, BookFacts DEF Registered
<1> QED
  BY <1>3, <1>5

(* The subs thread dispatches the next event: the book shows what it says  *)
(* of its order, and what it showed of the others.                         *)
LEMMA BookUpdate ==
  ASSUME KeyInv, FillInv, OrderlyInv, Typed, BookInv, Trading, SubsUpdate
  PROVE  Registered' /\ Follows'
<1> USE EMSXAssumption
<1> DEFINE e == stream[cursor]
           k == orders[e.seq].key
<1>1. /\ UNCHANGED <<orders, stream, cursor, seqToClient, request, response, intent, accepted,
                     raises>>
      /\ pc["subs"] = "update" /\ pc'["subs"] # "update" /\ pc'["bus"] = pc["bus"]
  <2>1. UNCHANGED <<orders, stream, cursor, seqToClient, request, response, intent, accepted>>
    BY DEF SubsUpdate, locals, venue, adapter
  <2>2. UNCHANGED raises
    BY DEF SubsUpdate, feed
  <2>3. pc["subs"] = "update" /\ pc'["subs"] # "update" /\ pc'["bus"] = pc["bus"]
    BY DEF SubsUpdate, Goto, KeyInv, Shape
  <2> QED
    BY <2>1, <2>2, <2>3
<1>2. /\ job = cursor /\ cursor \in 1..Len(stream) /\ Len(stream) \in Nat /\ cursor \in Nat
      /\ Registered /\ Follows /\ BookTyped(working)
  BY <1>1, BookFacts
<1>3. /\ e.seq \in DOMAIN seqToClient /\ e.seq \in DOMAIN orders
      /\ seqToClient[e.seq] = k /\ k \in registered /\ k \in Key /\ EventTyped(e)
  <2>1. e.seq \in DOMAIN seqToClient /\ e.seq \in DOMAIN orders
    BY <1>2 DEF Follows, FillInv, StreamShape
  <2> QED
    BY <1>2, <2>1 DEF Registered, Typed, MapRight, VenueTyped, OrderTyped
<1>4. /\ working' = Upsert(working, k, e.leaves, e.status)
      /\ registered' = registered
  BY <1>2, <1>3 DEF SubsUpdate, DispatchUpdate, OnExecutionUpdate
<1>5. /\ \A j \in DOMAIN working : j # k => j \in DOMAIN working' /\ working'[j] = working[j]
      /\ DOMAIN working' \subseteq DOMAIN working \cup {k}
      /\ Shown(working', k, e.leaves) /\ e.leaves \in Nat
  <2>1. e.leaves \in Nat /\ (e.status \in Terminal <=> e.leaves = 0)
    BY <1>3 DEF EventTyped
  <2> HIDE DEF e, k
  <2> QED
    BY <1>2, <1>3, <1>4, <2>1, UpsertTyped DEF Shown
<1>6. Dispatched = cursor - 1 /\ Dispatched' = cursor
  BY <1>1 DEF Dispatched
<1>7. \A s \in DOMAIN orders : s # e.seq => orders[s].key # k
  BY <1>3 DEF KeyInv, OneOrderPerKey
<1>8. Follows'
  <2>1. ASSUME NEW s \in DOMAIN orders
        PROVE  \E leaves \in Nat : /\ Believed(s, Dispatched, leaves)'
                                   /\ Covered(working', orders'[s].key, leaves)
                                   /\ raises' = 0 => Shown(working', orders'[s].key, leaves)
    <3>1. CASE s = e.seq
      <4>1. Believed(s, Dispatched, e.leaves)'
        BY <1>1, <1>2, <1>6, <3>1 DEF Believed
      <4>2. Covered(working', k, e.leaves)
        BY <1>5 DEF Shown, Covered
      <4> QED
        BY <1>1, <1>5, <3>1, <4>1, <4>2
    <3>2. CASE s # e.seq
      <4>1. PICK leaves \in Nat : /\ Believed(s, Dispatched, leaves)
                                  /\ Covered(working, orders[s].key, leaves)
                                  /\ raises = 0 => Shown(working, orders[s].key, leaves)
        BY <1>2 DEF Follows
      <4>2. Believed(s, Dispatched, leaves)'
        <5>1. \A i \in 1..cursor : i \in 1..(cursor - 1) \/ i = cursor
          BY <1>2
        <5>2. 1..(cursor - 1) \subseteq 1..cursor
          BY <1>2
        <5> QED
          BY <1>1, <1>6, <3>2, <4>1, <5>1, <5>2 DEF Believed
      <4>3. /\ Covered(working', orders'[s].key, leaves)
            /\ raises' = 0 => Shown(working', orders'[s].key, leaves)
        BY <1>1, <1>5, <1>7, <3>2, <4>1 DEF Shown, Covered
      <4> QED
        BY <4>2, <4>3
    <3> QED
      BY <3>1, <3>2
  <2>2. \A s, leaves : Believed(s, Len(stream), leaves)' = Believed(s, Len(stream), leaves)
    BY <1>1 DEF Believed
  <2>3. \A s \in DOMAIN orders' : Believed(s, Len(stream), orders[s].leaves)'
    BY <1>1, <1>2, <2>2 DEF Follows
  <2>4. Descends'
    <3>1. \A s, n, b : Believed(s, n, b)' = Believed(s, n, b)
      BY <1>1 DEF Believed
    <3>2. Descends
      BY <1>2 DEF Follows
    <3> QED
      BY <1>1, <3>1, <3>2 DEF Descends
  <2> QED
    BY <1>1, <1>2, <2>1, <2>3, <2>4 DEF Follows
<1>9. Registered'
  <2>1. (Pending' <=> Pending) /\ (Refused' <=> Refused)
    BY <1>1 DEF Pending, Refused
  <2>2. Pending => Shown(working', intent, intent.qty)
    <3> SUFFICES ASSUME Pending PROVE Shown(working', intent, intent.qty)
      OBVIOUS
    <3>1. intent # k /\ Shown(working, intent, intent.qty)
      BY <1>2, <1>3, BookFacts DEF Registered
    <3> QED
      BY <1>5, <3>1 DEF Shown
  <2> HIDE DEF e
  <2> QED
    BY <1>1, <1>2, <1>3, <1>4, <1>5, <2>1, <2>2 DEF Registered
<1> QED
  BY <1>8, <1>9

(* The update of an event raises: the book still shows what an earlier     *)
(* event told of its order, which is no less.                              *)
LEMMA BookUpdateRaise ==
  ASSUME KeyInv, FillInv, OrderlyInv, Typed, BookInv, Trading,
         SubsCallRaises, pc["subs"] = "update"
  PROVE  Registered' /\ Follows'
<1> USE EMSXAssumption
<1> DEFINE e == stream[cursor]
<1>1. /\ UNCHANGED <<orders, stream, cursor, seqToClient, request, response, intent, accepted,
                     working, registered>>
      /\ pc'["subs"] = "idle" /\ pc'["bus"] = pc["bus"] /\ raises' = raises + 1
  BY DEF SubsCallRaises, LeaveMessage, Raise, books, locals, venue, adapter, Goto, KeyInv, Shape
<1>2. /\ cursor \in 1..Len(stream) /\ Len(stream) \in Nat /\ cursor \in Nat
      /\ Registered /\ Follows /\ BookTyped(working) /\ raises' # 0
  <2>1. raises \in Nat
    BY DEF FillInv, FillsShape
  <2>2. /\ job = cursor /\ job \in 1..Len(stream) /\ Len(stream) \in Nat /\ cursor \in Nat
        /\ Registered /\ Follows /\ BookTyped(working)
    BY BookFacts
  <2> QED
    BY <1>1, <2>1, <2>2
<1>3. e.seq \in DOMAIN orders /\ e.leaves \in Nat
  BY <1>2 DEF Follows, FillInv, StreamShape, Typed, VenueTyped, EventTyped
<1>6. Dispatched = cursor - 1 /\ Dispatched' = cursor
  BY <1>1 DEF Dispatched
<1>8. Follows'
  <2>1. ASSUME NEW s \in DOMAIN orders
        PROVE  \E leaves \in Nat : /\ Believed(s, Dispatched, leaves)'
                                   /\ Covered(working', orders'[s].key, leaves)
                                   /\ raises' = 0 => Shown(working', orders'[s].key, leaves)
    <3>1. PICK leaves \in Nat : /\ Believed(s, cursor - 1, leaves)
                                /\ Covered(working, orders[s].key, leaves)
      BY <1>2, <1>6 DEF Follows
    <3>2. CASE s = e.seq
      <4>1. e.leaves <= leaves
        BY <1>2, <3>1, <3>2 DEF Follows, Descends
      <4>2. Covered(working, orders[s].key, e.leaves)
        <5>1. ASSUME NEW k \in DOMAIN working PROVE working[k] \in Nat
          BY <1>2 DEF BookTyped
        <5> HIDE DEF e
        <5> QED
          BY <1>3, <3>1, <4>1, <5>1 DEF Covered
      <4>3. Believed(s, Dispatched, e.leaves)'
        BY <1>1, <1>2, <1>6, <3>2 DEF Believed
      <4> QED
        BY <1>1, <1>2, <1>3, <4>2, <4>3
    <3>3. CASE s # e.seq
      <4>1. Believed(s, Dispatched, leaves)'
        <5>1. \A i \in 1..cursor : i \in 1..(cursor - 1) \/ i = cursor
          BY <1>2
        <5>2. 1..(cursor - 1) \subseteq 1..cursor
          BY <1>2
        <5> QED
          BY <1>1, <1>6, <3>1, <3>3, <5>1, <5>2 DEF Believed
      <4> QED
        BY <1>1, <1>2, <3>1, <4>1
    <3> QED
      BY <3>2, <3>3
  <2>2. \A s, leaves : Believed(s, Len(stream), leaves)' = Believed(s, Len(stream), leaves)
    BY <1>1 DEF Believed
  <2>3. \A s \in DOMAIN orders' : Believed(s, Len(stream), orders[s].leaves)'
    BY <1>1, <1>2, <2>2 DEF Follows
  <2>4. Descends'
    <3>1. \A s, n, b : Believed(s, n, b)' = Believed(s, n, b)
      BY <1>1 DEF Believed
    <3>2. Descends
      BY <1>2 DEF Follows
    <3> QED
      BY <1>1, <3>1, <3>2 DEF Descends
  <2> QED
    BY <1>1, <1>2, <2>1, <2>3, <2>4 DEF Follows
<1>9. (Pending' <=> Pending) /\ (Refused' <=> Refused)
  BY <1>1 DEF Pending, Refused
<1>10. Registered'
  BY <1>1, <1>2, <1>9 DEF Registered
<1> QED
  BY <1>8, <1>10

LEMMA BookSubs ==
  ASSUME KeyInv, FillInv, OrderlyInv, Typed, BookInv, Trading, SubsStep
  PROVE  Registered' /\ Follows'
<1> USE EMSXAssumption
<1>1. CASE SubsTake
  <2>1. /\ UNCHANGED <<orders, stream, seqToClient, request, response, intent, accepted,
                       working, registered, raises>>
        /\ pc["subs"] = "idle" /\ pc'["bus"] = pc["bus"] /\ cursor' = cursor + 1
        /\ cursor < Len(stream)
    BY <1>1 DEF SubsTake, feed, books, locals, venue, Goto, KeyInv, Shape
  <2>2. cursor + 1 \in 1..Len(stream) /\ cursor \in Nat
    BY <2>1, BookFacts
  <2>3. Known(stream[cursor + 1].seq)
    BY <2>2, BookFacts DEF Follows, Known
  <2>4. pc'["subs"] = "update"
    BY <1>1, <2>3 DEF SubsTake, Goto, KeyInv, Shape
  <2>5. Dispatched' = Dispatched
    BY <2>1, <2>2, <2>4 DEF Dispatched
  <2>6. Follows'
    BY <2>1, <2>5, BookFacts, FollowsFrame
  <2>7. Registered'
    BY <2>1, BookFacts DEF Registered, Pending, Refused
  <2> QED
    BY <2>6, <2>7
<1>2. CASE \/ SubsFill \/ Persist("subs", "idle") \/ SubsInsertRaises
           \/ SubsCallRaises /\ pc["subs"] # "update"
  <2>1. /\ UNCHANGED <<orders, stream, seqToClient, request, response, intent, accepted,
                       working, registered, cursor>>
        /\ pc["subs"] # "update" /\ pc'["subs"] # "update" /\ pc'["bus"] = pc["bus"]
        /\ raises' = raises \/ raises' = raises + 1
    BY <1>2 DEF SubsFill, Persist, ReadPosition, WritePosition, SubsInsertRaises,
                SubsCallRaises, LeaveMessage, Raise, feed, books, locals, venue, subs,
                adapter, Goto, KeyInv, Shape
  <2>2. Dispatched' = Dispatched
    BY <2>1 DEF Dispatched
  <2>3. raises' = raises \/ raises' # 0
    BY <2>1 DEF FillInv, FillsShape
  <2>4. Follows'
    BY <2>1, <2>2, <2>3, BookFacts, FollowsFrame
  <2>5. Registered'
    BY <2>1, <2>3, BookFacts DEF Registered, Pending, Refused
  <2> QED
    BY <2>4, <2>5
<1> QED
  BY <1>1, <1>2, BookUpdate, BookUpdateRaise DEF SubsStep

(* The events tell one thing of an order.                                  *)
LEMMA BelievedOnce ==
  ASSUME Len(stream) \in Nat, NEW s, NEW a, NEW b,
         Believed(s, Len(stream), a), Believed(s, Len(stream), b)
  PROVE  a = b
<1>1. \A i, j \in 1..Len(stream) : i = j \/ i > j \/ j > i
  OBVIOUS
<1> QED
  BY <1>1 DEF Believed

LEMMA BookVenue ==
  ASSUME KeyInv, FillInv, OrderlyInv, Typed, BookInv, Trading,
         VenueReplies \/ \E s \in DOMAIN orders : VenueWorks(s)
  PROVE  Registered' /\ Follows'
<1> USE EMSXAssumption
<1>1. /\ UNCHANGED <<seqToClient, pc, intent, accepted, working, registered, raises, cursor>>
      /\ Dispatched' = Dispatched
  BY DEF VenueReplies, VenueAccepts, VenueRefuses, VenueWorks, runnerVars, feed, books, locals,
         subs, adapter, Dispatched
<1>2. /\ Registered /\ Follows /\ Orderly
      /\ Dispatched \in Nat /\ Dispatched <= Len(stream) /\ Len(stream) \in Nat
      /\ request # NoKey => request = intent /\ pc["bus"] = "await" /\ response = -1
  BY BookFacts DEF Registered
<1>3. CASE VenueAccepts
  <2> DEFINE o == [key |-> request, leaves |-> request.qty, filled |-> 0, working |-> FALSE]
             n == Len(orders) + 1
  <2>1. /\ request = intent /\ intent # NoKey /\ request' = NoKey /\ orders' = Append(orders, o)
        /\ stream' = stream /\ response' = n /\ pc["bus"] = "await"
        /\ intent.qty \in Nat
    BY <1>2, <1>3, BookFacts DEF VenueAccepts
  <2>2. o.key = intent /\ o.leaves = intent.qty
    BY <2>1
  <2> HIDE DEF o
  <2>3. /\ DOMAIN orders' = DOMAIN orders \cup {n}
        /\ \A s \in DOMAIN orders : orders'[s] = orders[s]
        /\ orders'[n] = o /\ n \notin DOMAIN orders /\ n \notin {-1, 0}
    <3>1. /\ DOMAIN orders' = DOMAIN orders \cup {Len(orders) + 1}
          /\ \A s \in DOMAIN orders : orders'[s] = orders[s]
          /\ orders'[Len(orders) + 1] = o
          /\ Len(orders) \in Nat /\ DOMAIN orders = 1..Len(orders)
      BY <2>1, AppendOrder DEF KeyInv, Shape
    <3> QED
      BY <3>1
  <2> HIDE DEF n
  <2>4. Pending /\ ~Refused /\ ~Pending' /\ ~Refused'
    BY <1>1, <1>2, <2>1, <2>3 DEF Pending, Refused
  <2>5. Shown(working, intent, intent.qty) /\ intent \in registered
    BY <1>2, <2>4 DEF Registered
  <2>6. Registered'
    <3>1. \A s \in DOMAIN orders' : orders'[s].key \in registered'
      BY <1>1, <1>2, <2>2, <2>3, <2>5 DEF Registered
    <3>2. \A k \in DOMAIN working' : (\E s \in DOMAIN orders' : orders'[s].key = k) \/ raises # 0
      <4> SUFFICES ASSUME NEW k \in DOMAIN working
                   PROVE  (\E s \in DOMAIN orders' : orders'[s].key = k) \/ raises # 0
        BY <1>1
      <4>1. (\E s \in DOMAIN orders : orders[s].key = k) \/ k = intent \/ raises # 0
        BY <1>2 DEF Registered
      <4> QED
        BY <2>2, <2>3, <4>1
    <3> QED
      BY <1>1, <2>1, <2>3, <2>4, <3>1, <3>2 DEF Registered
  <2>7. \A i \in 1..Len(stream) : stream[i].seq \in DOMAIN orders
    BY DEF FillInv, StreamShape
  <2>8. ASSUME NEW m \in Nat, m <= Len(stream)
        PROVE  /\ \A s \in DOMAIN orders : \A leaves :
                    Believed(s, m, leaves) =>
                      \/ \E i \in 1..m : /\ stream'[i].seq = s /\ stream'[i].leaves = leaves
                                         /\ \A j \in 1..m : j > i => stream'[j].seq # s
                      \/ leaves = orders'[s].key.qty /\ \A i \in 1..m : stream'[i].seq # s
               /\ \A i \in 1..m : stream'[i].seq # n
    <3>1. 1..m \subseteq 1..Len(stream)
      BY <1>2, <2>8
    <3> QED
      BY <2>1, <2>3, <2>7, <3>1 DEF Believed
  <2>9. \A s \in DOMAIN orders' : Believed(s, Len(stream), orders[s].leaves)'
    <3>1. ASSUME NEW s \in DOMAIN orders
          PROVE  Believed(s, Len(stream), orders[s].leaves)'
      <4>1. Believed(s, Len(stream), orders[s].leaves) /\ orders'[s] = orders[s]
        BY <1>2, <2>3 DEF Follows
      <4> QED
        BY <2>1, <4>1 DEF Believed
    <3>2. \A s \in {n} : Believed(s, Len(stream), orders[s].leaves)'
      BY <1>2, <2>1, <2>2, <2>3, <2>8 DEF Believed
    <3> QED
      BY <2>3, <3>1, <3>2
  <2>10. \A s \in DOMAIN orders' : \E leaves \in Nat :
           /\ Believed(s, Dispatched, leaves)'
           /\ Covered(working', orders'[s].key, leaves)
           /\ raises' = 0 => Shown(working', orders'[s].key, leaves)
    <3>1. ASSUME NEW s \in DOMAIN orders
          PROVE  \E leaves \in Nat : /\ Believed(s, Dispatched, leaves)'
                                     /\ Covered(working', orders'[s].key, leaves)
                                     /\ raises' = 0 => Shown(working', orders'[s].key, leaves)
      <4>1. PICK leaves \in Nat : /\ Believed(s, Dispatched, leaves)
                                  /\ Covered(working, orders[s].key, leaves)
                                  /\ raises = 0 => Shown(working, orders[s].key, leaves)
        BY <1>2 DEF Follows
      <4>2. Believed(s, Dispatched, leaves)'
        <5>1. \/ \E i \in 1..Dispatched : /\ stream'[i].seq = s /\ stream'[i].leaves = leaves
                                         /\ \A j \in 1..Dispatched : j > i => stream'[j].seq # s
              \/ leaves = orders'[s].key.qty /\ \A i \in 1..Dispatched : stream'[i].seq # s
          BY <1>2, <2>8, <4>1
        <5> QED
          BY <1>1, <5>1 DEF Believed
      <4> QED
        BY <1>1, <2>3, <4>1, <4>2
    <3>2. ASSUME NEW s \in {n}
          PROVE  /\ Believed(s, Dispatched, intent.qty)'
                 /\ Shown(working', orders'[s].key, intent.qty)
      <4>1. orders'[s].key = intent /\ intent' = intent
        BY <1>1, <2>2, <2>3
      <4>2. \A i \in 1..Dispatched : stream'[i].seq # s
        BY <1>2, <2>8
      <4> QED
        BY <1>1, <2>5, <4>1, <4>2 DEF Believed
    <3>3. \A s \in {n} : \E leaves \in Nat :
            /\ Believed(s, Dispatched, leaves)'
            /\ Covered(working', orders'[s].key, leaves)
            /\ raises' = 0 => Shown(working', orders'[s].key, leaves)
      <4> SUFFICES ASSUME NEW s \in {n}
                   PROVE  \E leaves \in Nat :
                            /\ Believed(s, Dispatched, leaves)'
                            /\ Covered(working', orders'[s].key, leaves)
                            /\ raises' = 0 => Shown(working', orders'[s].key, leaves)
        OBVIOUS
      <4>1. PICK q \in Nat : q = intent.qty
        BY <2>1
      <4>2. Believed(s, Dispatched, q)' /\ Shown(working', orders'[s].key, q)
        BY <1>1, <3>2, <4>1 DEF Believed
      <4>3. Covered(working', orders'[s].key, q)
        BY <4>2 DEF Shown, Covered
      <4> QED
        BY <4>2, <4>3
    <3> QED
      BY <2>3, <3>1, <3>3
  <2>12. Descends'
    <3>1. ASSUME NEW i \in 1..Len(stream), NEW b \in Nat, Believed(stream[i].seq, i - 1, b)'
          PROVE  stream[i].leaves <= b
      <4>1. stream[i].seq \in DOMAIN orders /\ orders'[stream[i].seq] = orders[stream[i].seq]
        BY <2>3, <2>7
      <4>2. Believed(stream[i].seq, i - 1, b)
        BY <2>1, <3>1, <4>1 DEF Believed
      <4> QED
        BY <1>2, <4>2 DEF Follows, Descends
    <3> QED
      BY <2>1, <3>1 DEF Descends
  <2>11. Follows'
    BY <1>1, <1>2, <2>1, <2>9, <2>10, <2>12 DEF Follows
  <2> QED
    BY <2>6, <2>11
<1>4. CASE VenueRefuses
  <2>1. /\ UNCHANGED <<orders, stream>> /\ request = intent /\ intent # NoKey /\ request' = NoKey
        /\ response' = 0 /\ response = -1 /\ pc["bus"] = "await"
    BY <1>2, <1>4, BookFacts DEF VenueRefuses
  <2>2. Follows'
    BY <1>1, <1>2, <2>1, FollowsFrame
  <2>3. Pending /\ ~Refused /\ ~Pending' /\ Refused'
    BY <1>1, <2>1 DEF Pending, Refused
  <2>4. \A s \in DOMAIN orders : orders[s].key # intent
    BY <2>3, BookFacts
  <2>5. Registered'
    BY <1>1, <1>2, <2>1, <2>3, <2>4 DEF Registered
  <2> QED
    BY <2>2, <2>5
<1>5. ASSUME NEW s \in DOMAIN orders, VenueWorks(s)
      PROVE  Registered' /\ Follows'
  <2>1. UNCHANGED <<request, response>> /\ s \in DOMAIN seqToClient
    BY <1>5 DEF VenueWorks, Trading
  <2>2. /\ OrderTyped(orders'[s]) /\ orders'[s].key = orders[s].key
        /\ \A t \in DOMAIN orders : t # s => orders'[t] = orders[t]
        /\ DOMAIN orders' = DOMAIN orders
    BY <1>5, Works DEF Typed
  <2>3. PICK status, fill : /\ Publish(s, status, orders'[s].leaves, fill)
                            /\ orders'[s].leaves <= orders[s].leaves
    <3>1. PICK status, fill : /\ Publish(s, status, orders'[s].leaves, fill)
                              /\ fill \in Nat /\ orders'[s].leaves + fill <= orders[s].leaves
      BY <1>5, Works DEF Typed
    <3>2. orders'[s].leaves \in Nat /\ orders[s].leaves \in Nat
      BY <2>2 DEF OrderTyped, Typed, VenueTyped
    <3> QED
      BY <3>1, <3>2
  <2>4. /\ Len(stream') \in Nat /\ Len(stream) < Len(stream')
        /\ \A i \in 1..Len(stream) : stream'[i] = stream[i]
        /\ \A i \in 1..Len(stream') : i > Len(stream) =>
             stream'[i].seq = s /\ stream'[i].leaves = orders'[s].leaves
    BY <2>2, <2>3, PublishGrows DEF FillInv, StreamGrows
  <2>5. \A t \in DOMAIN orders : orders'[t].key = orders[t].key
    BY <2>2
  <2>6. Registered'
    <3>1. (Pending' <=> Pending) /\ (Refused' <=> Refused)
      BY <1>1, <2>1 DEF Pending, Refused
    <3> QED
      BY <1>1, <1>2, <2>1, <2>2, <2>5, <3>1 DEF Registered
  <2>7. \A i \in 1..Len(stream') : stream'[i].seq \in DOMAIN seqToClient'
    BY <1>1, <1>2, <2>1, <2>4 DEF Follows
  <2>8. ASSUME NEW t \in DOMAIN orders
        PROVE  Believed(t, Len(stream), orders[t].leaves)'
    <3>1. CASE t = s
      BY <1>2, <2>4, <3>1 DEF Believed
    <3>2. CASE t # s
      <4>1. Believed(t, Len(stream), orders[t].leaves) /\ orders'[t] = orders[t]
        BY <1>2, <2>2, <3>2 DEF Follows
      <4>2. \A i \in 1..Len(stream') :
              \/ i \in 1..Len(stream) /\ stream'[i] = stream[i]
              \/ stream'[i].seq # t
        BY <1>2, <2>4, <3>2
      <4>3. 1..Len(stream) \subseteq 1..Len(stream')
        BY <1>2, <2>4
      <4>4. CASE \E i \in 1..Len(stream) :
                   /\ stream[i].seq = t /\ stream[i].leaves = orders[t].leaves
                   /\ \A j \in 1..Len(stream) : j > i => stream[j].seq # t
        <5>1. PICK i \in 1..Len(stream) :
                /\ stream[i].seq = t /\ stream[i].leaves = orders[t].leaves
                /\ \A j \in 1..Len(stream) : j > i => stream[j].seq # t
          BY <4>4
        <5>2. i \in 1..Len(stream') /\ stream'[i] = stream[i]
          BY <2>4, <4>3, <5>1
        <5>3. \A j \in 1..Len(stream') : j > i => stream'[j].seq # t
          BY <4>2, <5>1
        <5> QED
          BY <4>1, <5>1, <5>2, <5>3 DEF Believed
      <4>5. CASE /\ orders[t].leaves = orders[t].key.qty
                 /\ \A i \in 1..Len(stream) : stream[i].seq # t
        <5>1. \A i \in 1..Len(stream') : stream'[i].seq # t
          BY <4>2, <4>5
        <5> QED
          BY <4>1, <4>5, <5>1 DEF Believed
      <4> QED
        BY <4>1, <4>4, <4>5 DEF Believed
    <3> QED
      BY <3>1, <3>2
  <2>9. ASSUME NEW t \in DOMAIN orders
        PROVE  \E leaves \in Nat : /\ Believed(t, Dispatched, leaves)'
                                   /\ Covered(working', orders'[t].key, leaves)
                                   /\ raises' = 0 => Shown(working', orders'[t].key, leaves)
    <3>1. PICK leaves \in Nat : /\ Believed(t, Dispatched, leaves)
                                /\ Covered(working, orders[t].key, leaves)
                                /\ raises = 0 => Shown(working, orders[t].key, leaves)
      BY <1>2 DEF Follows
    <3>2. \A i \in 1..Dispatched : stream'[i] = stream[i]
      BY <1>2, <2>4
    <3>3. Believed(t, Dispatched, leaves)'
      BY <1>1, <2>5, <3>1, <3>2 DEF Believed
    <3> QED
      BY <1>1, <2>5, <3>1, <3>3
  <2>11. Descends'
    <3> SUFFICES ASSUME NEW i \in 1..Len(stream'), NEW b \in Nat,
                        Believed(stream[i].seq, i - 1, b)'
                 PROVE  stream'[i].leaves <= b
      BY DEF Descends
    <3>1. CASE i \in 1..Len(stream)
      <4>1. \A j \in 1..(i - 1) : stream'[j] = stream[j]
        BY <1>2, <2>4, <3>1
      <4>2. stream'[i] = stream[i] /\ stream[i].seq \in DOMAIN orders
        BY <2>4, <3>1 DEF FillInv, StreamShape
      <4>3. Believed(stream[i].seq, i - 1, b)
        BY <2>5, <4>1, <4>2 DEF Believed
      <4> QED
        BY <1>2, <3>1, <4>2, <4>3 DEF Follows, Descends
    <3>2. CASE i > Len(stream)
      <4>1. stream'[i].seq = s /\ stream'[i].leaves = orders'[s].leaves
        BY <2>4, <3>2
      <4>2. CASE \E j \in 1..(i - 1) :
                   /\ stream'[j].seq = s /\ stream'[j].leaves = b
                   /\ \A m \in 1..(i - 1) : m > j => stream'[m].seq # s
        <5>1. PICK j \in 1..(i - 1) :
                   /\ stream'[j].seq = s /\ stream'[j].leaves = b
                   /\ \A m \in 1..(i - 1) : m > j => stream'[m].seq # s
          BY <4>2
        <5>2. CASE j > Len(stream)
          <6>1. stream'[j].leaves = orders'[s].leaves
            BY <2>4, <5>1, <5>2
          <6> QED
            BY <2>2, <4>1, <5>1, <6>1 DEF OrderTyped
        <5>3. CASE j \in 1..Len(stream)
          <6>1. \A m \in 1..Len(stream) : m \in 1..(i - 1) /\ stream'[m] = stream[m]
            BY <1>2, <2>4, <3>2
          <6>2. Believed(s, Len(stream), b)
            BY <5>1, <5>3, <6>1 DEF Believed
          <6>3. b = orders[s].leaves
            BY <1>2, <6>2, BelievedOnce DEF Follows
          <6> QED
            BY <2>3, <4>1, <6>3
        <5> QED
          BY <1>2, <5>1, <5>2, <5>3
      <4>3. CASE b = orders'[s].key.qty /\ \A j \in 1..(i - 1) : stream'[j].seq # s
        <5>1. \A m \in 1..Len(stream) : m \in 1..(i - 1) /\ stream'[m] = stream[m]
          BY <1>2, <2>4, <3>2
        <5>2. Believed(s, Len(stream), b)
          BY <2>2, <4>3, <5>1 DEF Believed
        <5>3. b = orders[s].leaves
          BY <1>2, <5>2, BelievedOnce DEF Follows
        <5> QED
          BY <2>3, <4>1, <5>3
      <4> QED
        BY <4>1, <4>2, <4>3 DEF Believed
    <3> QED
      BY <1>2, <2>4, <3>1, <3>2
  <2>10. Follows'
    BY <2>2, <2>7, <2>8, <2>9, <2>11 DEF Follows
  <2> QED
    BY <2>6, <2>10
<1> QED
  BY <1>3, <1>4, <1>5 DEF VenueReplies

LEMMA BookInit == Init => BookInv
<1> SUFFICES ASSUME Init PROVE Registered /\ Follows
  BY DEF BookInv
<1>1. /\ orders = <<>> /\ stream = <<>> /\ DOMAIN orders = {} /\ Len(stream) = 0
      /\ request = NoKey /\ working = EmptyBook /\ DOMAIN EmptyBook = {}
      /\ pc["bus"] = "idle"
  BY EMSXAssumption DEF Init, RunnerInit, EmptyBook
<1>2. ~Pending /\ ~Refused
  BY <1>1 DEF Pending, Refused
<1>3. Registered
  BY <1>1, <1>2 DEF Registered
<1>4. Follows
  BY <1>1 DEF Follows, Descends
<1> QED
  BY <1>3, <1>4

(* After a crash nothing is promised; other steps change nothing of that.  *)
LEMMA TradingKept ==
  ASSUME FillInv, Next
  PROVE  /\ Trading' => Trading /\ ~CrashAndRestart
         /\ UNCHANGED <<conduct, targetOf>>
<1>1. UNCHANGED <<conduct, targetOf>> /\ (~CrashAndRestart => crashes' = crashes)
  BY DEF Next, TargetArrives, BusStep, RunnerStep, ReadWorking, Validate, ClaimAndRegister,
       Finish, OnTarget, SendRequest, HandleResponse, ReplayUpdate, ReplayFill, ReplayDone,
       Persist, ReadPosition, WritePosition, BusCallRaises, BusInsertRaises, LeaveSubmit,
       Raise, SubsStep, SubsTake, SubsUpdate, SubsFill, SubsCallRaises, SubsInsertRaises,
       LeaveMessage, VenueReplies, VenueAccepts, VenueRefuses, VenueWorks,
       CrashAndRestart, Restart, runnerVars, durable, feed, venue
<1>2. CrashAndRestart => crashes' # 0
  BY DEF CrashAndRestart, Restart, FillInv, StreamShape, FillsShape
<1> QED
  BY <1>1, <1>2 DEF Trading

LEMMA BookStep ==
  ASSUME KeyInv, FillInv, OrderlyInv, Typed, BookInv, Next
  PROVE  BookInv'
<1>1. Trading' => Trading /\ ~CrashAndRestart
  BY TradingKept
<1>2. ASSUME Trading, ~CrashAndRestart PROVE Registered' /\ Follows'
  BY <1>2, BookRunner, BookSubmit, BookBusRaise, BookSubs, BookVenue DEF Next, BusStep
<1> QED
  BY <1>1, <1>2 DEF BookInv

THEOREM BookInvariant == Spec => []BookInv
<1>1. KeyInv /\ FillInv /\ OrderlyInv /\ Typed /\ BookInv /\ [Next]_vars => BookInv'
  <2> SUFFICES ASSUME KeyInv, FillInv, OrderlyInv, Typed, BookInv, [Next]_vars PROVE BookInv'
    OBVIOUS
  <2>1. CASE UNCHANGED vars
    BY <2>1
       DEF vars, runnerVars, feed, books, durable, locals, venue, subs, adapter, buffers,
           replays, BookInv, Trading, Registered, Follows, Descends, Pending, Refused,
           Believed, Shown, Covered, Dispatched
  <2>2. CASE Next
    BY <2>2, BookStep
  <2> QED
    BY <2>1, <2>2
<1> QED
  BY <1>1, BookInit, KeyInvariant, FillInvariant, OrderlyInvariant, TypedInvariant, PTL
     DEF Spec

LEMMA SettledShows ==
  ASSUME KeyInv, FillInv, OrderlyInv, Typed, BookInv, Trading, Settled
  PROVE  /\ \A s \in DOMAIN orders :
              /\ orders[s].leaves \in Nat
              /\ Covered(working, orders[s].key, orders[s].leaves)
              /\ raises = 0 => Shown(working, orders[s].key, orders[s].leaves)
         /\ ~Pending /\ ~Refused /\ Registered
<1>1. /\ pc["bus"] = "idle" /\ pc["subs"] = "idle" /\ cursor = Len(stream)
      /\ Dispatched = Len(stream)
  BY EMSXAssumption DEF Settled, Dispatched
<1>2. ~Pending /\ ~Refused /\ Registered /\ Follows /\ Len(stream) \in Nat
  BY <1>1, BookFacts DEF Pending, Refused
<1>4. ASSUME NEW s \in DOMAIN orders
      PROVE  /\ Covered(working, orders[s].key, orders[s].leaves)
             /\ raises = 0 => Shown(working, orders[s].key, orders[s].leaves)
  <2>1. PICK leaves \in Nat : /\ Believed(s, Len(stream), leaves)
                              /\ Covered(working, orders[s].key, leaves)
                              /\ raises = 0 => Shown(working, orders[s].key, leaves)
    BY <1>1, <1>2 DEF Follows
  <2>2. Believed(s, Len(stream), orders[s].leaves)
    BY <1>2 DEF Follows
  <2>3. leaves = orders[s].leaves
    BY <1>2, <2>1, <2>2, BelievedOnce
  <2> QED
    BY <2>1, <2>3
<1> QED
  BY <1>2, <1>4 DEF Typed, VenueTyped, OrderTyped

(* Whenever everything has settled, no crash emptied the book, and the     *)
(* venue publishes nothing of an order before submit_order has handled its *)
(* response, every order the venue has open is in the working book with at *)
(* least what it has left; and with exactly that, and none besides, if no  *)
(* call raised.                                                            *)
THEOREM WorkingIsVenues == Spec => []WorkingMatchesOrderly
<1>1. KeyInv /\ FillInv /\ OrderlyInv /\ Typed /\ BookInv => WorkingMatchesOrderly
  <2> SUFFICES ASSUME KeyInv, FillInv, OrderlyInv, Typed, BookInv, Trading, Settled
               PROVE  BookCovers /\ (raises = 0 => BookIsVenues)
    BY DEF WorkingMatchesOrderly, Trading
  <2>1. /\ \A s \in DOMAIN orders :
             /\ orders[s].leaves \in Nat
             /\ Covered(working, orders[s].key, orders[s].leaves)
             /\ raises = 0 => Shown(working, orders[s].key, orders[s].leaves)
        /\ ~Pending /\ ~Refused /\ Registered
    BY SettledShows
  <2>2. \A s \in DOMAIN orders : orders[s].leaves > 0 <=> orders[s].leaves # 0
    BY <2>1
  <2>3. BookCovers
    BY <2>1, <2>2 DEF BookCovers, Open, Covered
  <2>4. ASSUME raises = 0 PROVE BookIsVenues
    <3>1. \A k \in DOMAIN working : \E s \in DOMAIN orders : orders[s].key = k
      BY <2>1, <2>4 DEF Registered
    <3> QED
      BY <2>1, <2>2, <2>4, <3>1 DEF BookIsVenues, Open, Shown
  <2> QED
    BY <2>3, <2>4
<1> QED
  BY <1>1, BookInvariant, KeyInvariant, FillInvariant, OrderlyInvariant, TypedInvariant, PTL

-----------------------------------------------------------------------------
(* The fills, counted along the stream and by order.                       *)
SignedFills  == [i \in 1..Len(stream) |-> orders[stream[i].seq].key.side * stream[i].fill]
SignedFilled == [s \in DOMAIN orders |-> orders[s].key.side * orders[s].filled]
SignedLeaves == [s \in DOMAIN orders |-> orders[s].key.side * orders[s].leaves]

(* The model's sums are those of these functions, now and next.            *)
LEMMA VenueSums ==
  VenueFilled = Sum(SignedFilled, DOMAIN orders) /\ VenueOpen = Sum(SignedLeaves, DOMAIN orders)
<1> DEFINE D == DOMAIN orders
           It(F(_), g) == [s \in SUBSET D |->
              IF s = {} THEN 0
              ELSE LET x == CHOOSE x \in s : TRUE
                   IN  F(x) + g[s \ {x}]]
           Filled(g) == It(LAMBDA x : orders[x].key.side * orders[x].filled, g)
           Left(g)   == It(LAMBDA x : orders[x].key.side * orders[x].leaves, g)
<1>1. VenueFilled = (CHOOSE g : g = Filled(g))[D] /\ VenueOpen = (CHOOSE g : g = Left(g))[D]
  BY DEF VenueFilled, VenueOpen, MapThenSumSet, MapThenFoldSet
<1>2. \A g : Filled(g) = SumIt(SignedFilled, D, g) /\ Left(g) = SumIt(SignedLeaves, D, g)
  BY DEF SumIt, SignedFilled, SignedLeaves
<1> HIDE DEF Filled, Left
<1>3. /\ (CHOOSE g : g = Filled(g)) = (CHOOSE g : IsSum(SignedFilled, D, g))
      /\ (CHOOSE g : g = Left(g)) = (CHOOSE g : IsSum(SignedLeaves, D, g))
  BY <1>2 DEF IsSum
<1> QED
  BY <1>1, <1>3, SumIs

LEMMA VenueSumsNext ==
  /\ VenueFilled' = Sum(SignedFilled', DOMAIN orders')
  /\ VenueOpen' = Sum(SignedLeaves', DOMAIN orders')
<1>1. (/\ VenueFilled = Sum(SignedFilled, DOMAIN orders)
       /\ VenueOpen = Sum(SignedLeaves, DOMAIN orders))'
  BY VenueSums, PTL
<1> QED
  BY <1>1

LEMMA VenueSumsSame ==
  ASSUME UNCHANGED orders
  PROVE  VenueFilled' = VenueFilled /\ VenueOpen' = VenueOpen
<1>1. SignedFilled' = SignedFilled /\ SignedLeaves' = SignedLeaves
  BY DEF SignedFilled, SignedLeaves
<1> QED
  BY <1>1, VenueSums, VenueSumsNext

(* The fills given up.                                                     *)
LostSum == Sum(SignedFills, lost)

LEMMA LostIs ==
  ASSUME FillInv
  PROVE  LostQty = LostSum
<1> DEFINE It(g) == [s \in SUBSET lost |->
              IF s = {} THEN 0
              ELSE LET x == CHOOSE x \in s : TRUE
                   IN  (orders[stream[x].seq].key.side * stream[x].fill) + g[s \ {x}]]
<1>1. LostQty = (CHOOSE g : g = It(g))[lost]
  BY DEF LostQty, MapThenSumSet, MapThenFoldSet
<1>2. ASSUME NEW g PROVE It(g) = SumIt(SignedFills, lost, g)
  <2>1. \A x \in lost : SignedFills[x] = orders[stream[x].seq].key.side * stream[x].fill
    BY DEF SignedFills, FillInv, FillsShape, Spilled
  <2>2. \A s \in SUBSET lost : s # {} => (CHOOSE x \in s : TRUE) \in lost
    OBVIOUS
  <2> QED
    BY <2>1, <2>2 DEF SumIt, First
<1> HIDE DEF It
<1>3. (CHOOSE g : g = It(g)) = (CHOOSE g : IsSum(SignedFills, lost, g))
  BY <1>2 DEF IsSum
<1> QED
  BY <1>1, <1>3, SumIs DEF LostSum

(* The fills of the events dispatched whole: the position book has them,   *)
(* or they were given up.                                                  *)
Applied == IF pc["subs"] \in Handling THEN cursor - 1 ELSE cursor

AccountInv ==
  Trading => /\ position + LostSum = Sum(SignedFills, 1..Applied)
             /\ VenueFilled = Sum(SignedFills, 1..Len(stream))

LEMMA FillsTyped ==
  ASSUME FillInv, Typed
  PROVE  /\ \A i \in 1..Len(stream) : SignedFills[i] \in Int
         /\ \A s \in DOMAIN orders : SignedFilled[s] \in Int /\ SignedLeaves[s] \in Int
         /\ IsFiniteSet(DOMAIN orders)
<1>1. ASSUME NEW k \in Key, NEW n \in Nat PROVE k.side * n \in Int
  BY DEF Key, Side
<1>2. \A i \in 1..Len(stream) : stream[i].seq \in DOMAIN orders /\ stream[i].fill \in Nat
  BY DEF FillInv, StreamShape, Typed, VenueTyped, EventTyped
<1>3. \A s \in DOMAIN orders :
        orders[s].key \in Key /\ orders[s].filled \in Nat /\ orders[s].leaves \in Nat
  BY DEF Typed, VenueTyped, OrderTyped
<1>4. \A i \in 1..Len(stream) : SignedFills[i] \in Int
  BY <1>1, <1>2, <1>3 DEF SignedFills
<1>5. \A s \in DOMAIN orders : SignedFilled[s] \in Int /\ SignedLeaves[s] \in Int
  BY <1>1, <1>3 DEF SignedFilled, SignedLeaves
<1>6. IsFiniteSet(DOMAIN orders)
  BY FS_Interval DEF FillInv, StreamShape
<1> QED
  BY <1>4, <1>5, <1>6

LEMMA AccountFrame ==
  ASSUME Trading, AccountInv, UNCHANGED <<orders, stream, position, lost>>, Applied' = Applied
  PROVE  AccountInv'
<1>1. SignedFills' = SignedFills /\ VenueFilled' = VenueFilled /\ LostSum' = LostSum
  <2>1. SignedFills' = SignedFills
    BY DEF SignedFills
  <2>2. VenueFilled' = VenueFilled
    BY VenueSumsSame
  <2>3. LostSum' = LostSum
    BY <2>1 DEF LostSum
  <2> QED
    BY <2>1, <2>2, <2>3
<1>2. /\ position' + LostSum' = Sum(SignedFills', 1..Applied')
      /\ VenueFilled' = Sum(SignedFills', 1..Len(stream'))
  BY <1>1 DEF AccountInv
<1> QED
  BY <1>2 DEF AccountInv

(* An event is dispatched whole: its fill is booked, or given up.          *)
LEMMA AccountDispatch ==
  ASSUME FillInv, Typed, AccountInv, Trading,
         UNCHANGED <<orders, stream, cursor>>, pc["subs"] \in Handling,
         pc'["subs"] \notin Handling, job = cursor, job \in 1..Len(stream),
         \/ position' = position + SignedFills[job] /\ lost' = lost
         \/ position' = position /\ lost' = lost /\ SignedFills[job] = 0
         \/ position' = position /\ lost' = lost \cup {job} /\ job \notin lost
  PROVE  AccountInv'
<1>1. SignedFills' = SignedFills /\ VenueFilled' = VenueFilled
  <2>1. SignedFills' = SignedFills
    BY DEF SignedFills
  <2> QED
    BY <2>1, VenueSumsSame
<1>2. /\ \A i \in 1..Len(stream) : SignedFills[i] \in Int
      /\ cursor \in Nat /\ Len(stream) \in Nat /\ cursor \in 1..Len(stream)
  BY FillsTyped DEF FillInv, StreamShape
<1>3. /\ Sum(SignedFills, 1..cursor) = Sum(SignedFills, 1..(cursor - 1)) + SignedFills[cursor]
      /\ Sum(SignedFills, 1..(cursor - 1)) \in Int
  <2>4. cursor - 1 \in Nat /\ (cursor - 1) + 1 = cursor
    BY <1>2
  <2>1. PICK n \in Nat : n + 1 = cursor
    BY <2>4
  <2>2. 1..(n + 1) \subseteq 1..Len(stream) /\ n = cursor - 1
    BY <1>2, <2>1
  <2>3. /\ Sum(SignedFills, 1..(n + 1)) = Sum(SignedFills, 1..n) + SignedFills[n + 1]
        /\ Sum(SignedFills, 1..n) \in Int
    BY <1>2, <2>2, SumUpTo
  <2> QED
    BY <2>1, <2>2, <2>3
<1>4. /\ position + LostSum = Sum(SignedFills, 1..(cursor - 1))
      /\ VenueFilled = Sum(SignedFills, 1..Len(stream))
  BY DEF AccountInv, Applied
<1>5. Applied' = cursor
  BY DEF Applied
<1>6. lost \subseteq 1..Len(stream) /\ IsFiniteSet(lost) /\ LostSum \in Int
  <2>1. lost \subseteq 1..Len(stream)
    BY DEF FillInv, FillsShape, Spilled
  <2>2. IsFiniteSet(1..Len(stream))
    BY <1>2, FS_Interval
  <2>3. IsFiniteSet(lost)
    BY <2>1, <2>2, FS_Subset
  <2> QED
    BY <1>2, <2>1, <2>2, <2>3, SumType DEF LostSum
<1>7. position \in Int
  BY DEF Typed, BooksTyped
<1>8. position' + Sum(SignedFills, lost') = Sum(SignedFills, 1..cursor)
  <2>1. SignedFills[job] \in Int
    BY <1>2
  <2>2. CASE lost' = lost
    BY <1>3, <1>4, <1>6, <1>7, <2>1, <2>2 DEF LostSum
  <2>3. CASE position' = position /\ lost' = lost \cup {job} /\ job \notin lost
    <3>1. Sum(SignedFills, lost \cup {job}) = Sum(SignedFills, lost) + SignedFills[job]
      BY <1>2, <1>6, <2>3, SumAdd
    <3> QED
      BY <1>3, <1>4, <1>6, <1>7, <2>1, <2>3, <3>1 DEF LostSum
  <2> QED
    BY <2>2, <2>3
<1> QED
  BY <1>1, <1>4, <1>5, <1>8 DEF AccountInv, LostSum

LEMMA AccountSubs ==
  ASSUME KeyInv, FillInv, OrderlyInv, Typed, BookInv, AccountInv, Trading, SubsStep
  PROVE  AccountInv'
<1> USE EMSXAssumption
<1>1. /\ UNCHANGED <<orders, stream>>
      /\ cursor \in Nat /\ cursor <= Len(stream) /\ Len(stream) \in Nat
  <2>1. UNCHANGED <<orders, stream>>
    BY DEF SubsStep, SubsTake, SubsUpdate, SubsFill, SubsCallRaises, SubsInsertRaises,
           LeaveMessage, Persist, ReadPosition, WritePosition, venue
  <2>2. cursor \in Nat /\ cursor <= Len(stream) /\ Len(stream) \in Nat
    BY BookFacts
  <2> QED
    BY <2>1, <2>2
<1>2. CASE SubsTake
  <2>1. /\ pc["subs"] = "idle" /\ cursor' = cursor + 1 /\ cursor < Len(stream)
        /\ position' = position /\ lost' = lost
    BY <1>2 DEF SubsTake, books, Goto, KeyInv, Shape
  <2>2. cursor + 1 \in 1..Len(stream)
    BY <1>1, <2>1
  <2>3. Known(stream[cursor + 1].seq)
    BY <2>2, BookFacts DEF Follows, Known
  <2>4. pc'["subs"] = "update"
    BY <1>2, <2>3 DEF SubsTake, Goto, KeyInv, Shape
  <2>5. Applied' = Applied
    BY <1>1, <2>1, <2>4 DEF Applied, Handling
  <2> QED
    BY <1>1, <2>1, <2>5, AccountFrame
<1>3. CASE Persist("subs", "idle") \/ (SubsCallRaises /\ pc["subs"] = "write")
  <2>1. /\ cursor' = cursor /\ pc["subs"] \notin Handling /\ pc'["subs"] \notin Handling
        /\ position' = position
    BY <1>3 DEF Persist, ReadPosition, WritePosition, SubsCallRaises, LeaveMessage, Handling,
                books, subs, Goto, KeyInv, Shape
  <2>2. lost' = lost
    BY <1>3 DEF Persist, SubsCallRaises, LeaveMessage
  <2>3. Applied' = Applied
    BY <2>1 DEF Applied
  <2> QED
    BY <1>1, <2>1, <2>2, <2>3, AccountFrame
<1>4. CASE \/ SubsUpdate \/ SubsFill \/ SubsInsertRaises
           \/ (SubsCallRaises /\ pc["subs"] # "write")
  <2>1. pc["subs"] \in Handling /\ cursor' = cursor
    BY <1>4 DEF SubsUpdate, SubsFill, SubsInsertRaises, SubsCallRaises, LeaveMessage, Handling
  <2>2. /\ job = cursor /\ job \in 1..Len(stream)
        /\ stream[job].seq \in DOMAIN seqToClient /\ stream[job].fill \in Nat
    BY <1>1, <2>1 DEF FillInv, FillsShape, Typed, MapRight, VenueTyped, EventTyped
  <2>3. /\ seqToClient[stream[job].seq] = orders[stream[job].seq].key
        /\ orders[stream[job].seq].key.side \in Int
    <3>1. orders[stream[job].seq].key \in Key
      BY <2>2 DEF FillInv, StreamShape, Typed, VenueTyped, OrderTyped
    <3>2. seqToClient[stream[job].seq] = orders[stream[job].seq].key
      BY <2>2 DEF Typed, MapRight
    <3> QED
      BY <3>1, <3>2 DEF Key, Side
  <2>4. SignedFills[job] = seqToClient[stream[job].seq].side * stream[job].fill
    BY <2>2, <2>3 DEF SignedFills
  <2>5. ~(stream[job].fill > 0) => SignedFills[job] = 0
    <3>1. SUFFICES ASSUME ~(stream[job].fill > 0) PROVE SignedFills[job] = 0
      OBVIOUS
    <3>2. stream[job].fill = 0
      BY <2>2, <3>1
    <3> QED
      BY <2>3, <2>4, <3>2
  <2>6. CASE SubsUpdate /\ stream[job].fill > 0
    <3>1. pc'["subs"] = "fill" /\ position' = position /\ lost' = lost
      BY <2>6 DEF SubsUpdate, Goto, KeyInv, Shape
    <3>2. Applied' = Applied
      BY <2>1, <3>1 DEF Applied, Handling
    <3> QED
      BY <1>1, <3>1, <3>2, AccountFrame
  <2>7. CASE SubsUpdate /\ ~(stream[job].fill > 0)
    <3>1. pc'["subs"] = "idle" /\ position' = position /\ lost' = lost
      BY <2>7 DEF SubsUpdate, Goto, KeyInv, Shape
    <3>2. pc'["subs"] \notin Handling
      BY <3>1 DEF Handling
    <3> QED
      BY <1>1, <2>1, <2>2, <2>5, <2>7, <3>1, <3>2, AccountDispatch
  <2>8. CASE SubsFill \/ SubsInsertRaises
    <3>1. position' = position + SignedFills[job] /\ lost' = lost
      <4>1. lost' = lost
        BY <2>8 DEF SubsFill, SubsInsertRaises, LeaveMessage
      <4> QED
        BY <2>4, <2>8, <4>1 DEF SubsFill, DispatchFill, OnFill, SubsInsertRaises, OnFillUnstored
    <3>2. pc'["subs"] \notin Handling
      BY <2>8 DEF SubsFill, SubsInsertRaises, LeaveMessage, Goto, KeyInv, Shape, Handling
    <3> QED
      BY <1>1, <2>1, <2>2, <3>1, <3>2, AccountDispatch
  <2>9. CASE SubsCallRaises /\ pc["subs"] # "write"
    <3>1. position' = position /\ lost' = lost \cup Unbooked /\ pc'["subs"] = "idle"
      BY <2>9 DEF SubsCallRaises, LeaveMessage, books, Goto, KeyInv, Shape
    <3>2. pc'["subs"] \notin Handling
      BY <3>1 DEF Handling
    <3>3. CASE stream[job].fill > 0
      <4>1. lost' = lost \cup {job}
        BY <3>1, <3>3 DEF Unbooked
      <4>2. job \notin lost
        <5>1. job \in 1..cursor
          BY <1>1, <2>2
        <5>2. HeldCopies(job) + Outcomes(job) = 1
          BY <3>3, <5>1 DEF FillInv, EveryFillSomewhere, Trading
        <5>3. /\ Occurrences(job, replayFills) \in Nat /\ Occurrences(job, dbFills) \in Nat
              /\ Occurrences(job, pendingFills[stream[job].seq]) \in Nat
          BY <5>1, HeldIs
        <5> QED
          BY <5>2, <5>3 DEF HeldCopies, Outcomes
      <4> QED
        BY <1>1, <2>1, <2>2, <3>1, <3>2, <4>1, <4>2, AccountDispatch
    <3>4. CASE ~(stream[job].fill > 0)
      <4>1. lost' = lost
        BY <3>1, <3>4 DEF Unbooked
      <4> QED
        BY <1>1, <2>1, <2>2, <2>5, <3>1, <3>2, <3>4, <4>1, AccountDispatch
    <3> QED
      BY <3>3, <3>4
  <2> QED
    BY <1>4, <2>6, <2>7, <2>8, <2>9
<1>5. \/ SubsTake \/ SubsUpdate \/ SubsFill \/ Persist("subs", "idle")
      \/ SubsCallRaises \/ SubsInsertRaises
  BY DEF SubsStep
<1>6. ASSUME SubsCallRaises PROVE AccountInv'
  <2>1. CASE pc["subs"] = "write"
    BY <1>3, <1>6, <2>1
  <2>2. CASE pc["subs"] # "write"
    BY <1>4, <1>6, <2>2
  <2> QED
    BY <2>1, <2>2
<1> QED
  BY <1>2, <1>3, <1>4, <1>5, <1>6

LEMMA AcceptSums ==
  ASSUME KeyInv, FillInv, Typed, VenueAccepts
  PROVE  /\ VenueFilled' = VenueFilled
         /\ VenueOpen' = VenueOpen + request.side * request.qty
         /\ SignedFills' = SignedFills
         /\ VenueFilled \in Int /\ VenueOpen \in Int
<1> DEFINE o == [key |-> request, leaves |-> request.qty, filled |-> 0, working |-> FALSE]
           n == Len(orders) + 1
           D == DOMAIN orders
<1>1. orders' = Append(orders, o) /\ stream' = stream /\ request \in Key
  BY DEF VenueAccepts, Typed, KeysTyped
<1>2. o.key = request /\ o.leaves = request.qty /\ o.filled = 0
  OBVIOUS
<1>3. request.side \in {1, -1} /\ request.qty \in Nat
  BY <1>1 DEF Key, Side
<1> HIDE DEF o
<1>4. /\ DOMAIN orders' = D \cup {n} /\ n \notin D
      /\ \A s \in D : orders'[s] = orders[s]
      /\ orders'[n] = o
  <2>1. /\ DOMAIN orders' = DOMAIN orders \cup {Len(orders) + 1}
        /\ \A s \in DOMAIN orders : orders'[s] = orders[s]
        /\ orders'[Len(orders) + 1] = o
        /\ Len(orders) \in Nat /\ DOMAIN orders = 1..Len(orders)
    BY <1>1, AppendOrder DEF KeyInv, Shape
  <2> QED
    BY <2>1
<1> HIDE DEF n
<1>5. /\ \A s \in D : SignedFilled[s] \in Int /\ SignedLeaves[s] \in Int
      /\ IsFiniteSet(D)
  BY FillsTyped
<1>6. /\ \A s \in D : SignedFilled'[s] = SignedFilled[s] /\ SignedLeaves'[s] = SignedLeaves[s]
      /\ SignedFilled'[n] = 0 /\ SignedLeaves'[n] = request.side * request.qty
  BY <1>2, <1>3, <1>4 DEF SignedFilled, SignedLeaves
<1>7. SignedFills' = SignedFills
  <2>1. \A i \in 1..Len(stream) : stream[i].seq \in D
    BY DEF FillInv, StreamShape
  <2> QED
    BY <1>1, <1>4, <2>1 DEF SignedFills
<1>8. request.side * request.qty \in Int
  BY <1>3
<1> HIDE DEF D
<1>9. /\ Sum(SignedFilled', D \cup {n}) = Sum(SignedFilled', D) + SignedFilled'[n]
      /\ Sum(SignedLeaves', D \cup {n}) = Sum(SignedLeaves', D) + SignedLeaves'[n]
  <2>1. \A s \in D \cup {n} : SignedFilled'[s] \in Int /\ SignedLeaves'[s] \in Int
    BY <1>5, <1>6, <1>8
  <2>2. Sum(SignedFilled', D \cup {n}) = Sum(SignedFilled', D) + SignedFilled'[n]
    BY <1>4, <1>5, <2>1, SumAdd
  <2>3. Sum(SignedLeaves', D \cup {n}) = Sum(SignedLeaves', D) + SignedLeaves'[n]
    BY <1>4, <1>5, <2>1, SumAdd
  <2> QED
    BY <2>2, <2>3
<1>10. Sum(SignedFilled', D) = Sum(SignedFilled, D) /\ Sum(SignedLeaves', D) = Sum(SignedLeaves, D)
  BY <1>5, <1>6, SumAgrees
<1>11. Sum(SignedFilled, D) \in Int /\ Sum(SignedLeaves, D) \in Int
  BY <1>5, SumType
<1>12. /\ VenueFilled = Sum(SignedFilled, D) /\ VenueOpen = Sum(SignedLeaves, D)
       /\ VenueFilled' = Sum(SignedFilled', D \cup {n}) /\ VenueOpen' = Sum(SignedLeaves', D \cup {n})
  BY <1>4, VenueSums, VenueSumsNext DEF D
<1> QED
  BY <1>6, <1>7, <1>9, <1>10, <1>11, <1>12

LEMMA WorksSums ==
  ASSUME KeyInv, FillInv, Typed, NEW s \in DOMAIN orders, VenueWorks(s)
  PROVE  \E fill \in Nat :
           /\ VenueFilled' = VenueFilled + orders[s].key.side * fill
           /\ VenueOpen' = VenueOpen + orders[s].key.side * (orders'[s].leaves - orders[s].leaves)
           /\ orders'[s].leaves + fill <= orders[s].leaves
           /\ orders'[s].leaves \in Nat /\ orders[s].leaves \in Nat
           /\ VenueFilled \in Int /\ VenueOpen \in Int
           /\ FillPublished(fill) /\ StreamGrows
           /\ \A i \in 1..Len(stream') : i > Len(stream) => stream'[i].seq = s
<1> DEFINE D == DOMAIN orders
           side == orders[s].key.side
<1>1. /\ OrderTyped(orders'[s]) /\ orders'[s].key = orders[s].key
      /\ \A t \in D : t # s => orders'[t] = orders[t]
      /\ DOMAIN orders' = D
  BY Works DEF Typed
<1>2. PICK status, fill :
        /\ Publish(s, status, orders'[s].leaves, fill)
        /\ fill \in Nat
        /\ orders'[s].filled = orders[s].filled + fill
        /\ orders'[s].leaves + fill <= orders[s].leaves
  BY Works DEF Typed
<1>3. /\ FillPublished(fill) /\ StreamGrows
      /\ \A i \in 1..Len(stream') : i > Len(stream) => stream'[i].seq = s
  BY <1>1, <1>2, PublishGrows DEF FillInv
<1>4. /\ side \in {1, -1} /\ orders[s].filled \in Nat /\ orders[s].leaves \in Nat
      /\ orders'[s].filled \in Nat /\ orders'[s].leaves \in Nat
  BY <1>1 DEF Typed, VenueTyped, OrderTyped, Key, Side
<1>5. /\ \A t \in D : SignedFilled[t] \in Int /\ SignedLeaves[t] \in Int
      /\ IsFiniteSet(D)
  BY FillsTyped
<1>6. /\ \A t \in D \ {s} : SignedFilled'[t] = SignedFilled[t] /\ SignedLeaves'[t] = SignedLeaves[t]
      /\ SignedFilled[s] = side * orders[s].filled /\ SignedFilled'[s] = side * orders'[s].filled
      /\ SignedLeaves[s] = side * orders[s].leaves /\ SignedLeaves'[s] = side * orders'[s].leaves
  BY <1>1 DEF SignedFilled, SignedLeaves
<1> HIDE DEF side
<1>7. /\ SignedFilled'[s] \in Int /\ SignedLeaves'[s] \in Int
      /\ SignedFilled'[s] - SignedFilled[s] = side * fill
      /\ SignedLeaves'[s] - SignedLeaves[s] = side * (orders'[s].leaves - orders[s].leaves)
  BY <1>2, <1>4, <1>6
<1>8. \A t \in D : SignedFilled'[t] \in Int /\ SignedLeaves'[t] \in Int
  BY <1>5, <1>6, <1>7
<1> HIDE DEF D
<1>9. s \in D
  BY DEF D
<1>10. /\ Sum(SignedFilled', D) = Sum(SignedFilled, D) + SignedFilled'[s] - SignedFilled[s]
       /\ Sum(SignedFilled, D) \in Int
  BY <1>5, <1>6, <1>8, <1>9, SumChange
<1>11. /\ Sum(SignedLeaves', D) = Sum(SignedLeaves, D) + SignedLeaves'[s] - SignedLeaves[s]
       /\ Sum(SignedLeaves, D) \in Int
  BY <1>5, <1>6, <1>8, <1>9, SumChange
<1>12. /\ VenueFilled = Sum(SignedFilled, D) /\ VenueOpen = Sum(SignedLeaves, D)
       /\ VenueFilled' = Sum(SignedFilled', D) /\ VenueOpen' = Sum(SignedLeaves', D)
  BY <1>1, VenueSums, VenueSumsNext DEF D
<1>13. SignedFilled[s] \in Int /\ SignedLeaves[s] \in Int
  BY <1>5, <1>9
<1>14. VenueFilled' = VenueFilled + side * fill
  BY <1>7, <1>10, <1>12, <1>13
<1>15. VenueOpen' = VenueOpen + side * (orders'[s].leaves - orders[s].leaves)
  BY <1>7, <1>11, <1>12, <1>13
<1>16. VenueFilled \in Int /\ VenueOpen \in Int
  BY <1>10, <1>11, <1>12
<1> QED
  BY <1>2, <1>3, <1>4, <1>14, <1>15, <1>16 DEF side

LEMMA AccountVenue ==
  ASSUME KeyInv, FillInv, OrderlyInv, Typed, BookInv, AccountInv, Trading,
         VenueReplies \/ \E s \in DOMAIN orders : VenueWorks(s)
  PROVE  AccountInv'
<1> USE EMSXAssumption
<1>1. position' = position /\ Applied' = Applied /\ lost' = lost
  BY DEF VenueReplies, VenueAccepts, VenueRefuses, VenueWorks, runnerVars, books, subs, Applied
<1>2. /\ cursor \in Nat /\ cursor <= Len(stream) /\ Len(stream) \in Nat
      /\ position + LostSum = Sum(SignedFills, 1..Applied)
      /\ VenueFilled = Sum(SignedFills, 1..Len(stream))
      /\ lost \subseteq 1..Len(stream)
  <2>1. /\ position + LostSum = Sum(SignedFills, 1..Applied)
        /\ VenueFilled = Sum(SignedFills, 1..Len(stream))
    BY DEF AccountInv
  <2>2. lost \subseteq 1..Len(stream)
    BY DEF FillInv, FillsShape, Spilled
  <2> QED
    BY <2>1, <2>2, BookFacts
<1>3. Applied \in Nat /\ Applied <= Len(stream)
  <2>1. pc["subs"] \in Handling => cursor # 0
    BY <1>2 DEF FillInv, FillsShape
  <2> QED
    BY <1>2, <2>1 DEF Applied
<1>4. CASE VenueAccepts
  <2>1. stream' = stream /\ SignedFills' = SignedFills /\ VenueFilled' = VenueFilled
    BY <1>4, AcceptSums DEF VenueAccepts
  <2> QED
    BY <1>1, <1>2, <2>1 DEF AccountInv, LostSum
<1>5. CASE VenueRefuses
  <2>1. UNCHANGED <<orders, stream>>
    BY <1>5 DEF VenueRefuses
  <2> QED
    BY <1>1, <2>1, AccountFrame
<1>6. ASSUME NEW s \in DOMAIN orders, VenueWorks(s)
      PROVE  AccountInv'
  <2> DEFINE side == orders[s].key.side
             n == Len(stream)
             h == SignedFills'
  <2>1. PICK fill \in Nat :
          /\ VenueFilled' = VenueFilled + side * fill
          /\ VenueFilled \in Int
          /\ FillPublished(fill) /\ StreamGrows
          /\ \A i \in 1..Len(stream') : i > Len(stream) => stream'[i].seq = s
    BY <1>6, WorksSums
  <2>2. /\ DOMAIN orders' = DOMAIN orders
        /\ \A t \in DOMAIN orders : orders'[t].key = orders[t].key
    BY <1>6, KeptKeys
  <2>3. /\ Len(stream') \in Nat /\ n <= Len(stream')
        /\ \A i \in 1..n : stream'[i] = stream[i] /\ stream[i].seq \in DOMAIN orders
    BY <2>1 DEF StreamGrows, FillInv, StreamShape
  <2>4. \A i \in 1..n : h[i] = SignedFills[i]
    BY <1>2, <2>2, <2>3 DEF SignedFills
  <2>5. \A i \in 1..Len(stream') : i > n => h[i] = side * stream'[i].fill
    BY <2>1, <2>2 DEF SignedFills
  <2>6. \A i \in 1..n : SignedFills[i] \in Int
    BY FillsTyped
  <2>7. side \in {1, -1}
    BY DEF Typed, VenueTyped, OrderTyped, Key, Side
  <2> HIDE DEF h, side
  <2>8. side * fill \in Int /\ side * 0 = 0
    BY <2>7
  <2>9. /\ Sum(h, 1..n) = Sum(SignedFills, 1..n)
        /\ Sum(h, 1..Applied) = Sum(SignedFills, 1..Applied)
        /\ Sum(h, lost) = Sum(SignedFills, lost)
    <3> DEFINE R == 1..n
    <3>4. Len(stream) \in Nat
      BY <1>2
    <3>5. IsFiniteSet(R)
      BY <3>4, FS_Interval
    <3>1. IsFiniteSet(R) /\ 1..Applied \subseteq R /\ \A i \in R : h[i] = SignedFills[i]
      BY <1>3, <2>4, <3>4, <3>5
    <3> HIDE DEF R
    <3>2. \A T \in SUBSET R : Sum(h, T) = Sum(SignedFills, T)
      BY <3>1, SumAgrees
    <3>3. 1..Applied \in SUBSET R /\ R \in SUBSET R /\ lost \in SUBSET R
      BY <1>2, <3>1 DEF R
    <3> QED
      BY <3>2, <3>3 DEF R
  <2>10. Sum(h, 1..Len(stream')) = Sum(h, 1..n) + side * fill
    <3>1. CASE Len(stream') = n + 1 /\ stream'[n + 1].fill = fill
      <4>1. h[n + 1] = side * fill
        BY <1>2, <2>5, <3>1
      <4>2. \A i \in 1..(n + 1) : h[i] \in Int
        BY <1>2, <2>4, <2>6, <2>8, <4>1
      <4> HIDE DEF n
      <4>3. n \in Nat
        BY <1>2 DEF n
      <4> QED
        BY <3>1, <4>1, <4>2, <4>3, SumUpTo
    <3>2. ASSUME NEW a \in {0, fill}, NEW b \in {0, fill}, a + b = fill, Len(stream') = n + 2,
                 stream'[n + 1].fill = a, stream'[n + 2].fill = b
          PROVE  Sum(h, 1..Len(stream')) = Sum(h, 1..n) + side * fill
      <4>1. h[n + 1] = side * a /\ h[n + 2] = side * b
        BY <1>2, <2>5, <3>2
      <4>2. side * a \in Int /\ side * b \in Int /\ side * a + side * b = side * fill
        BY <2>7, <3>2
      <4>3. \A i \in 1..(n + 2) : h[i] \in Int
        BY <1>2, <2>4, <2>6, <4>1, <4>2
      <4> HIDE DEF n
      <4>4. n \in Nat
        BY <1>2 DEF n
      <4> DEFINE m == n + 1
      <4>5. m \in Nat /\ m + 1 = n + 2 /\ 1..m \subseteq 1..(n + 2)
        BY <4>4
      <4>6. Sum(h, 1..m) = Sum(h, 1..n) + h[m] /\ Sum(h, 1..n) \in Int
        BY <4>3, <4>4, <4>5, SumUpTo
      <4> HIDE DEF m
      <4>7. Sum(h, 1..(m + 1)) = Sum(h, 1..m) + h[m + 1]
        BY <4>3, <4>5, SumUpTo
      <4>8. h[m] = side * a /\ h[m + 1] = side * b
        BY <4>1, <4>5 DEF m
      <4> QED
        BY <3>2, <4>2, <4>5, <4>6, <4>7, <4>8
    <3>3. fill + 0 = fill /\ 0 + fill = fill
      OBVIOUS
    <3> QED
      BY <2>1, <3>1, <3>2, <3>3 DEF FillPublished
  <2>11. VenueFilled' = Sum(h, 1..Len(stream')) /\ position' + Sum(h, lost') = Sum(h, 1..Applied')
    BY <1>1, <1>2, <2>1, <2>9, <2>10 DEF LostSum
  <2> QED
    BY <2>11 DEF AccountInv, LostSum, h
<1> QED
  BY <1>4, <1>5, <1>6 DEF VenueReplies

LEMMA AccountBus ==
  ASSUME KeyInv, FillInv, OrderlyInv, Typed, BookInv, AccountInv, Trading,
         TargetArrives \/ BusStep
  PROVE  AccountInv'
<1> USE EMSXAssumption
<1>1. Orderly
  BY BookFacts
<1>2. CASE ReplayUpdate \/ ReplayFill \/ Persist("bus", "replay") \/ BusInsertRaises
  BY <1>1, <1>2
     DEF Orderly, ReplayUpdate, ReplayFill, Persist, ReadPosition, WritePosition, BusInsertRaises
<1>3. CASE BusCallRaises
  <2>1. UNCHANGED <<orders, stream, position, cursor>> /\ pc'["subs"] = pc["subs"]
    BY <1>3 DEF BusCallRaises, LeaveSubmit, books, venue, subs, Goto, KeyInv, Shape
  <2>2. lost' = lost
    BY <1>1, <1>3 DEF BusCallRaises, LeaveSubmit, Replayed, Orderly
  <2>3. Applied' = Applied
    BY <2>1 DEF Applied
  <2> QED
    BY <2>1, <2>2, <2>3, AccountFrame
<1>4. CASE TargetArrives \/ RunnerStep \/ SendRequest \/ HandleResponse \/ ReplayDone
  <2>1. UNCHANGED <<orders, stream, position, cursor, lost>> /\ pc'["subs"] = pc["subs"]
    BY <1>4 DEF TargetArrives, OnTarget, RunnerStep, ReadWorking, Validate, ClaimAndRegister,
       Finish, SendRequest, HandleResponse, ReplayDone, books, venue, subs, Goto, KeyInv, Shape
  <2>2. Applied' = Applied
    BY <2>1 DEF Applied
  <2> QED
    BY <2>1, <2>2, AccountFrame
<1> QED
  BY <1>2, <1>3, <1>4 DEF BusStep

LEMMA AccountInit == Init => AccountInv
<1> SUFFICES ASSUME Init PROVE AccountInv
  OBVIOUS
<1>1. /\ DOMAIN orders = {} /\ Len(stream) = 0 /\ cursor = 0 /\ position = 0
      /\ pc["subs"] = "idle" /\ lost = {}
  BY EMSXAssumption DEF Init, RunnerInit
<1>2. Applied = 0 /\ 1..0 = {}
  BY <1>1 DEF Applied, Handling
<1>3. Sum(SignedFills, {}) = 0 /\ Sum(SignedFilled, {}) = 0
  BY FS_EmptySet, SumFirst
<1>4. VenueFilled = 0
  BY <1>1, <1>3, VenueSums
<1> QED
  BY <1>1, <1>2, <1>3, <1>4 DEF AccountInv, LostSum

THEOREM AccountInvariant == Spec => []AccountInv
<1>1. KeyInv /\ FillInv /\ OrderlyInv /\ Typed /\ BookInv /\ AccountInv /\ [Next]_vars
        => AccountInv'
  <2> SUFFICES ASSUME KeyInv, FillInv, OrderlyInv, Typed, BookInv, AccountInv, [Next]_vars
               PROVE AccountInv'
    OBVIOUS
  <2>1. CASE UNCHANGED vars
    <3>1. UNCHANGED <<orders, stream, position, cursor, pc, crashes, conduct, lost>>
      BY <2>1 DEF vars, runnerVars, feed, books, venue, subs
    <3>2. Applied' = Applied /\ (Trading' => Trading)
      BY <3>1 DEF Applied, Trading
    <3> QED
      BY <3>1, <3>2, AccountFrame DEF AccountInv
  <2>2. CASE Next
    <3>1. Trading' => Trading /\ ~CrashAndRestart
      BY <2>2, TradingKept
    <3>2. ASSUME Trading, ~CrashAndRestart PROVE AccountInv'
      BY <2>2, <3>2, AccountBus, AccountSubs, AccountVenue DEF Next
    <3>3. ~Trading' => AccountInv'
      BY DEF AccountInv
    <3> QED
      BY <3>1, <3>2, <3>3
  <2> QED
    BY <2>1, <2>2
<1> QED
  BY <1>1, AccountInit, KeyInvariant, FillInvariant, OrderlyInvariant, TypedInvariant,
     BookInvariant, PTL DEF Spec

(* Whenever the subs thread has dispatched every event, no crash emptied   *)
(* the books and the venue is orderly, the position is what the venue has  *)
(* filled, but for the fills given up because a call raised.               *)
THEOREM PositionIsVenues == Spec => [](Trading /\ Settled => position + LostQty = VenueFilled)
<1>1. FillInv /\ AccountInv => (Trading /\ Settled => position + LostQty = VenueFilled)
  BY EMSXAssumption, LostIs DEF AccountInv, Settled, Applied, Handling
<1> QED
  BY <1>1, FillInvariant, AccountInvariant, PTL

-----------------------------------------------------------------------------
(* What is committed against the target, for a strategy that only buys.    *)
BuysOnly == \A k \in claimed : k.side = 1
Rising   == Trading /\ conduct.spaced /\ NeverFalling /\ BuysOnly

(* The purchase in hand that is not on its way yet.                        *)
ToBuy == IF pc["bus"] \in {"validate", "claim", "submit"} /\ intent.side = 1
            THEN intent.qty ELSE 0

(* What is committed stays within the last target decided on, but for the  *)
(* fills given up.                                                         *)
Budgeted == Committed + ToBuy <= targetOf[decision.bar] + LostSum

(* Between the two reads of on_target nothing happens: the target came     *)
(* when all was quiet and no order was open.                               *)
Quiet ==
  pc["bus"] = "working" =>
    /\ NothingOpen /\ cursor = Len(stream) /\ pc["subs"] = "idle" /\ request = NoKey
    /\ decision.current = position

BudgetInv ==
  /\ crashes = 0 => decision.bar <= offset
  /\ DOMAIN working \cup registered \subseteq claimed
  /\ Rising => Budgeted /\ Quiet

LEMMA BudgetTypes ==
  ASSUME KeyInv, FillInv, Typed
  PROVE  /\ VenueFilled \in Int /\ VenueOpen \in Int /\ LostSum \in Int
         /\ request.side \in {1, -1} /\ request.qty \in Nat
         /\ Committed \in Int /\ ToBuy \in Nat
         /\ decision.bar \in 1..MaxBar /\ targetOf[decision.bar] \in Int
<1>1. /\ \A s \in DOMAIN orders : SignedFilled[s] \in Int /\ SignedLeaves[s] \in Int
      /\ IsFiniteSet(DOMAIN orders)
      /\ \A i \in 1..Len(stream) : SignedFills[i] \in Int
  BY FillsTyped
<1>2. VenueFilled \in Int /\ VenueOpen \in Int
  BY <1>1, VenueSums, SumType
<1>3. LostSum \in Int
  <2>1. lost \in SUBSET (1..Len(stream)) /\ IsFiniteSet(1..Len(stream))
    BY FS_Interval DEF FillInv, StreamShape, FillsShape, Spilled
  <2> QED
    BY <1>1, <2>1, SumType DEF LostSum
<1>4. request.side \in {1, -1} /\ request.qty \in Nat
  BY DEF Typed, KeysTyped, Key, NoKey, Side
<1>5. Committed \in Int
  <2>1. request.side * request.qty \in Int
    BY <1>4
  <2> QED
    BY <1>2, <2>1 DEF Committed
<1>6. ToBuy \in Nat
  <2>1. pc["bus"] \in {"validate", "claim", "submit"} => intent \in Key
    BY DEF Typed, KeysTyped
  <2> QED
    BY <2>1 DEF ToBuy, Key
<1>7. decision.bar \in 1..MaxBar /\ targetOf[decision.bar] \in Int
  BY DEF KeyInv, Shape, Typed, BooksTyped
<1> QED
  BY <1>2, <1>3, <1>4, <1>5, <1>6, <1>7

(* Nothing is added to what is committed, and nothing given up is booked.  *)
LEMMA BudgetFrame ==
  ASSUME KeyInv, FillInv, Typed, Budgeted,
         UNCHANGED <<orders, request, decision, targetOf>>,
         ToBuy' \in Nat, ToBuy' <= ToBuy,
         LostSum' \in Int, LostSum <= LostSum'
  PROVE  Budgeted'
<1>1. Committed' = Committed
  BY VenueSumsSame DEF Committed
<1>2. PICK h \in Nat, l \in Int : h = ToBuy' /\ l = LostSum'
  OBVIOUS
<1>3. /\ Committed + ToBuy <= targetOf[decision.bar] + LostSum
      /\ h <= ToBuy /\ LostSum <= l
  BY <1>2 DEF Budgeted
<1>4. Committed + h <= targetOf[decision.bar] + l
  <2> DEFINE t == targetOf[decision.bar]
  <2>1. Committed \in Int /\ ToBuy \in Nat /\ t \in Int /\ LostSum \in Int
    BY BudgetTypes
  <2>2. Committed + ToBuy <= t + LostSum
    BY <1>3
  <2> HIDE DEF t
  <2>3. Committed + h <= t + l
    BY <1>3, <2>1, <2>2
  <2> QED
    BY <2>3 DEF t
<1> QED
  BY <1>1, <1>2, <1>4 DEF Budgeted

(* Nothing is open: the sum of what is open is nothing.                    *)
LEMMA SumZero ==
  ASSUME NEW f, NEW S, IsFiniteSet(S), \A x \in S : f[x] = 0
  PROVE  Sum(f, S) = 0
<1> DEFINE B == {T \in SUBSET S : Sum(f, T) # 0}
<1> SUFFICES ASSUME B # {} PROVE FALSE
  OBVIOUS
<1>1. PICK T \in B : \A u \in SUBSET T : u # T => u \notin B
  <2>1. B \in SUBSET SUBSET S
    OBVIOUS
  <2> HIDE DEF B
  <2> QED
    BY <2>1, Smallest
<1>2. T \in SUBSET S /\ IsFiniteSet(T) /\ Sum(f, T) # 0
  BY FS_Subset
<1>3. T # {}
  <2>1. T = {} => Sum(f, T) = 0
    BY <1>2, SumFirst
  <2> QED
    BY <1>2, <2>1
<1> DEFINE u == T \ {First(T)}
<1>4. First(T) \in T /\ Sum(f, T) = f[First(T)] + Sum(f, u)
  BY <1>2, <1>3, SumFirst
<1>5. u \in SUBSET T /\ u # T /\ u \in SUBSET S
  BY <1>2, <1>4
<1> HIDE DEF u
<1>6. Sum(f, u) = 0 /\ f[First(T)] = 0
  BY <1>1, <1>2, <1>4, <1>5
<1> QED
  BY <1>2, <1>4, <1>6

(* A target comes when everything has settled, and is no lower than the    *)
(* one before.                                                             *)
LEMMA BudgetTarget ==
  ASSUME KeyInv, FillInv, OrderlyInv, Typed, BookInv, AccountInv, BudgetInv, Rising,
         TargetArrives
  PROVE  Budgeted' /\ Quiet'
<1> USE EMSXAssumption
<1>1. /\ UNCHANGED <<orders, stream, request, targetOf, intent, lost, cursor, position>>
      /\ Settled /\ NothingOpen /\ pc["bus"] = "idle" /\ offset <= MaxBar
      /\ decision' = [bar |-> offset, current |-> position]
      /\ pc'["bus"] = "working" /\ pc'["subs"] = pc["subs"]
  BY DEF TargetArrives, OnTarget, Rising, books, venue, subs, Goto, KeyInv, Shape
<1>2. Quiet'
  BY <1>1 DEF Quiet, Settled, NothingOpen
<1>3. Committed' = Committed /\ LostSum' = LostSum
  <2>1. SignedFills' = SignedFills
    BY <1>1 DEF SignedFills
  <2> QED
    BY <1>1, <2>1, VenueSumsSame DEF Committed, LostSum
<1>4. ToBuy = 0 /\ ToBuy' = 0
  BY <1>1 DEF ToBuy
<1>5. targetOf[decision.bar] <= targetOf[offset] /\ targetOf[offset] \in Int
  <2>1. decision.bar \in 1..MaxBar /\ decision.bar <= offset /\ offset \in 1..MaxBar
    BY <1>1 DEF BudgetInv, Rising, Trading, KeyInv, Shape
  <2> QED
    BY <2>1 DEF Rising, NeverFalling, Typed, BooksTyped
<1>6. Committed + 0 <= targetOf[decision.bar] + LostSum
  BY <1>4 DEF BudgetInv, Budgeted
<1>7. Committed + 0 <= targetOf[offset] + LostSum
  <2>1. Committed \in Int /\ LostSum \in Int /\ targetOf[decision.bar] \in Int
    BY BudgetTypes
  <2>2. PICK a \in Int, b \in Int : a = targetOf[decision.bar] /\ b = targetOf[offset]
    BY <1>5, <2>1
  <2>3. a <= b /\ Committed + 0 <= a + LostSum
    BY <1>5, <1>6, <2>2
  <2>4. Committed + 0 <= b + LostSum
    BY <2>1, <2>3
  <2> QED
    BY <2>2, <2>4
<1>8. targetOf'[decision'.bar] = targetOf[offset]
  BY <1>1
<1> QED
  BY <1>2, <1>3, <1>4, <1>7, <1>8 DEF Budgeted

(* With the position and nothing open read, a purchase fills up to the     *)
(* target what is committed, or less.                                      *)
LEMMA BudgetRead ==
  ASSUME KeyInv, FillInv, OrderlyInv, Typed, BookInv, AccountInv, BudgetInv, Rising,
         RunnerStep, ReadWorking
  PROVE  Budgeted'
<1> USE EMSXAssumption
<1>1. /\ UNCHANGED <<orders, stream, request, decision, targetOf, lost>> /\ pc["bus"] = "working"
  BY DEF RunnerStep, ReadWorking, feed, venue
<1>2. LostSum' = LostSum /\ LostSum \in Int
  <2>1. SignedFills' = SignedFills
    BY <1>1 DEF SignedFills
  <2> QED
    BY <1>1, <2>1, BudgetTypes DEF LostSum
<1>3. Budgeted /\ ToBuy = 0
  BY <1>1 DEF BudgetInv, ToBuy
<1>4. CASE ToBuy' = 0
  <2>1. ToBuy' \in Nat /\ ToBuy' <= ToBuy /\ LostSum' \in Int /\ LostSum <= LostSum'
    BY <1>2, <1>3, <1>4
  <2> QED
    BY <1>1, <1>3, <2>1, BudgetFrame
<1>5. CASE ToBuy' # 0
  <2> DEFINE d == Delta
             t == targetOf[decision.bar]
  <2>1. pc'["bus"] = "validate" /\ intent' = KeyOf /\ intent'.side = 1
    BY <1>5 DEF ReadWorking, ToBuy, Goto, KeyInv, Shape
  <2>2. d \in Int /\ d = (t - decision.current) - NetWorking /\ NetWorking \in Int
    BY KeyTyped DEF Typed
  <2>3. d > 0 /\ ToBuy' = d
    <3>1. KeyOf.side = (IF d > 0 THEN 1 ELSE -1) /\ KeyOf.qty = Abs(d)
      BY DEF KeyOf
    <3> HIDE DEF d
    <3>2. d > 0
      BY <2>1, <3>1
    <3>3. Abs(d) = d
      BY <2>2, <3>2 DEF Abs, d
    <3> QED
      BY <2>1, <3>1, <3>2, <3>3 DEF ToBuy
  <2>4. NetWorking \in Nat
    <3>1. ASSUME NEW k \in DOMAIN working PROVE k.side * working[k] \in Nat
      <4>1. k.side = 1 /\ working[k] \in Nat
        BY DEF BudgetInv, Rising, BuysOnly, Typed, BooksTyped, BookTyped
      <4> QED
        BY <4>1
    <3>2. \A k \in DOMAIN working : Signed(working)[k] \in Nat
      BY <3>1 DEF Signed
    <3>3. DOMAIN working \in SUBSET DOMAIN working /\ IsFiniteSet(DOMAIN working)
      BY DEF Typed, BooksTyped, BookTyped
    <3> QED
      BY <3>2, <3>3, SumNat, NetWorkingIsSum
  <2>5. /\ NothingOpen /\ cursor = Len(stream) /\ pc["subs"] = "idle" /\ request = NoKey
        /\ decision.current = position
    BY <1>1 DEF BudgetInv, Quiet
  <2>6. VenueOpen = 0
    <3>1. ASSUME NEW s \in DOMAIN orders PROVE SignedLeaves[s] = 0
      <4>1. orders[s].leaves = 0 /\ orders[s].key.side \in Int
        BY <2>5 DEF NothingOpen, Typed, VenueTyped, OrderTyped, Key, Side
      <4> QED
        BY <4>1 DEF SignedLeaves
    <3> QED
      BY <3>1, FillsTyped, SumZero, VenueSums
  <2>7. position + LostSum = VenueFilled /\ position \in Int
    BY <2>5 DEF AccountInv, Rising, Applied, Handling, Typed, BooksTyped
  <2>8. Committed = position + LostSum
    <3>1. request.side * request.qty = 0
      BY <2>5 DEF NoKey
    <3>2. VenueFilled \in Int
      BY BudgetTypes
    <3> QED
      BY <2>6, <2>7, <3>1, <3>2 DEF Committed
  <2>9. t \in Int
    BY BudgetTypes
  <2> HIDE DEF d, t
  <2>10. (position + LostSum) + d <= t + LostSum
    BY <1>2, <2>2, <2>4, <2>5, <2>7, <2>9
  <2>11. Committed' = Committed /\ targetOf'[decision'.bar] = t
    BY <1>1, VenueSumsSame DEF Committed, t
  <2> QED
    BY <1>2, <2>3, <2>8, <2>10, <2>11 DEF Budgeted
<1> QED
  BY <1>4, <1>5

(* The rest of the bus thread: what was in hand is on its way, or in hand  *)
(* still, or given up.                                                     *)
LEMMA BudgetBus ==
  ASSUME KeyInv, FillInv, OrderlyInv, Typed, BookInv, AccountInv, BudgetInv, Rising, BuysOnly',
         BusStep
  PROVE  Budgeted' /\ Quiet'
<1> USE EMSXAssumption
<1>1. Orderly /\ Trading /\ Budgeted
  BY BookFacts DEF Rising, BudgetInv
<1>2. Quiet'
  <2>1. pc'["bus"] # "working"
    BY <1>1 DEF BusStep, RunnerStep, ReadWorking, Validate, ClaimAndRegister, Finish, SendRequest,
       HandleResponse, ReplayUpdate, ReplayFill, ReplayDone, Persist, ReadPosition,
       WritePosition, BusCallRaises, BusInsertRaises, LeaveSubmit, Goto, KeyInv, Shape
  <2> QED
    BY <2>1 DEF Quiet
<1>3. UNCHANGED <<orders, stream, decision, targetOf>>
  BY DEF BusStep, RunnerStep, ReadWorking, Validate, ClaimAndRegister, Finish, SendRequest,
     HandleResponse, ReplayUpdate, ReplayFill, ReplayDone, Persist, ReadPosition,
     WritePosition, BusCallRaises, BusInsertRaises, LeaveSubmit, Raise, feed, locals, venue
<1>4. lost' = lost
  <2>1. CASE BusCallRaises
    <3>1. lost' = lost \cup Replayed(replayFills) /\ replayFills = <<>>
      BY <1>1, <2>1 DEF BusCallRaises, LeaveSubmit, Orderly
    <3> QED
      BY <3>1 DEF Replayed
  <2>2. ~BusInsertRaises
    BY <1>1 DEF BusInsertRaises, Orderly
  <2> QED
    BY <2>1, <2>2
       DEF BusStep, RunnerStep, SendRequest, HandleResponse, ReplayUpdate, ReplayFill,
           ReplayDone, Persist
<1>5. LostSum' = LostSum /\ LostSum \in Int /\ ToBuy \in Nat
  <2>1. SignedFills' = SignedFills
    BY <1>3 DEF SignedFills
  <2> QED
    BY <1>4, <2>1, BudgetTypes DEF LostSum
<1>6. CASE SendRequest
  <2>1. /\ pc["bus"] = "submit" /\ pc'["bus"] = "await" /\ request = NoKey /\ request' = intent
        /\ intent \in claimed
    BY <1>6 DEF SendRequest, Goto, KeyInv, Shape, SentKeysClaimed
  <2>2. intent.side = 1 /\ intent.qty \in Nat
    BY <2>1 DEF Rising, BuysOnly, Typed, KeysTyped, Key
  <2>3. ToBuy = intent.qty /\ ToBuy' = 0
    BY <2>1, <2>2 DEF ToBuy
  <2>4. VenueFilled' = VenueFilled /\ VenueOpen' = VenueOpen
    BY <1>3, VenueSumsSame
  <2>5. VenueFilled \in Int /\ VenueOpen \in Int
    BY BudgetTypes
  <2>6. Committed = VenueFilled + VenueOpen /\ Committed' = (VenueFilled + VenueOpen) + intent.qty
    <3>1. request.side * request.qty = 0 /\ request'.side * request'.qty = intent.qty
      BY <2>1, <2>2 DEF NoKey
    <3> QED
      BY <2>4, <2>5, <3>1 DEF Committed
  <2>7. Committed' + ToBuy' = Committed + ToBuy
    BY <2>2, <2>3, <2>5, <2>6
  <2> QED
    BY <1>1, <1>2, <1>3, <1>5, <2>7 DEF Budgeted
<1>7. CASE RunnerStep /\ ReadWorking
  BY <1>2, <1>7, BudgetRead
<1>8. CASE BusStep /\ ~SendRequest /\ ~(RunnerStep /\ ReadWorking)
  <2>1. request' = request
    BY <1>8 DEF BusStep, RunnerStep, HandleResponse, ReplayUpdate, ReplayFill,
       ReplayDone, Persist, BusCallRaises, BusInsertRaises, LeaveSubmit, venue
  <2>2. intent' = intent
    BY <1>8 DEF BusStep, RunnerStep, Validate, ClaimAndRegister, Finish, HandleResponse,
       ReplayUpdate, ReplayFill, ReplayDone, Persist, ReadPosition, WritePosition,
       BusCallRaises, BusInsertRaises, LeaveSubmit, locals
  <2>3. \/ pc'["bus"] \notin {"validate", "claim", "submit"}
        \/ pc["bus"] \in {"validate", "claim", "submit"}
    BY <1>8 DEF BusStep, RunnerStep, Validate, ClaimAndRegister, Finish, HandleResponse,
       ReplayUpdate, ReplayFill, ReplayDone, Persist, ReadPosition, WritePosition,
       BusCallRaises, BusInsertRaises, LeaveSubmit, Goto, KeyInv, Shape
  <2>4. ToBuy' = 0 \/ ToBuy' = ToBuy
    BY <2>2, <2>3 DEF ToBuy
  <2>5. ToBuy' \in Nat /\ ToBuy' <= ToBuy /\ LostSum' \in Int /\ LostSum <= LostSum'
    BY <1>5, <2>4
  <2> QED
    BY <1>1, <1>2, <1>3, <2>1, <2>5, BudgetFrame
<1> QED
  BY <1>6, <1>7, <1>8

LEMMA BudgetSubs ==
  ASSUME KeyInv, FillInv, OrderlyInv, Typed, BookInv, AccountInv, BudgetInv, Rising, SubsStep
  PROVE  Budgeted' /\ Quiet'
<1> USE EMSXAssumption
<1>1. /\ UNCHANGED <<orders, stream, request, decision, targetOf, intent>>
      /\ pc'["bus"] = pc["bus"]
  BY DEF SubsStep, SubsTake, SubsUpdate, SubsFill, SubsCallRaises, SubsInsertRaises,
         LeaveMessage, Raise, Persist, ReadPosition, WritePosition, feed, locals, venue, Goto,
         KeyInv, Shape
<1>2. Budgeted /\ Quiet /\ Trading
  BY DEF BudgetInv, Rising
<1>3. Quiet'
  <2>1. pc["subs"] # "idle" \/ cursor < Len(stream)
    BY DEF SubsStep, SubsTake, SubsUpdate, SubsFill, SubsCallRaises, SubsInsertRaises,
           Persist, ReadPosition, WritePosition
  <2>2. pc["bus"] # "working"
    <3>1. Len(stream) \in Nat /\ cursor \in Nat
      BY <1>2, BookFacts
    <3> QED
      BY <1>2, <2>1, <3>1 DEF Quiet
  <2> QED
    BY <1>1, <2>2 DEF Quiet
<1>4. ToBuy' = ToBuy /\ ToBuy \in Nat
  BY <1>1, BudgetTypes DEF ToBuy
<1>5. lost' = lost \/ (pc["subs"] \in Handling /\ lost' = lost \cup {job})
  BY DEF SubsStep, SubsTake, SubsUpdate, SubsFill, SubsCallRaises, SubsInsertRaises,
         LeaveMessage, Unbooked, Persist, Handling
<1>6. LostSum' \in Int /\ LostSum <= LostSum'
  <2>1. SignedFills' = SignedFills /\ LostSum \in Int
    BY <1>1, BudgetTypes DEF SignedFills
  <2>2. CASE lost' = lost
    <3>1. LostSum' = LostSum
      BY <2>1, <2>2 DEF LostSum
    <3> QED
      BY <2>1, <3>1
  <2>3. CASE job \notin lost /\ pc["subs"] \in Handling /\ lost' = lost \cup {job}
    <3>1. /\ job \in 1..Len(stream) /\ lost \subseteq 1..Len(stream) /\ IsFiniteSet(lost)
      <4>1. cursor \in Nat /\ cursor <= Len(stream) /\ Len(stream) \in Nat
        BY <1>2, BookFacts
      <4>2. job \in 1..cursor /\ lost \subseteq 1..Len(stream)
        BY <2>3 DEF FillInv, FillsShape, Spilled
      <4>3. IsFiniteSet(1..Len(stream))
        BY <4>1, FS_Interval
      <4>4. IsFiniteSet(lost)
        BY <4>2, <4>3, FS_Subset
      <4> QED
        BY <4>1, <4>2, <4>4
    <3>2. SignedFills[job] \in Nat
      <4>1. /\ stream[job].seq \in DOMAIN orders /\ stream[job].fill \in Nat
            /\ orders[stream[job].seq].key.side = 1
        BY <3>1 DEF FillInv, StreamShape, Typed, VenueTyped, EventTyped, KeyInv,
                    SentKeysClaimed, Rising, BuysOnly
      <4> QED
        BY <3>1, <4>1 DEF SignedFills
    <3>3. \A i \in lost \cup {job} : SignedFills[i] \in Int
      BY <3>1, FillsTyped
    <3>4. Sum(SignedFills, lost \cup {job}) = Sum(SignedFills, lost) + SignedFills[job]
      BY <2>3, <3>1, <3>3, SumAdd
    <3>5. LostSum' = LostSum + SignedFills[job]
      BY <2>1, <2>3, <3>4 DEF LostSum
    <3> QED
      BY <2>1, <3>2, <3>5
  <2>4. job \in lost => lost \cup {job} = lost
    OBVIOUS
  <2> QED
    BY <1>5, <2>2, <2>3, <2>4
<1>7. ToBuy' \in Nat /\ ToBuy' <= ToBuy
  BY <1>4
<1> QED
  BY <1>1, <1>2, <1>3, <1>6, <1>7, BudgetFrame

(* The venue only moves what is committed, or gives it back.               *)
LEMMA BudgetVenue ==
  ASSUME KeyInv, FillInv, OrderlyInv, Typed, BookInv, BudgetInv, Rising,
         VenueReplies \/ \E s \in DOMAIN orders : VenueWorks(s)
  PROVE  Budgeted' /\ Quiet'
<1> USE EMSXAssumption
<1>1. UNCHANGED <<pc, decision, targetOf, intent, lost>>
  BY DEF VenueReplies, VenueAccepts, VenueRefuses, VenueWorks, runnerVars, feed, locals
<1>2. Budgeted /\ Quiet /\ Trading
  BY DEF BudgetInv, Rising
<1>3. Quiet'
  <2>1. request # NoKey \/ ~NothingOpen
    <3>1. ASSUME NEW s \in DOMAIN orders, VenueWorks(s) PROVE ~NothingOpen
      <4>1. orders[s].leaves > 0 /\ orders[s].leaves \in Nat
        BY <3>1 DEF VenueWorks, Typed, VenueTyped, OrderTyped
      <4> QED
        BY <4>1 DEF NothingOpen
    <3> QED
      BY <3>1 DEF VenueReplies, VenueAccepts, VenueRefuses
  <2>2. pc["bus"] # "working"
    BY <1>2, <2>1 DEF Quiet
  <2> QED
    BY <1>1, <2>2 DEF Quiet
<1>4. ToBuy' = ToBuy
  BY <1>1 DEF ToBuy
<1>5. /\ VenueFilled \in Int /\ VenueOpen \in Int /\ LostSum \in Int /\ ToBuy \in Nat
      /\ targetOf[decision.bar] \in Int /\ request.side \in {1, -1} /\ request.qty \in Nat
      /\ Committed \in Int
  BY BudgetTypes
<1>6. request # NoKey => request.side = 1
  BY DEF KeyInv, SentKeysClaimed, Rising, BuysOnly
<1>7. ASSUME LostSum' = LostSum, Committed' \in Int, Committed' <= Committed
      PROVE  Budgeted'
  <2>1. PICK c \in Int : c = Committed'
    BY <1>7
  <2> DEFINE t == targetOf[decision.bar]
  <2>2. c <= Committed /\ Committed + ToBuy <= t + LostSum /\ t \in Int
    BY <1>2, <1>5, <1>7, <2>1 DEF Budgeted
  <2>3. targetOf'[decision'.bar] = t
    BY <1>1
  <2> HIDE DEF t
  <2>4. c + ToBuy <= t + LostSum
    BY <1>5, <2>2
  <2> QED
    BY <1>4, <1>7, <2>1, <2>3, <2>4 DEF Budgeted
<1>8. CASE VenueAccepts
  <2>1. /\ VenueFilled' = VenueFilled /\ VenueOpen' = VenueOpen + request.side * request.qty
        /\ SignedFills' = SignedFills
    BY <1>8, AcceptSums
  <2>2. LostSum' = LostSum
    BY <1>1, <2>1 DEF LostSum
  <2>3. request'.side * request'.qty = 0
    BY <1>8 DEF VenueAccepts, NoKey
  <2>4. request.side * request.qty \in Int
    BY <1>5
  <2>5. Committed' = Committed
    BY <1>5, <2>1, <2>3, <2>4 DEF Committed
  <2> QED
    BY <1>3, <1>5, <1>7, <2>2, <2>5
<1>9. CASE VenueRefuses
  <2>1. UNCHANGED <<orders, stream>> /\ request # NoKey /\ request' = NoKey
    BY <1>9 DEF VenueRefuses
  <2>2. LostSum' = LostSum
    BY <1>1, <2>1 DEF LostSum, SignedFills
  <2>3. VenueFilled' = VenueFilled /\ VenueOpen' = VenueOpen
    BY <2>1, VenueSumsSame
  <2>4. request'.side * request'.qty = 0 /\ request.side * request.qty = request.qty
    BY <1>5, <1>6, <2>1 DEF NoKey
  <2>5. Committed' = VenueFilled + VenueOpen /\ Committed = (VenueFilled + VenueOpen) + request.qty
    BY <1>5, <2>3, <2>4 DEF Committed
  <2>6. Committed' \in Int /\ Committed' <= Committed
    BY <1>5, <2>5
  <2> QED
    BY <1>3, <1>7, <2>2, <2>6
<1>10. ASSUME NEW s \in DOMAIN orders, VenueWorks(s)
       PROVE  Budgeted'
  <2>1. request' = request
    BY <1>10 DEF VenueWorks
  <2>2. orders[s].key.side = 1
    BY DEF KeyInv, SentKeysClaimed, Rising, BuysOnly
  <2>3. PICK fill \in Nat :
          /\ VenueFilled' = VenueFilled + orders[s].key.side * fill
          /\ VenueOpen' = VenueOpen + orders[s].key.side * (orders'[s].leaves - orders[s].leaves)
          /\ orders'[s].leaves + fill <= orders[s].leaves
          /\ orders'[s].leaves \in Nat /\ orders[s].leaves \in Nat
          /\ FillPublished(fill) /\ StreamGrows
    BY <1>10, WorksSums
  <2>4. LostSum' = LostSum
    <3> DEFINE h == SignedFills'
    <3>1. /\ DOMAIN orders' = DOMAIN orders
          /\ \A t \in DOMAIN orders : orders'[t].key = orders[t].key
      BY <1>10, KeptKeys
    <3>2. /\ Len(stream') \in Nat /\ Len(stream) \in Nat /\ Len(stream) <= Len(stream')
          /\ \A i \in 1..Len(stream) : stream'[i] = stream[i] /\ stream[i].seq \in DOMAIN orders
      BY <2>3 DEF StreamGrows, FillInv, StreamShape
    <3>3. \A i \in 1..Len(stream) : h[i] = SignedFills[i]
      BY <3>1, <3>2 DEF SignedFills
    <3>4. lost \subseteq 1..Len(stream) /\ IsFiniteSet(1..Len(stream))
      BY <3>2, FS_Interval DEF FillInv, FillsShape, Spilled
    <3> HIDE DEF h
    <3>5. Sum(h, lost) = Sum(SignedFills, lost)
      <4> DEFINE R == 1..Len(stream)
      <4>1. IsFiniteSet(R) /\ lost \in SUBSET R /\ \A i \in R : h[i] = SignedFills[i]
        BY <3>3, <3>4
      <4> HIDE DEF R
      <4> QED
        BY <4>1, SumAgrees
    <3> QED
      BY <1>1, <3>5 DEF LostSum, h
  <2>5. PICK a \in Nat, b \in Nat : a = orders'[s].leaves /\ b = orders[s].leaves
    BY <2>3
  <2>6. VenueFilled' = VenueFilled + fill /\ VenueOpen' = VenueOpen + (a - b) /\ a + fill <= b
    BY <2>2, <2>3, <2>5
  <2> DEFINE r == request.side * request.qty
  <2>7. r \in Int /\ request'.side * request'.qty = r
    BY <1>5, <2>1
  <2>8. /\ Committed = (VenueFilled + VenueOpen) + r
        /\ Committed' = ((VenueFilled + fill) + (VenueOpen + (a - b))) + r
    BY <2>6, <2>7 DEF Committed
  <2> HIDE DEF r
  <2>9. Committed' \in Int /\ Committed' <= Committed
    BY <1>5, <2>6, <2>7, <2>8
  <2> QED
    BY <1>7, <2>4, <2>9
<1> QED
  BY <1>3, <1>8, <1>9, <1>10 DEF VenueReplies

(* What works was claimed, and what was claimed stays so.                  *)
LEMMA BudgetKeys ==
  ASSUME KeyInv, FillInv, OrderlyInv, Typed, BudgetInv, Next
  PROVE  /\ DOMAIN working' \cup registered' \subseteq claimed'
         /\ claimed \subseteq claimed'
         /\ crashes' = 0 => decision'.bar <= offset'
<1> USE EMSXAssumption
<1>1. claimed' = claimed \/ ClaimAndRegister
  BY DEF Next, TargetArrives, OnTarget, BusStep, RunnerStep, ReadWorking, Validate, Finish,
     SendRequest, HandleResponse, ReplayUpdate, ReplayFill, ReplayDone, Persist, ReadPosition,
     WritePosition, BusCallRaises, BusInsertRaises, SubsStep, SubsTake, SubsUpdate, SubsFill,
     SubsCallRaises, SubsInsertRaises, VenueReplies, VenueAccepts, VenueRefuses, VenueWorks,
     CrashAndRestart, Restart, runnerVars, durable
<1>2. claimed \subseteq claimed'
  BY <1>1 DEF ClaimAndRegister
<1>3. \A book, k, leaves, status : DOMAIN Upsert(book, k, leaves, status) \subseteq DOMAIN book \cup {k}
  BY DEF Upsert, Put, Restrict
<1>4. DOMAIN working' \cup registered' \subseteq claimed'
  <2>1. CASE ClaimAndRegister
    <3>1. DOMAIN working' \subseteq DOMAIN working \cup {intent} \/ working' = working
      BY <1>3, <2>1 DEF ClaimAndRegister
    <3>2. claimed' = claimed \cup {intent} \/ UNCHANGED <<claimed, working, registered>>
      BY <2>1 DEF ClaimAndRegister
    <3>3. registered' \subseteq registered \cup {intent}
      BY <2>1 DEF ClaimAndRegister
    <3> QED
      BY <3>1, <3>2, <3>3 DEF BudgetInv
  <2>2. CASE ReplayUpdate \/ SubsUpdate
    <3>1. registered' = registered
      BY <2>2 DEF ReplayUpdate, SubsUpdate
    <3>2. PICK k, leaves, status : OnExecutionUpdate(k, status, leaves)
      BY <2>2 DEF ReplayUpdate, SubsUpdate, DispatchUpdate
    <3>3. working' = working \/ (k \in registered /\ working' = Upsert(working, k, leaves, status))
      BY <3>2 DEF OnExecutionUpdate
    <3>4. DOMAIN working' \subseteq DOMAIN working \cup registered
      BY <1>3, <3>3
    <3> QED
      BY <1>2, <3>1, <3>4 DEF BudgetInv
  <2>3. CASE Finish
    <3>1. working' = working \/ working' = Upsert(working, intent, 0, "REJECTED")
      BY <2>3 DEF Finish
    <3>2. \A book, k : DOMAIN Upsert(book, k, 0, "REJECTED") \subseteq DOMAIN book
      BY DEF Upsert, Restrict, Terminal
    <3>3. DOMAIN working' \subseteq DOMAIN working /\ registered' = registered
      BY <2>3, <3>1, <3>2 DEF Finish
    <3> QED
      BY <1>2, <3>3 DEF BudgetInv
  <2>4. CASE CrashAndRestart
    BY <1>2, <2>4 DEF CrashAndRestart, Restart, EmptyBook
  <2>5. CASE ~ClaimAndRegister /\ ~ReplayUpdate /\ ~SubsUpdate /\ ~Finish /\ ~CrashAndRestart
    <3>1. UNCHANGED <<working, registered>>
      BY <2>5 DEF Next, TargetArrives, OnTarget, BusStep, RunnerStep, ReadWorking, Validate,
         SendRequest, HandleResponse, ReplayFill, ReplayDone, Persist, ReadPosition,
         WritePosition, BusCallRaises, BusInsertRaises, SubsStep, SubsTake, SubsFill,
         SubsCallRaises, SubsInsertRaises, VenueReplies, VenueAccepts, VenueRefuses,
         VenueWorks, runnerVars, books
    <3> QED
      BY <1>2, <3>1 DEF BudgetInv
  <2> QED
    BY <2>1, <2>2, <2>3, <2>4, <2>5
<1>5. crashes' = 0 => decision'.bar <= offset'
  <2>1. CASE TargetArrives
    <3>1. decision'.bar = offset /\ offset' \in {offset, offset + 1} /\ offset \in Nat
      BY <2>1 DEF TargetArrives, OnTarget, KeyInv, Shape
    <3> QED
      BY <3>1
  <2>2. CASE CrashAndRestart
    BY <2>2 DEF CrashAndRestart, Restart, FillInv, FillsShape
  <2>3. CASE ~TargetArrives /\ ~CrashAndRestart
    <3>1. UNCHANGED <<decision, offset, crashes>>
      BY <2>3 DEF Next, BusStep, RunnerStep, ReadWorking, Validate, ClaimAndRegister, Finish,
         SendRequest, HandleResponse, ReplayUpdate, ReplayFill, ReplayDone, Persist,
         ReadPosition, WritePosition, BusCallRaises, BusInsertRaises, LeaveSubmit, Raise,
         SubsStep, SubsTake, SubsUpdate, SubsFill, SubsCallRaises, SubsInsertRaises,
         LeaveMessage, VenueReplies, VenueAccepts, VenueRefuses, VenueWorks, runnerVars,
         feed, locals
    <3> QED
      BY <3>1 DEF BudgetInv
  <2> QED
    BY <2>1, <2>2, <2>3
<1> QED
  BY <1>2, <1>4, <1>5

LEMMA BudgetInit == Init => BudgetInv
<1> SUFFICES ASSUME Init PROVE BudgetInv
  OBVIOUS
<1>1. /\ DOMAIN orders = {} /\ DOMAIN working = {} /\ registered = {} /\ request = NoKey
      /\ pc["bus"] = "idle" /\ offset = 1 /\ decision.bar = 1 /\ lost = {}
      /\ targetOf \in [1..MaxBar -> Targets] /\ MaxBar \in Nat \ {0} /\ Targets \subseteq Int
  BY EMSXAssumption, RunnerAssumption DEF Init, RunnerInit, EmptyBook, FirstDecision
<1>2. ToBuy = 0 /\ Quiet
  BY <1>1 DEF ToBuy, Quiet
<1>3. VenueFilled = 0 /\ VenueOpen = 0 /\ LostSum = 0
  <2>1. \A f : Sum(f, {}) = 0
    BY FS_EmptySet, SumFirst
  <2> QED
    BY <1>1, <2>1, VenueSums DEF LostSum
<1>4. Committed = 0
  <2>1. request.side * request.qty = 0
    BY <1>1 DEF NoKey
  <2> QED
    BY <1>3, <2>1 DEF Committed
<1>5. Rising => Budgeted
  <2> SUFFICES ASSUME Rising PROVE Budgeted
    OBVIOUS
  <2>2. 1 \in 1..MaxBar
    BY <1>1
  <2>3. targetOf[1] \in Int
    BY <1>1, <2>2
  <2>1. targetOf[1] \in Int /\ 0 <= targetOf[1] /\ 1 \in 1..MaxBar
    BY <2>2, <2>3 DEF Rising, NeverFalling
  <2> QED
    BY <1>1, <1>2, <1>3, <1>4, <2>1 DEF Budgeted
<1> QED
  BY <1>1, <1>2, <1>5 DEF BudgetInv

LEMMA BudgetStep ==
  ASSUME KeyInv, FillInv, OrderlyInv, Typed, BookInv, AccountInv, BudgetInv, Next
  PROVE  BudgetInv'
<1>1. /\ DOMAIN working' \cup registered' \subseteq claimed'
      /\ claimed \subseteq claimed'
      /\ crashes' = 0 => decision'.bar <= offset'
  BY BudgetKeys
<1>2. /\ Trading' => Trading /\ ~CrashAndRestart
      /\ UNCHANGED <<conduct, targetOf>>
  BY TradingKept
<1>3. Rising' => Rising /\ BuysOnly' /\ ~CrashAndRestart
  BY <1>1, <1>2 DEF Rising, NeverFalling, BuysOnly
<1>4. ASSUME Rising, BuysOnly', ~CrashAndRestart PROVE Budgeted' /\ Quiet'
  BY <1>4, BudgetTarget, BudgetBus, BudgetSubs, BudgetVenue DEF Next
<1> QED
  BY <1>1, <1>3, <1>4 DEF BudgetInv

THEOREM BudgetInvariant == Spec => []BudgetInv
<1>1. KeyInv /\ FillInv /\ OrderlyInv /\ Typed /\ BookInv /\ AccountInv /\ BudgetInv
        /\ [Next]_vars => BudgetInv'
  <2> SUFFICES ASSUME KeyInv, FillInv, OrderlyInv, Typed, BookInv, AccountInv, BudgetInv,
                      [Next]_vars
               PROVE  BudgetInv'
    OBVIOUS
  <2>1. CASE UNCHANGED vars
    <3>1. UNCHANGED <<orders, stream, working, registered, offset, targetOf, claimed, request,
                      intent, pc, crashes, conduct, decision, lost, cursor, position>>
      BY <2>1 DEF vars, runnerVars, feed, books, durable, locals, venue, subs
    <3>2. Rising' => Rising
      BY <3>1 DEF Rising, Trading, NeverFalling, BuysOnly
    <3>3. ToBuy' = ToBuy /\ LostSum' = LostSum /\ Quiet' = Quiet
      BY <3>1 DEF ToBuy, LostSum, SignedFills, Quiet, NothingOpen
    <3>4. ToBuy' \in Nat /\ ToBuy' <= ToBuy /\ LostSum' \in Int /\ LostSum <= LostSum'
      BY <3>3, BudgetTypes
    <3>5. Budgeted => Budgeted'
      BY <3>1, <3>4, BudgetFrame
    <3> QED
      BY <3>1, <3>2, <3>3, <3>5 DEF BudgetInv
  <2>2. CASE Next
    BY <2>2, BudgetStep
  <2> QED
    BY <2>1, <2>2
<1> QED
  BY <1>1, BudgetInit, KeyInvariant, FillInvariant, OrderlyInvariant, TypedInvariant,
     BookInvariant, AccountInvariant, PTL DEF Spec

(* As long as targets are long and never fall, each comes when everything  *)
(* has settled and no order is open, the venue publishes nothing of an     *)
(* order before submit_order has handled its response, and no crash        *)
(* emptied the working book, what the venue has filled and may still fill  *)
(* - the request on its way included - never exceeds the last target       *)
(* decided on by more than the fills given up when a call raised; at least *)
(* while every order claimed was a purchase.                               *)
THEOREM CommittedWithinTarget == Spec => [](BuysOnly => SpacedWithinTarget)
<1>1. KeyInv /\ FillInv /\ Typed /\ BudgetInv => (BuysOnly => SpacedWithinTarget)
  <2> SUFFICES ASSUME KeyInv, FillInv, Typed, BudgetInv, Rising
               PROVE  Committed <= targetOf[decision.bar] + LostQty
    BY DEF SpacedWithinTarget, Rising, Trading
  <2> DEFINE t == targetOf[decision.bar]
  <2>1. Committed \in Int /\ ToBuy \in Nat /\ t \in Int /\ LostSum \in Int
    BY BudgetTypes
  <2>2. Committed + ToBuy <= t + LostSum
    BY DEF BudgetInv, Budgeted
  <2> HIDE DEF t
  <2>3. Committed <= t + LostSum
    BY <2>1, <2>2
  <2> QED
    BY <2>3, LostIs DEF t
<1> QED
  BY <1>1, BudgetInvariant, KeyInvariant, FillInvariant, TypedInvariant, PTL

=============================================================================
