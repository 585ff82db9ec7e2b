------------------------------ MODULE OMS_proofs ------------------------------
(***************************************************************************)
(* Two ends of what the OMS publishes.  GatewayFills: what the venue says  *)
(* becomes increments, each published once.  Archive: what a module        *)
(* publishes is archived, once and in order.                               *)
(***************************************************************************)
EXTENDS GatewayFills, Archive, TLAPS

(***************************************************************************)
(* IncrementsAddUpOrderly and NothingReportedTwice of GatewayFills, for    *)
(* any orders and amount, any number of messages in an event, any order of *)
(* the tasks.  The invariant says where the last message of an order is,   *)
(* and that what is published and what the tasks still owe is a path up to *)
(* what the gateway knows.                                                 *)
(***************************************************************************)
Message == [order : Orders, kind : {"fill", "cancel"}, total : 0..Amount]
Task == [todo : Seq(Message), phase : {"new", "publish", "resume"}, qty : 0..Amount]
GatewayTypes ==
  /\ total \in [Orders -> 0..Amount] /\ wire \in Seq(Message)
  /\ events \in Seq(Task) /\ \A e \in DOMAIN events : events[e].todo # <<>>
  /\ fillsSeen \in [Orders -> 0..Amount]
  /\ counted \in [Orders -> Nat] /\ dones \in [Orders -> Nat]
  /\ env \in Envs /\ crashes \in Nat

(* The last message of an order, until it is published: on the wire, k-th, *)
(* or k-th of what the i-th task has left.                                 *)
Completes(m, o) == m.order = o /\ IsDone(m)
Unreported(i, k, o) ==
  \/ i = 0 /\ k \in DOMAIN wire /\ Completes(wire[k], o)
  \/ /\ i \in DOMAIN events /\ k \in DOMAIN events[i].todo
     /\ Completes(events[i].todo[k], o)
     /\ k = 1 => events[i].phase # "resume"
AllReported(o) == \A i, k \in Nat : ~Unreported(i, k, o)

(* There is one such message, once the order is filled, and none when it   *)
(* was reported.                                                           *)
ReportedOnce(o) ==
  /\ dones[o] \in {0, 1}
  /\ total[o] < Amount => dones[o] = 0 /\ AllReported(o)
  /\ dones[o] = 1 => AllReported(o)
  /\ \A i, k, j, l \in Nat :
       Unreported(i, k, o) /\ Unreported(j, l, o) => i = j /\ k = l
  /\ \A e \in DOMAIN events :
       events[e].phase = "resume" /\ Completes(events[e].todo[1], o) => dones[o] = 1

(* As long as every event carries one message and nothing is forgotten,    *)
(* what the gateway knows of an order is fillsSeen, until the order is done *)
(* and its entry reset, and then all of it.                                *)
Known(o) == IF dones[o] = 0 THEN fillsSeen[o] ELSE Amount
IsFill(m, o) == m.order = o /\ m.kind = "fill"
NewFill(i, o) == i \in DOMAIN events /\ events[i].phase = "new" /\ IsFill(events[i].todo[1], o)
WireFill(k, o) == k \in DOMAIN wire /\ IsFill(wire[k], o)
Due(i, o) == IF events[i].todo[1].order = o /\ events[i].phase = "publish"
               THEN events[i].qty ELSE 0
(* A task has one message; the tasks not started are the last ones.        *)
OneByOne ==
  /\ \A i \in DOMAIN events : Len(events[i].todo) = 1
  /\ \A i, j \in DOMAIN events :
       i < j /\ events[i].phase = "new" => events[j].phase = "new"
(* The fills of an order not seen yet come in ascending order, from what   *)
(* the gateway knows up to what the venue filled, unless a call fails.     *)
Ascending(o) ==
  /\ fillsSeen[o] <= total[o]
  /\ \A i \in DOMAIN events :
       events[i].phase # "new" /\ IsFill(events[i].todo[1], o)
         => events[i].todo[1].total <= Known(o)
  /\ \A i, j \in DOMAIN events :
       NewFill(i, o) /\ NewFill(j, o) /\ i < j
         => events[i].todo[1].total <= events[j].todo[1].total
  /\ \A i \in DOMAIN events, k \in DOMAIN wire :
       NewFill(i, o) /\ WireFill(k, o) => events[i].todo[1].total <= wire[k].total
  /\ \A j, k \in DOMAIN wire :
       WireFill(j, o) /\ WireFill(k, o) /\ j < k => wire[j].total <= wire[k].total
  /\ \A i \in DOMAIN events :
       NewFill(i, o) => events[i].todo[1].total \in Known(o)..total[o]
  /\ \A k \in DOMAIN wire :
       WireFill(k, o) => wire[k].total \in Known(o)..total[o]
  /\ \/ env.fails
     \/ Known(o) = total[o]
     \/ \E i \in DOMAIN events : NewFill(i, o) /\ events[i].todo[1].total = total[o]
     \/ \E k \in DOMAIN wire : WireFill(k, o) /\ wire[k].total = total[o]

(* What is published and what the tasks are about to publish add up, path  *)
(* going from task to task, to what the gateway knows.                     *)
AddsUp(o, path) ==
  /\ path \in [0..Len(events) -> Int] /\ path[0] = counted[o]
  /\ \A i \in 1..Len(events) : path[i] = path[i - 1] + Due(i, o)
  /\ \A i, j \in 0..Len(events) : i <= j => path[i] <= path[j]
  /\ path[Len(events)] <= Known(o)
  /\ ~env.fails => path[Len(events)] = Known(o)
InOrder(o) == Ascending(o) /\ \E path : AddsUp(o, path)

LEMMA PairMin ==
  ASSUME NEW a \in Int, NEW b \in Int
  PROVE  /\ Min({a, b}) \in Int
         /\ Min({a, b}) <= a /\ Min({a, b}) <= b
         /\ Min({a, b}) \in {a, b}
<1>1. \E x \in {a, b} : \A y \in {a, b} : x <= y
  OBVIOUS
<1>2. /\ Min({a, b}) \in {a, b} /\ \A y \in {a, b} : Min({a, b}) <= y
  BY <1>1 DEF Min
<1> QED
  BY <1>2

LEMMA PairMax ==
  ASSUME NEW a \in Int, NEW b \in Int
  PROVE  Max({a, b}) = IF a >= b THEN a ELSE b
<1>1. \E x \in {a, b} : \A y \in {a, b} : x >= y
  OBVIOUS
<1>2. /\ Max({a, b}) \in {a, b} /\ \A y \in {a, b} : Max({a, b}) >= y
  BY <1>1 DEF Max
<1> QED
  BY <1>2

(* What a sequence is without one of its entries.                          *)
LEMMA Removed ==
  ASSUME NEW S, NEW s \in Seq(S), NEW e \in DOMAIN s
  PROVE  /\ RemoveAt(s, e) \in Seq(S)
         /\ Len(RemoveAt(s, e)) = Len(s) - 1
         /\ \A d \in 1..(Len(s) - 1) :
              RemoveAt(s, e)[d] = IF d < e THEN s[d] ELSE s[d + 1]
<1> DEFINE front == SubSeq(s, 1, e - 1)
           back  == SubSeq(s, e + 1, Len(s))
<1>1. e \in 1..Len(s) /\ Len(s) \in Nat /\ e \in Nat
  OBVIOUS
<1>2. /\ front \in Seq(S) /\ Len(front) = e - 1 /\ \A d \in 1..(e - 1) : front[d] = s[d]
  BY <1>1
<1>3. /\ back \in Seq(S) /\ Len(back) = Len(s) - e
      /\ \A d \in 1..(Len(s) - e) : back[d] = s[e + d]
  BY <1>1
<1>4. RemoveAt(s, e) = front \o back
  BY DEF RemoveAt
<1> HIDE DEF front, back
<1>5. Len(front \o back) = Len(s) - 1 /\ front \o back \in Seq(S)
  BY <1>1, <1>2, <1>3
<1>6. ASSUME NEW d \in 1..(Len(s) - 1)
      PROVE  (front \o back)[d] = IF d < e THEN s[d] ELSE s[d + 1]
  <2>1. CASE d < e
    BY <1>1, <1>2, <1>3, <2>1
  <2>2. CASE ~(d < e)
    <3>1. (front \o back)[d] = back[d - (e - 1)]
      BY <1>1, <1>2, <1>3, <2>2
    <3>2. d - (e - 1) \in 1..(Len(s) - e) /\ e + (d - (e - 1)) = d + 1
      BY <1>1, <2>2
    <3> QED
      BY <1>1, <1>3, <2>2, <3>1, <3>2
  <2> QED
    BY <2>1, <2>2
<1> QED
  BY <1>4, <1>5, <1>6

LEMMA MessageTyped ==
  ASSUME GatewayAssumption, NEW m \in Message
  PROVE  /\ m.order \in Orders /\ m.total \in 0..Amount /\ m.total \in Int
         /\ m.kind \in {"fill", "cancel"}
         /\ IsDone(m) => m.kind = "fill" /\ m.total = Amount
BY DEF Message, IsDone, GatewayAssumption

LEMMA TaskTyped ==
  ASSUME GatewayTypes, NEW e \in DOMAIN events
  PROVE  /\ events[e].todo \in Seq(Message) /\ events[e].todo # <<>>
         /\ events[e].phase \in {"new", "publish", "resume"} /\ events[e].qty \in 0..Amount
<1>1. events \in Seq(Task) /\ events[e].todo # <<>>
  BY DEF GatewayTypes
<1>2. events[e] \in Task
  BY <1>1
<1> QED
  BY <1>1, <1>2 DEF Task

LEMMA Suffix ==
  ASSUME NEW S, NEW s \in Seq(S), NEW n \in 1..Len(s)
  PROVE  /\ SubSeq(s, n + 1, Len(s)) \in Seq(S)
         /\ Len(SubSeq(s, n + 1, Len(s))) = Len(s) - n
         /\ \A k \in 1..(Len(s) - n) : SubSeq(s, n + 1, Len(s))[k] = s[k + n]
<1>1. n \in Nat /\ Len(s) \in Nat /\ n <= Len(s)
  OBVIOUS
<1>2. /\ SubSeq(s, n + 1, Len(s)) \in Seq(S)
      /\ Len(SubSeq(s, n + 1, Len(s))) = Len(s) - n
  BY <1>1
<1>3. ASSUME NEW k \in 1..(Len(s) - n) PROVE SubSeq(s, n + 1, Len(s))[k] = s[k + n]
  <2>1. SubSeq(s, n + 1, Len(s))[k] = s[n + 1 + k - 1] /\ n + 1 + k - 1 = k + n
    BY <1>1
  <2> QED
    BY <2>1
<1> QED
  BY <1>2, <1>3

(* A task goes on with what it has left, or is gone.                       *)
LEMMA Advanced ==
  ASSUME GatewayAssumption, GatewayTypes, NEW e \in DOMAIN events,
         NEW todo \in Seq(Message), NEW seen \in [Orders -> 0..Amount],
         Advance(e, todo, seen)
  PROVE  \/ /\ todo = <<>> /\ events' = RemoveAt(events, e) /\ fillsSeen' = seen
         \/ /\ todo # <<>>
            /\ Head(todo) \in Message
            /\ \E q \in 0..Amount :
                 /\ [todo |-> todo, phase |-> "publish", qty |-> q] \in Task
                 /\ events' = [events EXCEPT ![e] =
                                 [todo |-> todo, phase |-> "publish", qty |-> q]]
                 /\ IF Head(todo).kind = "fill"
                      THEN /\ q = (IF Head(todo).total >= seen[Head(todo).order]
                                     THEN Head(todo).total - seen[Head(todo).order] ELSE 0)
                           /\ fillsSeen' = [seen EXCEPT ![Head(todo).order] = Head(todo).total]
                      ELSE q = 0 /\ fillsSeen' = seen
<1>1. CASE todo = <<>>
  BY <1>1 DEF Advance
<1>2. CASE todo # <<>>
  <2> DEFINE m == Head(todo)
  <2>1. m \in Message
    BY <1>2
  <2>2. m.order \in Orders /\ m.total \in 0..Amount /\ Amount \in Nat
    BY <2>1, MessageTyped DEF GatewayAssumption
  <2>3. seen[m.order] \in 0..Amount
    BY <2>2
  <2>4. m.total - seen[m.order] \in Int
    BY <2>2, <2>3
  <2>5. Increment(seen, m) = IF 0 >= m.total - seen[m.order] THEN 0 ELSE m.total - seen[m.order]
    BY <2>4, PairMax DEF Increment
  <2>6. /\ Increment(seen, m) \in 0..Amount
        /\ Increment(seen, m) = IF m.total >= seen[m.order] THEN m.total - seen[m.order] ELSE 0
    BY <2>2, <2>3, <2>5
  <2>7. CASE m.kind = "fill"
    <3> DEFINE q == Increment(seen, m)
    <3>1. /\ events' = [events EXCEPT ![e] = [todo |-> todo, phase |-> "publish", qty |-> q]]
          /\ fillsSeen' = [seen EXCEPT ![m.order] = m.total]
      BY <1>2, <2>7 DEF Advance
    <3>2. q \in 0..Amount
      BY <2>6
    <3>3. q = (IF m.total >= seen[m.order] THEN m.total - seen[m.order] ELSE 0)
      BY <2>6
    <3> HIDE DEF q
    <3>4. [todo |-> todo, phase |-> "publish", qty |-> q] \in Task
      BY <3>2 DEF Task
    <3> QED
      BY <1>2, <2>1, <2>7, <3>1, <3>2, <3>3, <3>4
  <2>8. CASE m.kind # "fill"
    <3>1. /\ events' = [events EXCEPT ![e] = [todo |-> todo, phase |-> "publish", qty |-> 0]]
          /\ fillsSeen' = seen
      BY <1>2, <2>8 DEF Advance
    <3>2. 0 \in 0..Amount
      BY <2>2
    <3>3. [todo |-> todo, phase |-> "publish", qty |-> 0] \in Task
      BY <3>2 DEF Task
    <3> QED
      BY <1>2, <2>1, <2>8, <3>1, <3>2, <3>3
  <2> QED
    BY <2>7, <2>8
<1> QED
  BY <1>1, <1>2

-----------------------------------------------------------------------------
(* No step but the venue's may make a message the last one of an order.    *)
LEMMA WireGrows ==
  ASSUME GatewayAssumption, GatewayTypes, NEW o \in Orders, ReportedOnce(o),
         NEW m \in Message, wire' = Append(wire, m), UNCHANGED <<events, dones>>,
         total' \in [Orders -> 0..Amount], total[o] <= total'[o],
         Completes(m, o) => total[o] < Amount /\ total'[o] = Amount
  PROVE  ReportedOnce(o)'
<1>1. /\ Len(wire) \in Nat /\ DOMAIN wire = 1..Len(wire)
      /\ Len(wire') = Len(wire) + 1 /\ DOMAIN wire' = 1..(Len(wire) + 1)
      /\ \A k \in 1..Len(wire) : wire'[k] = wire[k]
      /\ wire'[Len(wire) + 1] = m
  BY DEF GatewayTypes
<1>2. \A k : k \in 1..(Len(wire) + 1) <=> k \in 1..Len(wire) \/ k = Len(wire) + 1
  BY <1>1
<1>3. ASSUME NEW i \in Nat, NEW k \in Nat
      PROVE  Unreported(i, k, o)' <=>
               \/ Unreported(i, k, o)
               \/ i = 0 /\ k = Len(wire) + 1 /\ Completes(m, o)
  <2>1. 0 \notin DOMAIN events
    BY DEF GatewayTypes
  <2> QED
    BY <1>1, <1>2, <2>1 DEF Unreported, Completes, IsDone
<1>4. total[o] \in Int /\ total'[o] \in Int /\ Amount \in Int
  BY DEF GatewayAssumption, GatewayTypes
<1>5. /\ dones'[o] = dones[o] /\ events' = events
      /\ \A e \in DOMAIN events : events[e].todo' = events[e].todo
  OBVIOUS
<1>6. CASE ~Completes(m, o)
  <2>1. \A i, k \in Nat : Unreported(i, k, o)' => Unreported(i, k, o)
    BY <1>3, <1>6
  <2>2. AllReported(o) => AllReported(o)'
    BY <2>1 DEF AllReported
  <2>3. total'[o] < Amount => total[o] < Amount
    BY <1>4
  <2>4. \A i, k, j, l \in Nat : Unreported(i, k, o)' /\ Unreported(j, l, o)' => i = j /\ k = l
    BY <2>1 DEF ReportedOnce
  <2> QED
    BY <1>5, <2>2, <2>3, <2>4 DEF ReportedOnce, Completes, IsDone
<1>7. CASE Completes(m, o)
  <2>1. total[o] < Amount /\ total'[o] = Amount
    BY <1>7
  <2>2. dones[o] = 0 /\ \A i, k \in Nat : ~Unreported(i, k, o)
    BY <2>1 DEF ReportedOnce, AllReported
  <2> QED
    BY <1>3, <1>4, <1>5, <2>1, <2>2 DEF ReportedOnce, AllReported, Completes, IsDone
<1> QED
  BY <1>6, <1>7

LEMMA EventIs ==
  ASSUME GatewayAssumption, GatewayTypes, EventArrives
  PROVE  \E n \in 1..Len(wire) :
           /\ events' = Append(events, [todo |-> SubSeq(wire, 1, n), phase |-> "new", qty |-> 0])
           /\ wire' = SubSeq(wire, n + 1, Len(wire))
           /\ ~env.batches => n = 1
<1> DEFINE most == IF env.batches THEN MaxBatch ELSE 1
<1>1. most \in Int /\ Len(wire) \in Int
  BY DEF GatewayAssumption, GatewayTypes
<1>2. PICK n \in 1..Min({most, Len(wire)}) :
        /\ events' = Append(events, [todo |-> SubSeq(wire, 1, n), phase |-> "new", qty |-> 0])
        /\ wire' = SubSeq(wire, n + 1, Len(wire))
  BY DEF EventArrives
<1>3. ~env.batches => most = 1
  OBVIOUS
<1> HIDE DEF most
<1>4. /\ Min({most, Len(wire)}) \in Int
      /\ Min({most, Len(wire)}) <= most /\ Min({most, Len(wire)}) <= Len(wire)
  BY <1>1, PairMin
<1>5. n \in 1..Len(wire) /\ (most = 1 => n = 1)
  BY <1>1, <1>4
<1> QED
  BY <1>2, <1>3, <1>5

LEMMA EventArrivesReports ==
  ASSUME GatewayAssumption, GatewayTypes, NEW o \in Orders, ReportedOnce(o), EventArrives
  PROVE  ReportedOnce(o)'
<1>1. PICK n \in 1..Len(wire) :
        /\ events' = Append(events, [todo |-> SubSeq(wire, 1, n), phase |-> "new", qty |-> 0])
        /\ wire' = SubSeq(wire, n + 1, Len(wire))
  BY EventIs
<1>2. /\ Len(wire) \in Nat /\ DOMAIN wire = 1..Len(wire)
      /\ Len(events) \in Nat /\ DOMAIN events = 1..Len(events)
  BY DEF GatewayTypes
<1>3. n \in 1..Len(wire) /\ n \in Nat
  BY <1>2
<1> DEFINE todo == SubSeq(wire, 1, n)
           task == [todo |-> todo, phase |-> "new", qty |-> 0]
           last == Len(events) + 1
<1>4. /\ todo \in Seq(Message) /\ Len(todo) = n /\ DOMAIN todo = 1..n
      /\ \A k \in 1..n : todo[k] = wire[k]
  BY <1>2, <1>3 DEF GatewayTypes
<1>5. /\ Len(wire') = Len(wire) - n /\ DOMAIN wire' = 1..(Len(wire) - n)
      /\ \A k \in 1..(Len(wire) - n) : wire'[k] = wire[k + n]
  <2>0. wire \in Seq(Message) /\ wire' = SubSeq(wire, n + 1, Len(wire))
    BY <1>1 DEF GatewayTypes
  <2>3. /\ wire' \in Seq(Message) /\ Len(wire') = Len(wire) - n
        /\ \A k \in 1..(Len(wire) - n) : wire'[k] = wire[k + n]
    BY <2>0, Suffix
  <2>1. Len(wire') = Len(wire) - n /\ DOMAIN wire' = 1..(Len(wire) - n)
    BY <2>3
  <2>2. ASSUME NEW k \in 1..(Len(wire) - n) PROVE wire'[k] = wire[k + n]
    BY <2>3
  <2> QED
    BY <2>1, <2>2
<1>6. task.todo = todo /\ task.phase = "new"
  OBVIOUS
<1>7. events' = Append(events, task)
  BY <1>1
<1> HIDE DEF task
<1>8. /\ DOMAIN events' = 1..last /\ last \in Nat
      /\ \A i \in 1..Len(events) : events'[i] = events[i]
      /\ events'[last] = task
  BY <1>2, <1>7 DEF GatewayTypes
<1> HIDE DEF todo
<1>9. ASSUME NEW i \in Nat, NEW k \in Nat, Unreported(i, k, o)'
      PROVE  /\ i = 0 => Unreported(0, k + n, o)
             /\ i = last => Unreported(0, k, o) /\ k <= n
             /\ i # 0 /\ i # last => Unreported(i, k, o)
  <2>1. CASE i = 0
    <3>1. k \in DOMAIN wire' /\ Completes(wire'[k], o)
      BY <2>1, <1>2, <1>8, <1>9 DEF Unreported, Completes, IsDone
    <3>2. k + n \in DOMAIN wire /\ wire'[k] = wire[k + n]
      BY <1>2, <1>3, <1>5, <3>1
    <3> QED
      BY <1>2, <2>1, <3>1, <3>2 DEF Unreported
  <2>2. CASE i = last
    <3>1. k \in DOMAIN todo /\ Completes(todo[k], o)
      BY <1>2, <1>6, <1>8, <1>9, <2>2 DEF Unreported, Completes, IsDone
    <3>2. k \in DOMAIN wire /\ todo[k] = wire[k] /\ k <= n
      BY <1>2, <1>3, <1>4, <3>1
    <3> QED
      BY <1>2, <2>2, <3>1, <3>2 DEF Unreported
  <2>3. CASE i # 0 /\ i # last
    <3>1. i \in DOMAIN events'
      BY <1>9, <2>3 DEF Unreported
    <3>2. i \in 1..Len(events) /\ events'[i] = events[i]
      BY <1>2, <1>8, <2>3, <3>1
    <3> QED
      BY <1>2, <1>9, <2>3, <3>2 DEF Unreported, Completes, IsDone
  <2> QED
    BY <2>1, <2>2, <2>3
<1>10. UNCHANGED <<total, dones>>
  BY DEF EventArrives, fills
<1>11. AllReported(o) => AllReported(o)'
  BY <1>3, <1>9 DEF AllReported
<1>12. ASSUME NEW i \in Nat, NEW k \in Nat, NEW j \in Nat, NEW l \in Nat,
              Unreported(i, k, o)', Unreported(j, l, o)'
       PROVE  i = j /\ k = l
  <2>1. k >= 1 /\ l >= 1
    <3>1. ASSUME NEW a \in Nat, NEW b \in Nat, Unreported(a, b, o)' PROVE b >= 1
      <4>1. CASE a = 0
        BY <1>2, <1>5, <1>8, <3>1, <4>1 DEF Unreported
      <4>2. CASE a = last
        BY <1>2, <1>4, <1>6, <1>8, <3>1, <4>2 DEF Unreported
      <4>3. CASE a # 0 /\ a # last
        <5>1. Unreported(a, b, o)
          BY <1>9, <3>1, <4>3
        <5>2. a \in DOMAIN events /\ b \in DOMAIN events[a].todo
          BY <4>3, <5>1 DEF Unreported
        <5>3. events[a].todo \in Seq(Message)
          BY <5>2, TaskTyped
        <5> QED
          BY <5>2, <5>3
      <4> QED
        BY <4>1, <4>2, <4>3
    <3> QED
      BY <1>12, <3>1
  <2>2. /\ k + n \in Nat /\ l + n \in Nat
        /\ k <= n => k # l + n
        /\ l <= n => l # k + n
        /\ k + n = l + n => k = l
        /\ 0 \in Nat /\ 0 # last
    BY <1>2, <1>3, <2>1
  <2>3. ASSUME NEW a \in Nat, NEW b \in Nat, NEW c \in Nat, NEW d \in Nat,
               Unreported(a, b, o), Unreported(c, d, o)
        PROVE  a = c /\ b = d
    BY <2>3 DEF ReportedOnce
  <2>4. CASE i = 0
    BY <1>8, <1>9, <1>12, <2>2, <2>3, <2>4
  <2>5. CASE i = last
    BY <1>8, <1>9, <1>12, <2>2, <2>3, <2>5
  <2>6. CASE i # 0 /\ i # last
    <3>1. Unreported(i, k, o)
      BY <1>9, <1>12, <2>6
    <3>2. CASE j = 0
      BY <1>9, <1>12, <2>2, <2>3, <2>6, <3>1, <3>2
    <3>3. CASE j = last
      BY <1>9, <1>12, <2>2, <2>3, <2>6, <3>1, <3>3
    <3>4. CASE j # 0 /\ j # last
      BY <1>9, <1>12, <2>3, <3>1, <3>4
    <3> QED
      BY <3>2, <3>3, <3>4
  <2> QED
    BY <2>4, <2>5, <2>6
<1>13. ASSUME NEW e \in DOMAIN events', events'[e].phase = "resume",
              Completes(events'[e].todo[1], o)
       PROVE  dones[o] = 1
  <2>1. e \in DOMAIN events /\ events'[e] = events[e]
    BY <1>2, <1>6, <1>8, <1>13
  <2> QED
    BY <1>13, <2>1 DEF ReportedOnce
<1> QED
  BY <1>10, <1>11, <1>12, <1>13 DEF ReportedOnce, Completes, IsDone

(* A task is gone.                                                         *)
LEMMA RemovalReports ==
  ASSUME GatewayTypes, NEW o \in Orders, ReportedOnce(o), NEW e \in DOMAIN events,
         events' = RemoveAt(events, e), UNCHANGED <<total, wire, dones>>
  PROVE  ReportedOnce(o)'
<1>1. /\ events \in Seq(Task) /\ Len(events) \in Nat
      /\ DOMAIN events = 1..Len(events) /\ e \in 1..Len(events)
  BY DEF GatewayTypes
<1>2. /\ events' \in Seq(Task) /\ Len(events') = Len(events) - 1
      /\ \A d \in 1..(Len(events) - 1) :
           events'[d] = IF d < e THEN events[d] ELSE events[d + 1]
  BY <1>1, Removed
<1>3. DOMAIN events' = 1..(Len(events) - 1)
  BY <1>2
<1>4. ASSUME NEW d \in DOMAIN events'
      PROVE  \/ d < e /\ d \in DOMAIN events /\ events'[d] = events[d]
             \/ d >= e /\ d + 1 \in DOMAIN events /\ events'[d] = events[d + 1]
  BY <1>1, <1>2, <1>3
<1>5. ASSUME NEW i \in Nat, NEW k \in Nat, Unreported(i, k, o)'
      PROVE  IF i = 0 \/ i < e THEN Unreported(i, k, o) ELSE Unreported(i + 1, k, o)
  <2>1. CASE i = 0
    <3>1. 0 \notin DOMAIN events'
      BY <1>3
    <3> QED
      BY <1>5, <2>1, <3>1 DEF Unreported, Completes, IsDone
  <2>2. CASE i # 0
    <3>1. i \in DOMAIN events'
      BY <1>5, <2>2 DEF Unreported
    <3>2. CASE i < e
      <4>1. i \in DOMAIN events /\ events'[i] = events[i]
        BY <1>1, <1>4, <3>1, <3>2
      <4> QED
        BY <1>5, <2>2, <3>2, <4>1 DEF Unreported, Completes, IsDone
    <3>3. CASE ~(i < e)
      <4>1. i + 1 \in DOMAIN events /\ events'[i] = events[i + 1]
        BY <1>1, <1>4, <3>1, <3>3
      <4> QED
        BY <1>5, <2>2, <3>3, <4>1 DEF Unreported, Completes, IsDone
    <3> QED
      BY <3>2, <3>3
  <2> QED
    BY <2>1, <2>2
<1>6. AllReported(o) => AllReported(o)'
  BY <1>5 DEF AllReported
<1>7. ASSUME NEW i \in Nat, NEW k \in Nat, NEW j \in Nat, NEW l \in Nat,
             Unreported(i, k, o)', Unreported(j, l, o)'
      PROVE  i = j /\ k = l
  <2>1. ASSUME NEW a \in Nat, NEW b \in Nat, NEW c \in Nat, NEW d \in Nat,
               Unreported(a, b, o), Unreported(c, d, o)
        PROVE  a = c /\ b = d
    BY <2>1 DEF ReportedOnce
  <2>2. e \in Nat /\ e >= 1 /\ i + 1 \in Nat /\ j + 1 \in Nat
    BY <1>1
  <2> DEFINE a == IF i = 0 \/ i < e THEN i ELSE i + 1
             c == IF j = 0 \/ j < e THEN j ELSE j + 1
  <2>3. a \in Nat /\ c \in Nat /\ (a = c => i = j)
    BY <2>2
  <2>4. Unreported(a, k, o) /\ Unreported(c, l, o)
    BY <1>5, <1>7
  <2> HIDE DEF a, c
  <2> QED
    BY <2>1, <2>3, <2>4
<1>8. ASSUME NEW d \in DOMAIN events', events'[d].phase = "resume",
             Completes(events'[d].todo[1], o)
      PROVE  dones[o] = 1
  BY <1>4, <1>8 DEF ReportedOnce
<1> QED
  BY <1>6, <1>7, <1>8 DEF ReportedOnce, Completes, IsDone

(* A task goes on, by `by` messages.                                       *)
LEMMA AdvanceReports ==
  ASSUME GatewayTypes, NEW o \in Orders, ReportedOnce(o), NEW e \in DOMAIN events,
         NEW t \in Task, events' = [events EXCEPT ![e] = t],
         NEW by \in {0, 1}, by = 0 => events[e].phase # "resume",
         \A k \in DOMAIN t.todo :
            k + by \in DOMAIN events[e].todo /\ t.todo[k] = events[e].todo[k + by],
         t.phase # "resume", UNCHANGED <<total, wire, dones>>
  PROVE  ReportedOnce(o)'
<1>1. /\ DOMAIN events' = DOMAIN events /\ events'[e] = t
      /\ \A d \in DOMAIN events : d # e => events'[d] = events[d]
      /\ 0 \notin DOMAIN events /\ DOMAIN events \subseteq Nat
  BY DEF GatewayTypes
<1>2. t.todo \in Seq(Message)
  BY DEF Task
<1>3. ASSUME NEW i \in Nat, NEW k \in Nat, Unreported(i, k, o)'
      PROVE  IF i = e THEN Unreported(i, k + by, o) ELSE Unreported(i, k, o)
  <2>1. CASE i = e
    <3>1. k \in DOMAIN t.todo /\ Completes(t.todo[k], o)
      BY <1>1, <1>3, <2>1 DEF Unreported, Completes, IsDone
    <3>2. k >= 1
      BY <1>2, <3>1
    <3>3. k + by = 1 => by = 0
      BY <3>2
    <3> QED
      BY <2>1, <3>1, <3>3 DEF Unreported
  <2>2. CASE i # e
    BY <1>1, <1>3, <2>2 DEF Unreported, Completes, IsDone
  <2> QED
    BY <2>1, <2>2
<1>4. AllReported(o) => AllReported(o)'
  <2>1. \A k \in Nat : k + by \in Nat
    OBVIOUS
  <2> QED
    BY <1>3, <2>1 DEF AllReported
<1>5. ASSUME NEW i \in Nat, NEW k \in Nat, NEW j \in Nat, NEW l \in Nat,
             Unreported(i, k, o)', Unreported(j, l, o)'
      PROVE  i = j /\ k = l
  <2>1. ASSUME NEW a \in Nat, NEW b \in Nat, NEW c \in Nat, NEW d \in Nat,
               Unreported(a, b, o), Unreported(c, d, o)
        PROVE  a = c /\ b = d
    BY <2>1 DEF ReportedOnce
  <2> DEFINE b == IF i = e THEN k + by ELSE k
             d == IF j = e THEN l + by ELSE l
  <2>2. b \in Nat /\ d \in Nat /\ (i = j /\ b = d => k = l)
    OBVIOUS
  <2>3. Unreported(i, b, o) /\ Unreported(j, d, o)
    BY <1>3, <1>5
  <2> HIDE DEF b, d
  <2> QED
    BY <2>1, <2>2, <2>3
<1>6. ASSUME NEW d \in DOMAIN events', events'[d].phase = "resume",
             Completes(events'[d].todo[1], o)
      PROVE  dones[o] = 1
  BY <1>1, <1>6 DEF ReportedOnce
<1> QED
  BY <1>4, <1>5, <1>6 DEF ReportedOnce, Completes, IsDone

LEMMA PublishedReports ==
  ASSUME GatewayAssumption, GatewayTypes, NEW o \in Orders, ReportedOnce(o),
         NEW e \in DOMAIN events, Published(e)
  PROVE  ReportedOnce(o)'
<1> DEFINE m == events[e].todo[1]
<1>1. /\ DOMAIN events' = DOMAIN events /\ 0 \notin DOMAIN events
      /\ \A d \in DOMAIN events : events'[d].todo = events[d].todo
      /\ \A d \in DOMAIN events : d # e => events'[d].phase = events[d].phase
      /\ events'[e].phase = "resume" /\ events[e].phase = "publish"
      /\ UNCHANGED <<total, wire>>
  <2>1. \A d \in DOMAIN events : events[d] \in Task
    BY DEF GatewayTypes
  <2>2. events' = [events EXCEPT ![e].phase = "resume"] /\ events[e].phase = "publish"
    BY DEF Published
  <2>3. UNCHANGED <<total, wire>>
    BY DEF Published, venue
  <2>4. DOMAIN events' = DOMAIN events /\ 0 \notin DOMAIN events
    BY <2>2 DEF GatewayTypes
  <2>5. ASSUME NEW d \in DOMAIN events, d # e PROVE events'[d] = events[d]
    BY <2>2, <2>5
  <2>6. events'[e] = [events[e] EXCEPT !.phase = "resume"]
    BY <2>2, <2>4
  <2>7. events'[e].todo = events[e].todo /\ events'[e].phase = "resume"
    BY <2>1, <2>6 DEF Task
  <2> QED
    BY <2>2, <2>3, <2>4, <2>5, <2>7
<1>2. /\ m = Head(events[e].todo) /\ 1 \in DOMAIN events[e].todo /\ m \in Message
  BY TaskTyped
<1>3. m.order \in Orders /\ o \in DOMAIN dones
  BY <1>2, MessageTyped DEF GatewayTypes
<1>4. dones' = IF IsDone(m) THEN [dones EXCEPT ![m.order] = @ + 1] ELSE dones
  BY <1>2 DEF Published
<1> HIDE DEF m
<1>5. ASSUME NEW i \in Nat, NEW k \in Nat
      PROVE  Unreported(i, k, o)' => Unreported(i, k, o) /\ ~(i = e /\ k = 1)
  BY <1>1 DEF Unreported, Completes, IsDone
<1>6. \A i, k, j, l \in Nat :
        Unreported(i, k, o)' /\ Unreported(j, l, o)' => i = j /\ k = l
  BY <1>5 DEF ReportedOnce
<1>7. CASE Completes(m, o)
  <2>1. Unreported(e, 1, o) /\ e \in Nat
    BY <1>1, <1>2, <1>7 DEF Unreported, GatewayTypes, m
  <2>2. ~AllReported(o)
    BY <2>1 DEF AllReported
  <2>3. ~(total[o] < Amount) /\ dones[o] = 0
    BY <2>2 DEF ReportedOnce
  <2>4. dones'[o] = 1
    BY <1>3, <1>4, <1>7, <2>3 DEF Completes
  <2>5. ASSUME NEW i \in Nat, NEW k \in Nat, Unreported(i, k, o)' PROVE FALSE
    <3>1. Unreported(i, k, o) /\ ~(i = e /\ k = 1)
      BY <1>5, <2>5
    <3> QED
      BY <2>1, <3>1 DEF ReportedOnce
  <2>6. AllReported(o)'
    BY <2>5 DEF AllReported
  <2> QED
    BY <1>1, <1>6, <2>3, <2>4, <2>6 DEF ReportedOnce
<1>8. CASE ~Completes(m, o)
  <2>1. dones'[o] = dones[o]
    BY <1>3, <1>4, <1>8 DEF Completes
  <2>2. AllReported(o) => AllReported(o)'
    BY <1>5 DEF AllReported
  <2>3. ASSUME NEW d \in DOMAIN events', events'[d].phase = "resume",
               Completes(events'[d].todo[1], o)
        PROVE  dones[o] = 1
    BY <1>1, <1>8, <2>3 DEF ReportedOnce, m
  <2> QED
    BY <1>1, <1>6, <2>1, <2>2, <2>3 DEF ReportedOnce, Completes, IsDone
<1> QED
  BY <1>7, <1>8

-----------------------------------------------------------------------------
LEMMA KnownWithin ==
  ASSUME GatewayAssumption, GatewayTypes, NEW o \in Orders, ReportedOnce(o), Ascending(o)
  PROVE  /\ Known(o) \in Nat /\ total[o] \in Nat /\ fillsSeen[o] \in Nat
         /\ Known(o) <= total[o] /\ total[o] <= Amount
         /\ dones[o] = 1 => total[o] = Amount
<1>1. total[o] \in 0..Amount /\ fillsSeen[o] \in 0..Amount /\ Amount \in Nat
  BY DEF GatewayTypes, GatewayAssumption
<1>2. dones[o] = 1 => total[o] = Amount
  BY <1>1 DEF ReportedOnce
<1> QED
  BY <1>1, <1>2 DEF ReportedOnce, Ascending, Known

(* The venue says something: that an order is filled further, or nothing   *)
(* new of it.                                                              *)
LEMMA WireKeepsOrder ==
  ASSUME GatewayAssumption, GatewayTypes, NEW o \in Orders, ReportedOnce(o), InOrder(o),
         NEW m \in Message, wire' = Append(wire, m),
         UNCHANGED <<events, fillsSeen, counted, dones, env>>,
         total' \in [Orders -> 0..Amount], total[o] <= total'[o],
         IF IsFill(m, o) THEN m.total = total'[o] ELSE total'[o] = total[o]
  PROVE  InOrder(o)'
<1>1. /\ Len(wire) \in Nat /\ DOMAIN wire = 1..Len(wire)
      /\ Len(wire') = Len(wire) + 1 /\ DOMAIN wire' = 1..(Len(wire) + 1)
      /\ \A k \in 1..Len(wire) : wire'[k] = wire[k]
      /\ wire'[Len(wire) + 1] = m
  BY DEF GatewayTypes
<1>2. Ascending(o) /\ \E path : AddsUp(o, path)
  BY DEF InOrder
<1>3. /\ Known(o) \in Nat /\ total[o] \in Nat /\ total'[o] \in Nat
      /\ Known(o) <= total[o] /\ fillsSeen[o] \in Nat
  BY <1>2, KnownWithin DEF GatewayAssumption
<1>4. Known(o)' = Known(o)
  BY DEF Known
<1>5. \A i \in DOMAIN events : NewFill(i, o)' = NewFill(i, o)
  BY DEF NewFill, IsFill
<1>6. \A i \in DOMAIN events : events[i].todo[1] \in Message /\ events[i].todo[1].total \in Int
  BY TaskTyped, MessageTyped
<1>7. \A k \in DOMAIN wire : wire[k] \in Message /\ wire[k].total \in Int
  BY MessageTyped DEF GatewayTypes
<1>8. ASSUME NEW k \in DOMAIN wire'
      PROVE  \/ k \in DOMAIN wire /\ wire'[k] = wire[k] /\ WireFill(k, o)' = WireFill(k, o)
             \/ k = Len(wire) + 1 /\ wire'[k] = m /\ WireFill(k, o)' = IsFill(m, o)
  <2>1. k \in 1..Len(wire) \/ k = Len(wire) + 1
    BY <1>1
  <2> QED
    BY <1>1, <2>1 DEF WireFill, IsFill
<1>9. \E path : AddsUp(o, path)'
  BY <1>2, <1>4 DEF AddsUp, Due
<1>10. fillsSeen'[o] <= total'[o]
  BY <1>2, <1>3 DEF Ascending
<1>11. \A i \in DOMAIN events' :
         events'[i].phase # "new" /\ IsFill(events'[i].todo[1], o)
           => events'[i].todo[1].total <= Known(o)'
  BY <1>2, <1>4 DEF Ascending
<1>12. \A i, j \in DOMAIN events' :
         NewFill(i, o)' /\ NewFill(j, o)' /\ i < j
           => events'[i].todo[1].total <= events'[j].todo[1].total
  BY <1>2, <1>5 DEF Ascending
<1>13. ASSUME NEW i \in DOMAIN events', NEW k \in DOMAIN wire',
              NewFill(i, o)', WireFill(k, o)'
       PROVE  events'[i].todo[1].total <= wire'[k].total
  <2>1. events[i].todo[1].total <= total[o] /\ NewFill(i, o)
    BY <1>2, <1>5, <1>13 DEF Ascending
  <2> QED
    BY <1>2, <1>3, <1>6, <1>8, <1>13, <2>1 DEF Ascending
<1>14. ASSUME NEW j \in DOMAIN wire', NEW k \in DOMAIN wire',
              WireFill(j, o)', WireFill(k, o)', j < k
       PROVE  wire'[j].total <= wire'[k].total
  <2>1. j \in DOMAIN wire /\ wire'[j] = wire[j] /\ WireFill(j, o)
    BY <1>1, <1>8, <1>14
  <2>2. wire[j].total <= total[o]
    BY <1>2, <2>1 DEF Ascending
  <2> QED
    BY <1>2, <1>3, <1>7, <1>8, <1>14, <2>1, <2>2 DEF Ascending
<1>15. \A i \in DOMAIN events' :
         NewFill(i, o)' => events'[i].todo[1].total \in Known(o)'..total'[o]
  BY <1>2, <1>3, <1>4, <1>5, <1>6 DEF Ascending
<1>16. ASSUME NEW k \in DOMAIN wire', WireFill(k, o)'
       PROVE  wire'[k].total \in Known(o)'..total'[o]
  BY <1>2, <1>3, <1>4, <1>7, <1>8, <1>16 DEF Ascending
<1>17. \/ env'.fails
       \/ Known(o)' = total'[o]
       \/ \E i \in DOMAIN events' : NewFill(i, o)' /\ events'[i].todo[1].total = total'[o]
       \/ \E k \in DOMAIN wire' : WireFill(k, o)' /\ wire'[k].total = total'[o]
  <2>1. CASE IsFill(m, o)
    <3>1. PICK k \in DOMAIN wire' : k = Len(wire) + 1
      BY <1>1
    <3>2. k \notin DOMAIN wire
      BY <1>1, <3>1
    <3>3. WireFill(k, o)' = IsFill(m, o) /\ wire'[k] = m
      BY <1>8, <3>2
    <3>4. wire'[k].total = total'[o] /\ WireFill(k, o)'
      BY <2>1, <3>3
    <3> QED
      BY <3>4
  <2>2. CASE ~IsFill(m, o)
    <3>1. total'[o] = total[o]
      BY <2>2
    <3>5. CASE env.fails
      BY <3>5
    <3>2. CASE Known(o) = total[o]
      BY <1>4, <3>1, <3>2
    <3>3. CASE \E i \in DOMAIN events : NewFill(i, o) /\ events[i].todo[1].total = total[o]
      BY <1>5, <3>1, <3>3
    <3>4. CASE \E k \in DOMAIN wire : WireFill(k, o) /\ wire[k].total = total[o]
      <4>1. PICK k \in DOMAIN wire : WireFill(k, o) /\ wire[k].total = total[o]
        BY <3>4
      <4>2. k \in DOMAIN wire' /\ wire'[k] = wire[k]
        BY <1>1
      <4> QED
        BY <3>1, <4>1, <4>2 DEF WireFill, IsFill
    <3> QED
      BY <1>2, <3>2, <3>3, <3>4, <3>5 DEF Ascending
  <2> QED
    BY <2>1, <2>2
<1>18. Ascending(o)'
  BY <1>10, <1>11, <1>12, <1>13, <1>14, <1>15, <1>16, <1>17 DEF Ascending, IsFill
<1> QED
  BY <1>9, <1>18 DEF InOrder

(* A message becomes a task.                                               *)
LEMMA EventKeepsOrder ==
  ASSUME GatewayAssumption, GatewayTypes, NEW o \in Orders, ReportedOnce(o), InOrder(o),
         EventArrives, ~env.batches
  PROVE  InOrder(o)'
<1> DEFINE m == wire[1]
           last == Len(events) + 1
<1>1. 1 \in DOMAIN wire /\ Len(wire) \in Nat /\ DOMAIN wire = 1..Len(wire)
  <2>1. PICK n \in 1..Len(wire) : TRUE
    BY EventIs
  <2>2. Len(wire) \in Nat /\ DOMAIN wire = 1..Len(wire)
    BY DEF GatewayTypes
  <2> QED
    BY <2>1, <2>2
<1>2. /\ events' = Append(events, [todo |-> SubSeq(wire, 1, 1), phase |-> "new", qty |-> 0])
      /\ wire' = SubSeq(wire, 1 + 1, Len(wire))
  BY EventIs
<1>3. UNCHANGED <<total, fillsSeen, counted, dones, env>>
  BY DEF EventArrives, fills
<1>4. /\ wire \in Seq(Message) /\ wire' \in Seq(Message)
      /\ Len(wire') = Len(wire) - 1
      /\ \A k \in 1..(Len(wire) - 1) : wire'[k] = wire[k + 1]
  BY <1>1, <1>2, Suffix DEF GatewayTypes
<1>5. ASSUME NEW k \in DOMAIN wire'
      PROVE  k + 1 \in DOMAIN wire /\ wire'[k] = wire[k + 1] /\ WireFill(k, o)' = WireFill(k + 1, o)
  <2>1. k + 1 \in DOMAIN wire /\ wire'[k] = wire[k + 1]
    BY <1>1, <1>4
  <2> QED
    BY <2>1 DEF WireFill, IsFill
<1>6. SubSeq(wire, 1, 1)[1] = m
  BY <1>1, <1>4
<1>7. /\ Len(events) \in Nat /\ DOMAIN events = 1..Len(events)
      /\ Len(events') = last /\ DOMAIN events' = 1..last
      /\ \A i \in 1..Len(events) : events'[i] = events[i]
      /\ events'[last] = [todo |-> SubSeq(wire, 1, 1), phase |-> "new", qty |-> 0]
  BY <1>2 DEF GatewayTypes
<1>8. events'[last].todo[1] = m /\ events'[last].phase = "new"
  BY <1>6, <1>7
<1> HIDE DEF m
<1>9. ASSUME NEW i \in DOMAIN events'
      PROVE  \/ i \in DOMAIN events /\ events'[i] = events[i] /\ NewFill(i, o)' = NewFill(i, o)
             \/ i = last /\ NewFill(i, o)' = WireFill(1, o) /\ events'[i].todo[1] = m
  <2>1. CASE i \in DOMAIN events
    BY <1>7, <2>1 DEF NewFill, IsFill
  <2>2. CASE i = last
    BY <1>1, <1>8, <2>2 DEF NewFill, WireFill, IsFill, m
  <2> QED
    BY <1>7, <2>1, <2>2
<1>10. last \notin DOMAIN events /\ \A i \in DOMAIN events : i < last /\ i \in Nat /\ i \in DOMAIN events'
  BY <1>7
<1>11. Known(o)' = Known(o)
  BY <1>3 DEF Known
<1>12. Ascending(o) /\ Known(o) \in Nat /\ total[o] \in Nat
  BY KnownWithin DEF InOrder
<1>13. ASSUME NEW i \in DOMAIN events', NEW j \in DOMAIN events',
              NewFill(i, o)', NewFill(j, o)', i < j
       PROVE  events'[i].todo[1].total <= events'[j].todo[1].total
  <2>1. i \in DOMAIN events
    BY <1>9, <1>10, <1>13, <1>7
  <2> QED
    BY <1>1, <1>9, <1>10, <1>12, <1>13, <2>1 DEF Ascending, m
<1>14. ASSUME NEW i \in DOMAIN events', NEW k \in DOMAIN wire', NewFill(i, o)', WireFill(k, o)'
       PROVE  events'[i].todo[1].total <= wire'[k].total
  <2>1. k + 1 \in DOMAIN wire /\ wire'[k] = wire[k + 1] /\ WireFill(k + 1, o) /\ 1 < k + 1
    BY <1>4, <1>5, <1>14
  <2> QED
    BY <1>1, <1>9, <1>10, <1>12, <1>14, <2>1 DEF Ascending, m
<1>15. ASSUME NEW j \in DOMAIN wire', NEW k \in DOMAIN wire',
              WireFill(j, o)', WireFill(k, o)', j < k
       PROVE  wire'[j].total <= wire'[k].total
  <2>1. j + 1 < k + 1
    BY <1>4, <1>15
  <2> QED
    BY <1>5, <1>12, <1>15, <2>1 DEF Ascending
<1>16. ASSUME NEW i \in DOMAIN events', NewFill(i, o)'
       PROVE  events'[i].todo[1].total \in Known(o)'..total'[o]
  BY <1>1, <1>3, <1>9, <1>10, <1>11, <1>12, <1>16 DEF Ascending, m
<1>17. ASSUME NEW k \in DOMAIN wire', WireFill(k, o)'
       PROVE  wire'[k].total \in Known(o)'..total'[o]
  BY <1>3, <1>5, <1>11, <1>12, <1>17 DEF Ascending
<1>18. ASSUME NEW i \in DOMAIN events', events'[i].phase # "new", IsFill(events'[i].todo[1], o)
       PROVE  events'[i].todo[1].total <= Known(o)'
  BY <1>8, <1>9, <1>11, <1>12, <1>18 DEF Ascending
<1>19. \/ env'.fails
       \/ Known(o)' = total'[o]
       \/ \E i \in DOMAIN events' : NewFill(i, o)' /\ events'[i].todo[1].total = total'[o]
       \/ \E k \in DOMAIN wire' : WireFill(k, o)' /\ wire'[k].total = total'[o]
  <2>4. CASE env.fails
    BY <1>3, <2>4
  <2>1. CASE Known(o) = total[o]
    BY <1>3, <1>11, <2>1
  <2>2. CASE \E i \in DOMAIN events : NewFill(i, o) /\ events[i].todo[1].total = total[o]
    <3>1. PICK i \in DOMAIN events : NewFill(i, o) /\ events[i].todo[1].total = total[o]
      BY <2>2
    <3>2. i \in DOMAIN events' /\ events'[i] = events[i] /\ NewFill(i, o)'
      BY <1>9, <1>10, <3>1
    <3> QED
      BY <1>3, <3>1, <3>2
  <2>3. CASE \E k \in DOMAIN wire : WireFill(k, o) /\ wire[k].total = total[o]
    <3>1. PICK k \in DOMAIN wire : WireFill(k, o) /\ wire[k].total = total[o]
      BY <2>3
    <3>2. CASE k = 1
      <4>1. PICK i \in DOMAIN events' : i = last
        BY <1>7
      <4>2. NewFill(i, o)' /\ events'[i].todo[1] = m
        BY <1>9, <1>10, <3>1, <3>2, <4>1
      <4> QED
        BY <1>3, <3>1, <3>2, <4>2 DEF m
    <3>3. CASE k # 1
      <4>1. PICK j \in DOMAIN wire' : k = j + 1
        <5>1. k - 1 \in 1..(Len(wire) - 1)
          BY <1>1, <3>3
        <5>2. k - 1 \in DOMAIN wire' /\ k = (k - 1) + 1
          BY <1>1, <1>4, <5>1
        <5> QED
          BY <5>2
      <4>2. WireFill(j, o)' /\ wire'[j] = wire[k]
        BY <1>5, <3>1, <4>1
      <4> QED
        BY <1>3, <3>1, <4>2
    <3> QED
      BY <3>2, <3>3
  <2> QED
    BY <1>12, <2>1, <2>2, <2>3, <2>4 DEF Ascending
<1>20. Ascending(o)'
  BY <1>3, <1>12, <1>13, <1>14, <1>15, <1>16, <1>17, <1>18, <1>19 DEF Ascending, IsFill
<1>21. \E path : AddsUp(o, path)'
  <2>1. PICK path : AddsUp(o, path)
    BY DEF InOrder
  <2>8. PICK longer : longer = [i \in 0..last |-> IF i = last THEN path[Len(events)] ELSE path[i]]
    OBVIOUS
  <2>2. /\ path \in [0..Len(events) -> Int] /\ path[0] = counted[o]
        /\ \A i \in 1..Len(events) : path[i] = path[i - 1] + Due(i, o)
        /\ \A i, j \in 0..Len(events) : i <= j => path[i] <= path[j]
        /\ path[Len(events)] <= Known(o)
        /\ ~env.fails => path[Len(events)] = Known(o)
    BY <2>1 DEF AddsUp
  <2>3. /\ longer \in [0..last -> Int]
        /\ longer[last] = path[Len(events)]
        /\ \A i \in 0..Len(events) : longer[i] = path[i]
        /\ Len(events) \in 0..Len(events) /\ 0 \in 0..Len(events)
    BY <1>7, <2>2, <2>8
  <2>4. ASSUME NEW i \in 1..last PROVE longer[i] = longer[i - 1] + Due(i, o)'
    <3>1. CASE i = last
      <4>1. Due(i, o)' = 0
        BY <1>8, <3>1 DEF Due
      <4>2. i - 1 = Len(events) /\ longer[i - 1] \in Int
        BY <1>7, <2>3, <3>1
      <4> QED
        BY <2>3, <3>1, <4>1, <4>2
    <3>2. CASE i # last
      <4>1. i \in DOMAIN events /\ i \in 1..Len(events) /\ i - 1 \in 0..Len(events) /\ i \in 0..Len(events)
        BY <1>7, <3>2
      <4>2. Due(i, o)' = Due(i, o)
        BY <1>7, <4>1 DEF Due
      <4> QED
        BY <2>2, <2>3, <4>1, <4>2
    <3> QED
      BY <3>1, <3>2
  <2>5. ASSUME NEW i \in 0..last, NEW j \in 0..last, i <= j PROVE longer[i] <= longer[j]
    <3>1. i = last \/ i \in 0..Len(events)
      BY <1>7
    <3>2. j = last \/ j \in 0..Len(events)
      BY <1>7
    <3>3. i = last => j = last
      BY <1>7, <2>5
    <3> HIDE DEF last
    <3> QED
      BY <1>7, <2>2, <2>3, <2>5, <3>1, <3>2, <3>3
  <2>6. longer[0] = counted'[o] /\ longer[last] <= Known(o)' /\ (~env'.fails => longer[last] = Known(o)')
    BY <1>3, <1>11, <2>2, <2>3
  <2> HIDE DEF last
  <2>7. AddsUp(o, longer)'
    <3>1. Len(events') = last
      BY <1>7
    <3>2. \A i \in 1..Len(events') : longer[i] = longer[i - 1] + Due(i, o)'
      BY <2>4, <3>1
    <3>3. \A i, j \in 0..Len(events') : i <= j => longer[i] <= longer[j]
      BY <2>5, <3>1
    <3> QED
      BY <2>3, <2>6, <3>1, <3>2, <3>3 DEF AddsUp
  <2> QED
    BY <2>7
<1> QED
  BY <1>20, <1>21 DEF InOrder

(* A task is gone, published or not.                                       *)
LEMMA RemovalKeepsOrder ==
  ASSUME GatewayAssumption, GatewayTypes, NEW o \in Orders, ReportedOnce(o), InOrder(o),
         NEW e \in DOMAIN events, events' = RemoveAt(events, e),
         UNCHANGED <<total, wire, counted, dones, env>>,
         Known(o)' = Known(o), fillsSeen'[o] <= total[o],
         env.fails \/ (events[e].phase # "new" /\ Due(e, o) = 0)
  PROVE  InOrder(o)'
<1>1. /\ events \in Seq(Task) /\ Len(events) \in Nat
      /\ DOMAIN events = 1..Len(events) /\ e \in 1..Len(events)
  BY DEF GatewayTypes
<1>2. /\ events' \in Seq(Task) /\ Len(events') = Len(events) - 1
      /\ \A d \in 1..(Len(events) - 1) :
           events'[d] = IF d < e THEN events[d] ELSE events[d + 1]
      /\ DOMAIN events' = 1..(Len(events) - 1)
  <2>1. /\ events' \in Seq(Task) /\ Len(events') = Len(events) - 1
        /\ \A d \in 1..(Len(events) - 1) :
             events'[d] = IF d < e THEN events[d] ELSE events[d + 1]
    BY <1>1, Removed
  <2> QED
    BY <2>1
<1>3. Ascending(o) /\ \E path : AddsUp(o, path)
  BY DEF InOrder
(* Which task it was, in the old order.                                    *)
<1>4. PICK was : was = [d \in 1..(Len(events) - 1) |-> IF d < e THEN d ELSE d + 1]
  OBVIOUS
<1>5. ASSUME NEW d \in DOMAIN events'
      PROVE  /\ was[d] \in DOMAIN events /\ events'[d] = events[was[d]]
             /\ NewFill(d, o)' = NewFill(was[d], o)
             /\ Due(d, o)' = Due(was[d], o)
  <2>1. was[d] \in DOMAIN events /\ events'[d] = events[was[d]]
    BY <1>1, <1>2, <1>4
  <2> QED
    BY <2>1 DEF NewFill, IsFill, Due
<1>6. \A i, j \in DOMAIN events' : i < j => was[i] < was[j]
  BY <1>1, <1>2, <1>4
<1>7. \A i \in DOMAIN events : i # e => \E d \in DOMAIN events' : was[d] = i
  <2>1. ASSUME NEW i \in DOMAIN events, i # e PROVE \E d \in DOMAIN events' : was[d] = i
    <3>1. CASE i < e
      <4>1. i \in DOMAIN events' /\ was[i] = i
        BY <1>1, <1>2, <1>4, <3>1
      <4> QED
        BY <4>1
    <3>2. CASE ~(i < e)
      <4>1. i - 1 \in DOMAIN events' /\ was[i - 1] = i
        BY <1>1, <1>2, <1>4, <2>1, <3>2
      <4> QED
        BY <4>1
    <3> QED
      BY <3>1, <3>2
  <2> QED
    BY <2>1
<1>8. env.fails \/ ~NewFill(e, o)
  BY DEF NewFill
<1>9. ASSUME NEW i \in DOMAIN events', NEW j \in DOMAIN events',
             NewFill(i, o)', NewFill(j, o)', i < j
      PROVE  events'[i].todo[1].total <= events'[j].todo[1].total
  BY <1>3, <1>5, <1>6, <1>9 DEF Ascending
<1>10. ASSUME NEW i \in DOMAIN events', NEW k \in DOMAIN wire', NewFill(i, o)', WireFill(k, o)'
       PROVE  events'[i].todo[1].total <= wire'[k].total
  BY <1>3, <1>5, <1>10 DEF Ascending, WireFill, IsFill
<1>11. ASSUME NEW i \in DOMAIN events', NewFill(i, o)'
       PROVE  events'[i].todo[1].total \in Known(o)'..total'[o]
  BY <1>3, <1>5, <1>11 DEF Ascending
<1>12. ASSUME NEW i \in DOMAIN events', events'[i].phase # "new", IsFill(events'[i].todo[1], o)
       PROVE  events'[i].todo[1].total <= Known(o)'
  BY <1>3, <1>5, <1>12 DEF Ascending
<1>13. \/ env'.fails
       \/ Known(o)' = total'[o]
       \/ \E i \in DOMAIN events' : NewFill(i, o)' /\ events'[i].todo[1].total = total'[o]
       \/ \E k \in DOMAIN wire' : WireFill(k, o)' /\ wire'[k].total = total'[o]
  <2>4. CASE env.fails
    BY <2>4
  <2>1. CASE Known(o) = total[o]
    BY <2>1
  <2>2. CASE /\ ~env.fails
             /\ \E i \in DOMAIN events : NewFill(i, o) /\ events[i].todo[1].total = total[o]
    <3>1. PICK i \in DOMAIN events : NewFill(i, o) /\ events[i].todo[1].total = total[o]
      BY <2>2
    <3>2. PICK d \in DOMAIN events' : was[d] = i
      BY <1>7, <1>8, <2>2, <3>1
    <3> QED
      BY <1>5, <3>1, <3>2
  <2>3. CASE \E k \in DOMAIN wire : WireFill(k, o) /\ wire[k].total = total[o]
    BY <2>3 DEF WireFill, IsFill
  <2> QED
    BY <1>3, <2>1, <2>2, <2>3, <2>4 DEF Ascending
<1>14. /\ \A j, k \in DOMAIN wire' :
            WireFill(j, o)' /\ WireFill(k, o)' /\ j < k => wire'[j].total <= wire'[k].total
       /\ \A k \in DOMAIN wire' : WireFill(k, o)' => wire'[k].total \in Known(o)'..total'[o]
  BY <1>3 DEF Ascending, WireFill, IsFill
<1>15. Ascending(o)'
  BY <1>9, <1>10, <1>11, <1>12, <1>13, <1>14 DEF Ascending, IsFill
<1>16. \E path : AddsUp(o, path)'
  <2>1. PICK path : AddsUp(o, path)
    BY <1>3
  <2>2. /\ path \in [0..Len(events) -> Int] /\ path[0] = counted[o]
        /\ \A i \in 1..Len(events) : path[i] = path[i - 1] + Due(i, o)
        /\ \A i, j \in 0..Len(events) : i <= j => path[i] <= path[j]
        /\ path[Len(events)] <= Known(o)
        /\ ~env.fails => path[Len(events)] = Known(o)
    BY <2>1 DEF AddsUp
  <2>3. PICK less : less = path[e] - path[e - 1]
    OBVIOUS
  <2>4. less \in Int /\ less >= 0 /\ less = Due(e, o) /\ path[e] = path[e - 1] + less
    <3>1. e - 1 \in 0..Len(events) /\ e \in 0..Len(events) /\ e - 1 <= e
      BY <1>1
    <3>2. path[e - 1] \in Int /\ path[e] \in Int /\ path[e - 1] <= path[e]
      BY <2>2, <3>1
    <3>3. path[e] = path[e - 1] + Due(e, o) /\ Due(e, o) \in Int
      <4>1. Due(e, o) \in Int
        BY TaskTyped DEF Due, GatewayAssumption
      <4> QED
        BY <1>1, <2>2, <4>1
    <3> QED
      BY <2>3, <3>2, <3>3
  <2>5. PICK shorter : shorter = [i \in 0..(Len(events) - 1) |->
                                    IF i < e THEN path[i] ELSE path[i + 1] - less]
    OBVIOUS
  <2>6. shorter \in [0..(Len(events) - 1) -> Int] /\ shorter[0] = counted'[o]
    <3>1. \A i \in 0..(Len(events) - 1) : i \in 0..Len(events) /\ i + 1 \in 0..Len(events)
      BY <1>1
    <3>2. 0 \in 0..(Len(events) - 1) /\ 0 < e
      BY <1>1
    <3> QED
      BY <2>2, <2>4, <2>5, <3>1, <3>2
  <2>7. ASSUME NEW i \in 1..(Len(events) - 1)
        PROVE  shorter[i] = shorter[i - 1] + Due(i, o)'
    <3>1. i \in DOMAIN events' /\ i \in 0..(Len(events) - 1) /\ i - 1 \in 0..(Len(events) - 1)
      BY <1>2
    <3>2. Due(i, o)' = Due(was[i], o)
      BY <1>5, <3>1
    <3>3. CASE i < e
      <4>1. was[i] = i /\ shorter[i] = path[i] /\ shorter[i - 1] = path[i - 1]
        BY <1>1, <1>4, <2>5, <3>1, <3>3
      <4> QED
        BY <1>1, <2>2, <3>2, <4>1
    <3>4. CASE i = e
      <4>1. was[i] = i + 1 /\ shorter[i] = path[i + 1] - less /\ shorter[i - 1] = path[i - 1]
        BY <1>1, <1>4, <2>5, <3>1, <3>4
      <4>2. i + 1 \in 1..Len(events) /\ i \in 0..Len(events) /\ (i + 1) - 1 = i
        BY <1>1
      <4>3. path[i + 1] = path[i] + Due(i + 1, o) /\ Due(i + 1, o) \in Int
        <5>1. Due(i + 1, o) \in Int
          BY <1>1, <4>2, TaskTyped DEF Due, GatewayAssumption
        <5> QED
          BY <2>2, <4>2, <5>1
      <4>4. path[i - 1] \in Int
        BY <1>1, <2>2, <3>4
      <4> QED
        BY <2>4, <3>2, <3>4, <4>1, <4>3, <4>4
    <3>5. CASE i > e
      <4>1. ~(i < e) /\ ~(i - 1 < e) /\ (i - 1) + 1 = i /\ i \in Int /\ e \in Int
        BY <1>1, <3>5
      <4>2. was[i] = i + 1 /\ shorter[i] = path[i + 1] - less /\ shorter[i - 1] = path[i] - less
        BY <1>4, <2>5, <3>1, <4>1
      <4>3. i + 1 \in 1..Len(events) /\ i \in 0..Len(events) /\ (i + 1) - 1 = i
        BY <1>1
      <4>4. path[i + 1] = path[i] + Due(i + 1, o) /\ Due(i + 1, o) \in Int /\ path[i] \in Int
        <5>1. Due(i + 1, o) \in Int
          BY <1>1, <4>3, TaskTyped DEF Due, GatewayAssumption
        <5> QED
          BY <2>2, <4>3, <5>1
      <4> QED
        BY <2>4, <3>2, <4>2, <4>4
    <3> QED
      BY <1>1, <3>3, <3>4, <3>5
  <2>8. ASSUME NEW i \in 0..(Len(events) - 1), NEW j \in 0..(Len(events) - 1), i <= j
        PROVE  shorter[i] <= shorter[j]
    <3>1. /\ i \in 0..Len(events) /\ j \in 0..Len(events)
          /\ i + 1 \in 0..Len(events) /\ j + 1 \in 0..Len(events)
          /\ e \in 0..Len(events) /\ e - 1 \in 0..Len(events)
      BY <1>1
    <3>2. \A k \in 0..Len(events) : path[k] \in Int
      BY <2>2
    <3>3. CASE i < e /\ j < e
      BY <2>2, <2>5, <2>8, <3>1, <3>3
    <3>4. CASE i < e /\ ~(j < e)
      <4>1. path[i] <= path[e - 1] /\ path[e] <= path[j + 1]
        BY <1>1, <2>2, <3>1, <3>4
      <4>2. shorter[i] = path[i] /\ shorter[j] = path[j + 1] - less
        BY <2>5, <3>4
      <4>3. path[i] \in Int /\ path[e - 1] \in Int /\ path[e] \in Int /\ path[j + 1] \in Int
        BY <3>1, <3>2
      <4> QED
        BY <2>4, <4>1, <4>2, <4>3
    <3>5. CASE ~(i < e)
      <4>1. ~(j < e) /\ path[i + 1] <= path[j + 1]
        BY <1>1, <2>2, <2>8, <3>1, <3>5
      <4> QED
        BY <2>4, <2>5, <3>1, <3>2, <3>5, <4>1
    <3> QED
      BY <3>3, <3>4, <3>5
  <2>9. /\ shorter[Len(events) - 1] <= Known(o)'
        /\ ~env'.fails => shorter[Len(events) - 1] = Known(o)'
    <3>1. Len(events) - 1 \in 0..(Len(events) - 1) /\ Len(events) \in 0..Len(events)
          /\ path[Len(events)] \in Int /\ Known(o) \in Nat
      BY <1>1, <1>3, <2>2, KnownWithin
    <3>2. CASE Len(events) = e
      <4>1. shorter[Len(events) - 1] = path[e - 1] /\ path[e - 1] \in Int
        BY <1>1, <2>2, <2>5, <3>1, <3>2
      <4> QED
        BY <2>2, <2>4, <3>1, <3>2, <4>1
    <3>3. CASE Len(events) # e
      <4>1. ~(Len(events) - 1 < e) /\ (Len(events) - 1) + 1 = Len(events)
        BY <1>1, <3>3
      <4>2. shorter[Len(events) - 1] = path[Len(events)] - less
        BY <2>5, <3>1, <4>1
      <4> QED
        BY <2>2, <2>4, <3>1, <4>2
    <3> QED
      BY <3>2, <3>3
  <2>10. AddsUp(o, shorter)'
    <3>1. Len(events') = Len(events) - 1
      BY <1>2
    <3>2. \A i \in 1..Len(events') : shorter[i] = shorter[i - 1] + Due(i, o)'
      BY <2>7, <3>1
    <3>3. \A i, j \in 0..Len(events') : i <= j => shorter[i] <= shorter[j]
      BY <2>8, <3>1
    <3> QED
      BY <2>6, <2>9, <3>1, <3>2, <3>3 DEF AddsUp
  <2> QED
    BY <2>10
<1> QED
  BY <1>15, <1>16 DEF InOrder

(* A task starts: it is the first that has not, and what it saw last is    *)
(* what the gateway knows.                                                 *)
LEMMA StartKeepsOrder ==
  ASSUME GatewayAssumption, GatewayTypes, NEW o \in Orders, ReportedOnce(o), InOrder(o),
         OneByOne, NEW e \in DOMAIN events, TaskStarts(e)
  PROVE  InOrder(o)'
<1> DEFINE m == events[e].todo[1]
<1>1. /\ events \in Seq(Task) /\ Len(events) \in Nat
      /\ DOMAIN events = 1..Len(events) /\ e \in 1..Len(events)
  BY DEF GatewayTypes
<1>2. /\ events[e].phase = "new" /\ \A d \in 1..(e - 1) : events[d].phase # "new"
      /\ Advance(e, events[e].todo, fillsSeen)
      /\ UNCHANGED <<total, wire, counted, dones, env>>
  BY DEF TaskStarts, venue, fills
<1>3. /\ events[e].todo \in Seq(Message) /\ events[e].todo # <<>>
      /\ m = Head(events[e].todo) /\ m \in Message /\ 1 \in DOMAIN events[e].todo
  BY TaskTyped
<1>4. m.order \in Orders /\ m.total \in 0..Amount /\ (IsDone(m) => m.kind = "fill" /\ m.total = Amount)
  BY <1>3, MessageTyped
<1>5. /\ Ascending(o) /\ Known(o) \in Nat /\ total[o] \in Nat /\ fillsSeen[o] \in Nat
      /\ Known(o) <= total[o] /\ total[o] <= Amount
  BY KnownWithin DEF InOrder
<1>6. PICK q \in 0..Amount :
        /\ events' = [events EXCEPT ![e] =
                        [todo |-> events[e].todo, phase |-> "publish", qty |-> q]]
        /\ IF m.kind = "fill"
             THEN /\ q = (IF m.total >= fillsSeen[m.order] THEN m.total - fillsSeen[m.order] ELSE 0)
                  /\ fillsSeen' = [fillsSeen EXCEPT ![m.order] = m.total]
             ELSE q = 0 /\ fillsSeen' = fillsSeen
  <2>1. fillsSeen \in [Orders -> 0..Amount]
    BY DEF GatewayTypes
  <2> HIDE DEF m
  <2>2. \E q \in 0..Amount :
          /\ events' = [events EXCEPT ![e] =
                          [todo |-> events[e].todo, phase |-> "publish", qty |-> q]]
          /\ IF m.kind = "fill"
               THEN /\ q = (IF m.total >= fillsSeen[m.order] THEN m.total - fillsSeen[m.order] ELSE 0)
                    /\ fillsSeen' = [fillsSeen EXCEPT ![m.order] = m.total]
               ELSE q = 0 /\ fillsSeen' = fillsSeen
    BY <1>2, <1>3, <2>1, Advanced
  <2> QED
    BY <2>2
<1>7. /\ DOMAIN events' = DOMAIN events /\ Len(events') = Len(events)
      /\ \A i \in DOMAIN events : events'[i].todo = events[i].todo
      /\ \A i \in DOMAIN events : i # e => events'[i] = events[i]
      /\ events'[e].phase = "publish" /\ events'[e].qty = q
  BY <1>1, <1>6
<1> HIDE DEF m
(* What becomes known, and what is due.                                    *)
<1>8. /\ ~NewFill(e, o)'
      /\ \A i \in DOMAIN events : i # e => NewFill(i, o)' = NewFill(i, o) /\ Due(i, o)' = Due(i, o)
      /\ Due(e, o) = 0 /\ Due(e, o)' = (IF m.order = o THEN q ELSE 0)
  BY <1>2, <1>7 DEF NewFill, Due, IsFill, m
<1>9. IF IsFill(m, o) THEN /\ NewFill(e, o) /\ Known(o) <= m.total /\ m.total <= total[o]
                           /\ Known(o) = fillsSeen[o] /\ Known(o)' = m.total
                           /\ fillsSeen'[o] = m.total
                           /\ Due(e, o)' = m.total - Known(o)
      ELSE ~NewFill(e, o) /\ Known(o)' = Known(o) /\ fillsSeen'[o] = fillsSeen[o] /\ Due(e, o)' = 0
  <2>1. CASE IsFill(m, o)
    <3>1. NewFill(e, o)
      BY <1>2, <2>1 DEF NewFill, m
    <3>2. Known(o) <= m.total /\ m.total <= total[o]
      BY <1>5, <3>1 DEF Ascending, m
    <3>3. dones[o] = 0
      <4>1. CASE dones[o] = 1
        <5>1. m.total = Amount /\ Amount \in Nat
          BY <1>4, <1>5, <3>2, <4>1 DEF Known, GatewayAssumption
        <5>2. Completes(m, o)
          BY <2>1, <5>1 DEF Completes, IsDone, IsFill
        <5>3. Unreported(e, 1, o) /\ e \in Nat
          BY <1>1, <1>2, <1>3, <5>2 DEF Unreported, m
        <5> QED
          BY <4>1, <5>3 DEF ReportedOnce, AllReported
      <4> QED
        BY <4>1 DEF ReportedOnce
    <3>4. Known(o) = fillsSeen[o]
      BY <3>3 DEF Known
    <3>5. fillsSeen'[o] = m.total /\ q = m.total - fillsSeen[o]
      BY <1>4, <1>5, <1>6, <2>1, <3>2, <3>4 DEF IsFill, GatewayTypes
    <3>6. Known(o)' = m.total
      BY <1>2, <3>3, <3>5 DEF Known
    <3> QED
      BY <1>8, <2>1, <3>1, <3>2, <3>4, <3>5, <3>6 DEF IsFill
  <2>2. CASE ~IsFill(m, o)
    <3>1. ~NewFill(e, o)
      BY <2>2 DEF NewFill, m
    <3>2. fillsSeen'[o] = fillsSeen[o]
      BY <1>4, <1>6, <2>2 DEF IsFill, GatewayTypes
    <3>3. Due(e, o)' = 0
      BY <1>6, <1>8, <2>2 DEF IsFill
    <3> QED
      BY <1>2, <2>2, <3>1, <3>2, <3>3 DEF Known
  <2> QED
    BY <2>1, <2>2
<1>10. Known(o)' \in Nat /\ Known(o) <= Known(o)' /\ Known(o)' <= total[o] /\ fillsSeen'[o] <= total[o]
  BY <1>4, <1>5, <1>9 DEF Ascending
<1>11. ASSUME NEW i \in DOMAIN events, NewFill(i, o)'
       PROVE  /\ NewFill(i, o) /\ i # e /\ events'[i].todo[1] = events[i].todo[1]
              /\ events[i].todo[1].total \in Known(o)'..total[o]
  <2>1. NewFill(i, o) /\ i # e /\ events'[i].todo[1] = events[i].todo[1]
    BY <1>7, <1>8, <1>11
  <2>2. events[i].todo[1].total \in Known(o)..total[o]
    BY <1>5, <2>1 DEF Ascending
  <2>3. ~(i < e)
    BY <1>1, <1>2, <2>1 DEF NewFill
  <2>4. IsFill(m, o) => m.total <= events[i].todo[1].total
    BY <1>1, <1>5, <1>9, <2>1, <2>3 DEF Ascending, m
  <2> QED
    BY <1>4, <1>5, <1>9, <2>1, <2>2, <2>4
<1>12. ASSUME NEW k \in DOMAIN wire, WireFill(k, o)
       PROVE  wire[k].total \in Known(o)'..total[o]
  <2>1. wire[k].total \in Known(o)..total[o]
    BY <1>5, <1>12 DEF Ascending
  <2>2. IsFill(m, o) => m.total <= wire[k].total
    BY <1>5, <1>9, <1>12 DEF Ascending, m
  <2> QED
    BY <1>4, <1>5, <1>9, <2>1, <2>2
<1>13. ASSUME NEW i \in DOMAIN events, events'[i].phase # "new", IsFill(events'[i].todo[1], o)
       PROVE  events'[i].todo[1].total <= Known(o)'
  <2>1. CASE i = e
    BY <1>4, <1>7, <1>9, <1>13, <2>1 DEF m
  <2>2. CASE i # e
    <3>1. events[i].todo[1].total <= Known(o) /\ events'[i] = events[i]
      BY <1>5, <1>7, <1>13, <2>2 DEF Ascending
    <3>2. events[i].todo[1].total \in Int
      BY TaskTyped, MessageTyped
    <3> QED
      BY <1>5, <1>10, <3>1, <3>2
  <2> QED
    BY <2>1, <2>2
<1>14. \A k : WireFill(k, o)' = WireFill(k, o)
  BY <1>2 DEF WireFill, IsFill
<1>15. \/ env'.fails
       \/ Known(o)' = total'[o]
       \/ \E i \in DOMAIN events' : NewFill(i, o)' /\ events'[i].todo[1].total = total'[o]
       \/ \E k \in DOMAIN wire' : WireFill(k, o)' /\ wire'[k].total = total'[o]
  <2>4. CASE env.fails
    BY <1>2, <2>4
  <2>1. CASE Known(o) = total[o]
    BY <1>2, <1>5, <1>10, <2>1
  <2>2. CASE \E i \in DOMAIN events : NewFill(i, o) /\ events[i].todo[1].total = total[o]
    <3>1. PICK i \in DOMAIN events : NewFill(i, o) /\ events[i].todo[1].total = total[o]
      BY <2>2
    <3>2. CASE i = e
      BY <1>2, <1>9, <3>1, <3>2 DEF m
    <3>3. CASE i # e
      <4>1. NewFill(i, o)' /\ events'[i].todo[1].total = total'[o] /\ i \in DOMAIN events'
        BY <1>2, <1>7, <1>8, <3>1, <3>3
      <4> QED
        BY <4>1
    <3> QED
      BY <3>2, <3>3
  <2>3. CASE \E k \in DOMAIN wire : WireFill(k, o) /\ wire[k].total = total[o]
    BY <1>2, <1>14, <2>3
  <2> QED
    BY <1>5, <2>1, <2>2, <2>3, <2>4 DEF Ascending
<1>16. ASSUME NEW i \in DOMAIN events, NEW j \in DOMAIN events,
              NewFill(i, o)', NewFill(j, o)', i < j
       PROVE  events'[i].todo[1].total <= events'[j].todo[1].total
  BY <1>5, <1>11, <1>16 DEF Ascending
<1>17. ASSUME NEW i \in DOMAIN events, NEW k \in DOMAIN wire, NewFill(i, o)', WireFill(k, o)
       PROVE  events'[i].todo[1].total <= wire[k].total
  BY <1>5, <1>11, <1>17 DEF Ascending
<1>18. Ascending(o)'
  <2>1. \A j, k \in DOMAIN wire :
          WireFill(j, o) /\ WireFill(k, o) /\ j < k => wire[j].total <= wire[k].total
    BY <1>5 DEF Ascending
  <2>2. \A i \in DOMAIN events : NewFill(i, o)' => events'[i].todo[1].total \in Known(o)'..total[o]
    BY <1>11
  <2> QED
    BY <1>2, <1>7, <1>10, <1>12, <1>13, <1>14, <1>15, <1>16, <1>17, <2>1, <2>2 DEF Ascending, IsFill
<1>19. \E path : AddsUp(o, path)'
  <2>1. PICK path : AddsUp(o, path)
    BY DEF InOrder
  <2>2. /\ path \in [0..Len(events) -> Int] /\ path[0] = counted[o]
        /\ \A i \in 1..Len(events) : path[i] = path[i - 1] + Due(i, o)
        /\ \A i, j \in 0..Len(events) : i <= j => path[i] <= path[j]
        /\ path[Len(events)] <= Known(o)
        /\ ~env.fails => path[Len(events)] = Known(o)
    BY <2>1 DEF AddsUp
  <2>3. PICK more : more = Due(e, o)'
    OBVIOUS
  <2>4. more \in Nat /\ Known(o)' = Known(o) + more
    BY <1>4, <1>5, <1>9, <2>3
  <2>5. PICK higher : higher = [i \in 0..Len(events) |-> IF i < e THEN path[i] ELSE path[i] + more]
    OBVIOUS
  <2>6. \A i \in 0..Len(events) : path[i] \in Int
    BY <2>2
  <2>7. higher \in [0..Len(events) -> Int] /\ higher[0] = counted'[o]
    BY <1>1, <1>2, <2>2, <2>4, <2>5, <2>6
  <2>8. ASSUME NEW i \in 1..Len(events) PROVE higher[i] = higher[i - 1] + Due(i, o)'
    <3>1. /\ i \in 0..Len(events) /\ i - 1 \in 0..Len(events) /\ i \in DOMAIN events
          /\ path[i] \in Int /\ path[i - 1] \in Int
      BY <1>1, <2>6
    <3>2. path[i] = path[i - 1] + Due(i, o) /\ Due(i, o) \in Int
      <4>1. Due(i, o) \in Int
        BY <3>1, TaskTyped DEF Due, GatewayAssumption
      <4> QED
        BY <2>2, <4>1
    <3>3. CASE i < e
      <4>1. higher[i] = path[i] /\ higher[i - 1] = path[i - 1] /\ Due(i, o)' = Due(i, o)
        BY <1>1, <1>8, <2>5, <3>1, <3>3
      <4> QED
        BY <3>2, <4>1
    <3>4. CASE i = e
      <4>1. higher[i] = path[i] + more /\ higher[i - 1] = path[i - 1] /\ Due(i, o)' = more
        BY <1>1, <2>3, <2>5, <3>1, <3>4
      <4> QED
        BY <1>8, <2>4, <3>1, <3>2, <3>4, <4>1
    <3>5. CASE i > e
      <4>1. ~(i < e) /\ ~(i - 1 < e) /\ i # e
        BY <1>1, <3>5
      <4>2. higher[i] = path[i] + more /\ higher[i - 1] = path[i - 1] + more
        BY <2>5, <3>1, <4>1
      <4>3. Due(i, o)' = Due(i, o)
        BY <1>8, <3>1, <4>1
      <4> QED
        BY <2>4, <3>1, <3>2, <4>2, <4>3
    <3> QED
      BY <1>1, <3>3, <3>4, <3>5
  <2>9. ASSUME NEW i \in 0..Len(events), NEW j \in 0..Len(events), i <= j
        PROVE  higher[i] <= higher[j]
    <3>1. path[i] <= path[j] /\ path[i] \in Int /\ path[j] \in Int
      BY <2>2, <2>6, <2>9
    <3>2. j < e => i < e
      BY <1>1, <2>9
    <3> QED
      BY <2>4, <2>5, <3>1, <3>2
  <2>10. /\ higher[Len(events)] <= Known(o)'
         /\ ~env'.fails => higher[Len(events)] = Known(o)'
    <3>1. Len(events) \in 0..Len(events) /\ ~(Len(events) < e) /\ path[Len(events)] \in Int
      BY <1>1, <2>6
    <3>2. higher[Len(events)] = path[Len(events)] + more
      BY <2>5, <3>1
    <3> QED
      BY <1>2, <1>5, <2>2, <2>4, <3>1, <3>2
  <2>11. AddsUp(o, higher)'
    BY <1>7, <2>7, <2>8, <2>9, <2>10 DEF AddsUp
  <2> QED
    BY <2>11
<1> QED
  BY <1>18, <1>19 DEF InOrder

(* What was due is published.                                              *)
LEMMA PublishedKeepsOrder ==
  ASSUME GatewayAssumption, GatewayTypes, NEW o \in Orders, ReportedOnce(o), InOrder(o),
         NEW e \in DOMAIN events, Published(e)
  PROVE  InOrder(o)'
<1> DEFINE m == events[e].todo[1]
<1>1. /\ events \in Seq(Task) /\ Len(events) \in Nat
      /\ DOMAIN events = 1..Len(events) /\ e \in 1..Len(events)
  BY DEF GatewayTypes
<1>2. /\ DOMAIN events' = DOMAIN events /\ Len(events') = Len(events)
      /\ \A d \in DOMAIN events : events'[d].todo = events[d].todo
      /\ \A d \in DOMAIN events : events'[d].qty = events[d].qty
      /\ \A d \in DOMAIN events : d # e => events'[d].phase = events[d].phase
      /\ events'[e].phase = "resume" /\ events[e].phase = "publish"
      /\ UNCHANGED <<total, wire, fillsSeen, env>>
  <2>1. \A d \in DOMAIN events : events[d] \in Task
    BY <1>1
  <2>2. events' = [events EXCEPT ![e].phase = "resume"] /\ events[e].phase = "publish"
    BY DEF Published
  <2>3. UNCHANGED <<total, wire, fillsSeen, env>>
    BY DEF Published, venue
  <2>4. DOMAIN events' = DOMAIN events /\ Len(events') = Len(events)
    BY <1>1, <2>2
  <2>5. ASSUME NEW d \in DOMAIN events, d # e PROVE events'[d] = events[d]
    BY <2>2, <2>5
  <2>6. events'[e] = [events[e] EXCEPT !.phase = "resume"]
    BY <2>2, <2>4
  <2>7. events'[e].todo = events[e].todo /\ events'[e].phase = "resume" /\ events'[e].qty = events[e].qty
    BY <2>1, <2>6 DEF Task
  <2> QED
    BY <2>2, <2>3, <2>4, <2>5, <2>7
<1>3. m = Head(events[e].todo) /\ 1 \in DOMAIN events[e].todo /\ m \in Message
  BY TaskTyped
<1>4. m.order \in Orders /\ o \in DOMAIN dones /\ o \in DOMAIN counted /\ counted[o] \in Nat
  BY <1>3, MessageTyped DEF GatewayTypes
<1>5. /\ dones' = IF IsDone(m) THEN [dones EXCEPT ![m.order] = @ + 1] ELSE dones
      /\ counted' = [counted EXCEPT ![m.order] = @ + events[e].qty]
  BY <1>3 DEF Published
<1>6. /\ Ascending(o) /\ Known(o) \in Nat /\ total[o] \in Nat
      /\ Known(o) <= total[o] /\ total[o] <= Amount
  BY KnownWithin DEF InOrder
<1> HIDE DEF m
<1>7. Known(o)' = Known(o)
  <2>1. CASE Completes(m, o)
    <3>1. IsFill(m, o) /\ m.total = Amount
      BY <1>3, <2>1, MessageTyped DEF Completes, IsFill
    <3>2. Known(o) = Amount
      <4>1. m.total <= Known(o)
        BY <1>2, <1>6, <3>1 DEF Ascending, m
      <4> QED
        BY <1>6, <3>1, <4>1 DEF GatewayAssumption
    <3>3. Unreported(e, 1, o) /\ e \in Nat
      BY <1>1, <1>2, <1>3, <2>1 DEF Unreported, m
    <3>4. dones[o] = 0
      BY <3>3 DEF ReportedOnce, AllReported
    <3>5. dones'[o] = 1
      BY <1>4, <1>5, <2>1, <3>4 DEF Completes
    <3> QED
      BY <3>2, <3>5 DEF Known
  <2>2. CASE ~Completes(m, o)
    <3>1. dones'[o] = dones[o]
      BY <1>4, <1>5, <2>2 DEF Completes
    <3> QED
      BY <1>2, <3>1 DEF Known
  <2> QED
    BY <2>1, <2>2
<1>8. \A i \in DOMAIN events : NewFill(i, o)' = NewFill(i, o)
  BY <1>2 DEF NewFill, IsFill
<1>9. /\ \A i \in DOMAIN events : i # e => Due(i, o)' = Due(i, o)
      /\ Due(e, o)' = 0 /\ Due(e, o) \in Nat /\ counted'[o] = counted[o] + Due(e, o)
  <2>1. \A i \in DOMAIN events : i # e => Due(i, o)' = Due(i, o)
    BY <1>2 DEF Due
  <2>2. Due(e, o)' = 0
    BY <1>2 DEF Due
  <2>3. events[e].qty \in Nat
    BY TaskTyped DEF GatewayAssumption
  <2>4. Due(e, o) = IF m.order = o THEN events[e].qty ELSE 0
    BY <1>2 DEF Due, m
  <2> QED
    BY <1>4, <1>5, <2>1, <2>2, <2>3, <2>4
<1>10. Ascending(o)'
  <2>1. \A i \in DOMAIN events :
          events'[i].phase # "new" /\ IsFill(events'[i].todo[1], o)
            => events[i].phase # "new" /\ IsFill(events[i].todo[1], o)
    BY <1>2 DEF IsFill
  <2>2. \A k : WireFill(k, o)' = WireFill(k, o)
    BY <1>2 DEF WireFill, IsFill
  <2>3. /\ \A i \in DOMAIN events :
             NewFill(i, o) => events'[i].todo[1].total = events[i].todo[1].total
        /\ fillsSeen'[o] <= total'[o]
    BY <1>2, <1>6 DEF Ascending
  <2>4. \A i \in DOMAIN events' :
          events'[i].phase # "new" /\ IsFill(events'[i].todo[1], o)
            => events'[i].todo[1].total <= Known(o)'
    BY <1>2, <1>6, <1>7, <2>1 DEF Ascending, IsFill
  <2>5. \A i, j \in DOMAIN events' :
          NewFill(i, o)' /\ NewFill(j, o)' /\ i < j
            => events'[i].todo[1].total <= events'[j].todo[1].total
    BY <1>2, <1>6, <1>8 DEF Ascending
  <2>6. \A i \in DOMAIN events', k \in DOMAIN wire' :
          NewFill(i, o)' /\ WireFill(k, o)' => events'[i].todo[1].total <= wire'[k].total
    BY <1>2, <1>6, <1>8, <2>2 DEF Ascending
  <2>7. \A j, k \in DOMAIN wire' :
          WireFill(j, o)' /\ WireFill(k, o)' /\ j < k => wire'[j].total <= wire'[k].total
    BY <1>2, <1>6, <2>2 DEF Ascending
  <2>8. /\ \A i \in DOMAIN events' :
             NewFill(i, o)' => events'[i].todo[1].total \in Known(o)'..total'[o]
        /\ \A k \in DOMAIN wire' : WireFill(k, o)' => wire'[k].total \in Known(o)'..total'[o]
    BY <1>2, <1>6, <1>7, <1>8, <2>2 DEF Ascending
  <2>9. \/ env'.fails
        \/ Known(o)' = total'[o]
        \/ \E i \in DOMAIN events' : NewFill(i, o)' /\ events'[i].todo[1].total = total'[o]
        \/ \E k \in DOMAIN wire' : WireFill(k, o)' /\ wire'[k].total = total'[o]
    BY <1>2, <1>6, <1>7, <1>8, <2>2 DEF Ascending
  <2> QED
    BY <2>3, <2>4, <2>5, <2>6, <2>7, <2>8, <2>9 DEF Ascending
<1>11. \E path : AddsUp(o, path)'
  <2>1. PICK path : AddsUp(o, path)
    BY DEF InOrder
  <2>2. /\ path \in [0..Len(events) -> Int] /\ path[0] = counted[o]
        /\ \A i \in 1..Len(events) : path[i] = path[i - 1] + Due(i, o)
        /\ \A i, j \in 0..Len(events) : i <= j => path[i] <= path[j]
        /\ path[Len(events)] <= Known(o)
        /\ ~env.fails => path[Len(events)] = Known(o)
    BY <2>1 DEF AddsUp
  <2>3. PICK more : more = Due(e, o)
    OBVIOUS
  <2>4. more \in Nat
    BY <1>9, <2>3
  <2>5. PICK raised : raised = [i \in 0..Len(events) |-> IF i < e THEN path[i] + more ELSE path[i]]
    OBVIOUS
  <2>6. \A i \in 0..Len(events) : path[i] \in Int
    BY <2>2
  <2>7. raised \in [0..Len(events) -> Int] /\ raised[0] = counted'[o]
    BY <1>1, <1>9, <2>2, <2>3, <2>4, <2>5, <2>6
  <2>8. ASSUME NEW i \in 1..Len(events) PROVE raised[i] = raised[i - 1] + Due(i, o)'
    <3>1. /\ i \in 0..Len(events) /\ i - 1 \in 0..Len(events) /\ i \in DOMAIN events
          /\ path[i] \in Int /\ path[i - 1] \in Int
      BY <1>1, <2>6
    <3>2. path[i] = path[i - 1] + Due(i, o) /\ Due(i, o) \in Int
      <4>1. Due(i, o) \in Int
        BY <3>1, TaskTyped DEF Due, GatewayAssumption
      <4> QED
        BY <2>2, <4>1
    <3>3. CASE i < e
      <4>1. raised[i] = path[i] + more /\ raised[i - 1] = path[i - 1] + more
        BY <1>1, <2>5, <3>1, <3>3
      <4>2. Due(i, o)' = Due(i, o)
        BY <1>1, <1>9, <3>1, <3>3
      <4> QED
        BY <2>4, <3>1, <3>2, <4>1, <4>2
    <3>4. CASE i = e
      <4>1. raised[i] = path[i] /\ raised[i - 1] = path[i - 1] + more /\ Due(i, o)' = 0
        BY <1>1, <1>9, <2>5, <3>1, <3>4
      <4>2. Due(i, o) = more
        BY <2>3, <3>4
      <4> QED
        BY <2>4, <3>1, <3>2, <4>1, <4>2
    <3>5. CASE i > e
      <4>1. ~(i < e) /\ ~(i - 1 < e) /\ i # e
        BY <1>1, <3>5
      <4>2. raised[i] = path[i] /\ raised[i - 1] = path[i - 1] /\ Due(i, o)' = Due(i, o)
        BY <1>9, <2>5, <3>1, <4>1
      <4> QED
        BY <3>1, <3>2, <4>2
    <3> QED
      BY <1>1, <3>3, <3>4, <3>5
  <2>9. ASSUME NEW i \in 0..Len(events), NEW j \in 0..Len(events), i <= j
        PROVE  raised[i] <= raised[j]
    <3>1. path[i] <= path[j] /\ path[i] \in Int /\ path[j] \in Int
      BY <2>2, <2>6, <2>9
    <3>2. CASE i < e /\ ~(j < e)
      <4>1. e - 1 \in 0..Len(events) /\ e \in 0..Len(events) /\ i <= e - 1 /\ e <= j
        BY <1>1, <3>2
      <4>2. path[i] <= path[e - 1] /\ path[e] <= path[j] /\ path[e - 1] \in Int /\ path[e] \in Int
        BY <2>2, <2>6, <4>1
      <4>3. path[e] = path[e - 1] + more
        BY <1>1, <2>2, <2>3
      <4>4. raised[i] = path[i] + more /\ raised[j] = path[j]
        BY <2>5, <3>2
      <4> QED
        BY <2>4, <3>1, <4>2, <4>3, <4>4
    <3>3. CASE ~(i < e /\ ~(j < e))
      <4>1. j < e => i < e
        BY <1>1, <2>9
      <4> QED
        BY <2>4, <2>5, <3>1, <3>3, <4>1
    <3> QED
      BY <3>2, <3>3
  <2>10. raised[Len(events)] = path[Len(events)]
    BY <1>1, <2>5
  <2>11. AddsUp(o, raised)'
    <3>1. /\ raised[Len(events)] <= Known(o)'
          /\ ~env'.fails => raised[Len(events)] = Known(o)'
      BY <1>2, <1>7, <2>2, <2>10
    <3> QED
      BY <1>2, <2>7, <2>8, <2>9, <3>1 DEF AddsUp
  <2> QED
    BY <2>11
<1> QED
  BY <1>10, <1>11 DEF InOrder

-----------------------------------------------------------------------------
GatewayInv ==
  /\ GatewayTypes
  /\ ~env.late => \A o \in Orders : ReportedOnce(o)
  /\ Orderly => OneByOne /\ \A o \in Orders : InOrder(o)

LEMMA InitGateway ==
  ASSUME GatewayAssumption, GatewayInit
  PROVE  GatewayInv
<1> USE DEF GatewayInit
<1>1. GatewayTypes
  <2>1. 0 \in 0..Amount /\ 0 \in Nat
    BY DEF GatewayAssumption
  <2> QED
    BY <2>1 DEF GatewayTypes
<1>2. DOMAIN wire = {} /\ DOMAIN events = {} /\ Len(events) = 0
  OBVIOUS
<1>3. ASSUME NEW o \in Orders PROVE ReportedOnce(o)
  <2>1. AllReported(o)
    BY <1>2 DEF AllReported, Unreported
  <2> QED
    BY <1>2, <2>1 DEF ReportedOnce, AllReported
<1>4. OneByOne
  BY <1>2 DEF OneByOne
<1>5. ASSUME NEW o \in Orders PROVE InOrder(o)
  <2>1. Known(o) = 0 /\ total[o] = 0
    BY DEF Known
  <2>2. Ascending(o)
    BY <1>2, <2>1 DEF Ascending
  <2>3. PICK path : path = [i \in 0..0 |-> 0]
    OBVIOUS
  <2>4. AddsUp(o, path)
    BY <1>2, <2>1, <2>3 DEF AddsUp
  <2> QED
    BY <2>2, <2>4 DEF InOrder
<1> QED
  BY <1>1, <1>3, <1>4, <1>5 DEF GatewayInv

LEMMA VenueSays ==
  ASSUME GatewayAssumption, GatewayTypes, NEW x \in Orders,
         VenueFills(x) \/ VenueRepeats(x) \/ VenueCancels(x)
  PROVE  /\ UNCHANGED <<events, fillsSeen, counted, dones, env, crashes>>
         /\ total' \in [Orders -> 0..Amount]
         /\ \A o \in Orders : total[o] <= total'[o]
         /\ \E m \in Message :
              /\ wire' = Append(wire, m)
              /\ \A o \in Orders :
                   /\ IF IsFill(m, o) THEN m.total = total'[o] ELSE total'[o] = total[o]
                   /\ ~env.late /\ Completes(m, o) => total[o] < Amount /\ total'[o] = Amount
<1>1. /\ total \in [Orders -> 0..Amount] /\ Amount \in Nat
      /\ \A o \in Orders : total[o] \in 0..Amount /\ total[o] \in Int
  BY DEF GatewayTypes, GatewayAssumption
<1>2. UNCHANGED <<events, fillsSeen, counted, dones, env, crashes>>
  BY DEF VenueFills, VenueRepeats, VenueCancels, gateway, fills
<1>3. CASE VenueFills(x)
  <2>1. PICK q \in 1..(Amount - total[x]) :
          /\ total' = [total EXCEPT ![x] = total[x] + q]
          /\ wire' = Append(wire, [order |-> x, kind |-> "fill", total |-> total[x] + q])
    BY <1>3 DEF VenueFills, Say
  <2>2. q \in Int /\ q >= 1 /\ total[x] + q \in 0..Amount
    BY <1>1
  <2>3. PICK m : m = [order |-> x, kind |-> "fill", total |-> total[x] + q]
    OBVIOUS
  <2>4. m \in Message /\ m.order = x /\ m.kind = "fill" /\ m.total = total[x] + q
    BY <2>2, <2>3 DEF Message
  <2>5. total' \in [Orders -> 0..Amount] /\ \A o \in Orders : total[o] <= total'[o]
    BY <1>1, <2>1, <2>2
  <2>6. \A o \in Orders :
          /\ IF IsFill(m, o) THEN m.total = total'[o] ELSE total'[o] = total[o]
          /\ ~env.late /\ Completes(m, o) => total[o] < Amount /\ total'[o] = Amount
    BY <1>1, <2>1, <2>2, <2>4 DEF IsFill, Completes, IsDone
  <2> QED
    BY <1>2, <2>1, <2>3, <2>4, <2>5, <2>6
<1>4. CASE VenueRepeats(x)
  <2>1. /\ UNCHANGED total
        /\ total[x] < Amount \/ env.late
        /\ wire' = Append(wire, [order |-> x, kind |-> "fill", total |-> total[x]])
    BY <1>4 DEF VenueRepeats, Say
  <2>2. PICK m : m = [order |-> x, kind |-> "fill", total |-> total[x]]
    OBVIOUS
  <2>3. m \in Message /\ m.order = x /\ m.kind = "fill" /\ m.total = total[x]
    BY <1>1, <2>2 DEF Message
  <2>4. \A o \in Orders :
          /\ IF IsFill(m, o) THEN m.total = total'[o] ELSE total'[o] = total[o]
          /\ ~env.late /\ Completes(m, o) => total[o] < Amount /\ total'[o] = Amount
    BY <1>1, <2>1, <2>3 DEF IsFill, Completes, IsDone
  <2> QED
    BY <1>1, <1>2, <2>1, <2>2, <2>3, <2>4
<1>5. CASE VenueCancels(x)
  <2>1. UNCHANGED total /\ wire' = Append(wire, [order |-> x, kind |-> "cancel", total |-> total[x]])
    BY <1>5 DEF VenueCancels, Say
  <2>2. PICK m : m = [order |-> x, kind |-> "cancel", total |-> total[x]]
    OBVIOUS
  <2>3. m \in Message /\ m.kind = "cancel"
    BY <1>1, <2>2 DEF Message
  <2>4. \A o \in Orders : ~IsFill(m, o) /\ ~Completes(m, o)
    BY <2>3 DEF IsFill, Completes, IsDone
  <2> QED
    BY <1>1, <1>2, <2>1, <2>2, <2>3, <2>4
<1> QED
  BY <1>3, <1>4, <1>5

LEMMA VenueKeeps ==
  ASSUME GatewayAssumption, GatewayInv, NEW x \in Orders,
         VenueFills(x) \/ VenueRepeats(x) \/ VenueCancels(x)
  PROVE  GatewayInv'
<1>1. GatewayTypes
  BY DEF GatewayInv
<1>2. /\ UNCHANGED <<events, fillsSeen, counted, dones, env, crashes>>
      /\ total' \in [Orders -> 0..Amount]
      /\ \A o \in Orders : total[o] <= total'[o]
  BY <1>1, VenueSays
<1>3. PICK m \in Message :
        /\ wire' = Append(wire, m)
        /\ \A o \in Orders :
             /\ IF IsFill(m, o) THEN m.total = total'[o] ELSE total'[o] = total[o]
             /\ ~env.late /\ Completes(m, o) => total[o] < Amount /\ total'[o] = Amount
  BY <1>1, VenueSays
<1>4. GatewayTypes'
  BY <1>1, <1>2, <1>3 DEF GatewayTypes
<1>5. ASSUME ~env.late, NEW o \in Orders PROVE ReportedOnce(o)'
  <2>1. ReportedOnce(o)
    BY <1>5 DEF GatewayInv
  <2> QED
    BY <1>1, <1>2, <1>3, <1>5, <2>1, WireGrows
<1>6. ASSUME Orderly' PROVE OneByOne' /\ \A o \in Orders : InOrder(o)'
  <2>1. Orderly /\ ~env.late
    BY <1>2, <1>6 DEF Orderly
  <2>2. OneByOne'
    BY <1>2, <2>1 DEF GatewayInv, OneByOne
  <2>3. ASSUME NEW o \in Orders PROVE InOrder(o)'
    <3>1. ReportedOnce(o) /\ InOrder(o)
      BY <2>1 DEF GatewayInv
    <3> QED
      BY <1>1, <1>2, <1>3, <3>1, WireKeepsOrder
  <2> QED
    BY <2>2, <2>3
<1> QED
  BY <1>2, <1>4, <1>5, <1>6 DEF GatewayInv

LEMMA EventArrivesKeeps ==
  ASSUME GatewayAssumption, GatewayInv, EventArrives
  PROVE  GatewayInv'
<1>1. GatewayTypes
  BY DEF GatewayInv
<1>2. UNCHANGED <<total, fillsSeen, counted, dones, env, crashes>>
  BY DEF EventArrives, fills
<1>3. PICK n \in 1..Len(wire) :
        /\ events' = Append(events, [todo |-> SubSeq(wire, 1, n), phase |-> "new", qty |-> 0])
        /\ wire' = SubSeq(wire, n + 1, Len(wire))
        /\ ~env.batches => n = 1
  BY <1>1, EventIs
<1>4. wire \in Seq(Message) /\ events \in Seq(Task)
  BY <1>1 DEF GatewayTypes
<1>5. wire' \in Seq(Message)
  BY <1>3, <1>4, Suffix
<1>6. PICK t : t = [todo |-> SubSeq(wire, 1, n), phase |-> "new", qty |-> 0]
  OBVIOUS
<1>7. t \in Task /\ t.todo # <<>> /\ Len(t.todo) = n /\ t.phase = "new"
  <2>1. SubSeq(wire, 1, n) \in Seq(Message) /\ Len(SubSeq(wire, 1, n)) = n /\ n >= 1
    BY <1>4
  <2>2. SubSeq(wire, 1, n) # <<>>
    BY <2>1
  <2>3. 0 \in 0..Amount
    BY DEF GatewayAssumption
  <2> QED
    BY <1>6, <2>1, <2>2, <2>3 DEF Task
<1>8. events' = Append(events, t)
  BY <1>3, <1>6
<1>9. /\ Len(events) \in Nat /\ DOMAIN events = 1..Len(events)
      /\ events' \in Seq(Task) /\ DOMAIN events' = 1..(Len(events) + 1)
      /\ \A i \in 1..Len(events) : events'[i] = events[i]
      /\ events'[Len(events) + 1] = t
  BY <1>4, <1>7, <1>8
<1>10. GatewayTypes'
  <2>1. ASSUME NEW i \in DOMAIN events' PROVE events'[i].todo # <<>>
    <3>1. CASE i \in DOMAIN events
      BY <1>1, <1>9, <3>1, TaskTyped
    <3>2. CASE i = Len(events) + 1
      BY <1>7, <1>9, <3>2
    <3> QED
      BY <1>9, <3>1, <3>2
  <2> QED
    BY <1>1, <1>2, <1>5, <1>9, <2>1 DEF GatewayTypes
<1>11. ASSUME ~env.late, NEW o \in Orders PROVE ReportedOnce(o)'
  BY <1>1, <1>11, EventArrivesReports DEF GatewayInv
<1>12. ASSUME Orderly' PROVE OneByOne' /\ \A o \in Orders : InOrder(o)'
  <2>1. Orderly /\ ~env.batches /\ ~env.late
    BY <1>2, <1>12 DEF Orderly
  <2>2. OneByOne
    BY <2>1 DEF GatewayInv
  <2>3. \A i \in DOMAIN events' : Len(events'[i].todo) = 1
    BY <1>3, <1>7, <1>9, <2>1, <2>2 DEF OneByOne
  <2>4. \A i, j \in DOMAIN events' :
          i < j /\ events'[i].phase = "new" => events'[j].phase = "new"
    BY <1>7, <1>9, <2>2 DEF OneByOne
  <2>5. ASSUME NEW o \in Orders PROVE InOrder(o)'
    <3>1. ReportedOnce(o) /\ InOrder(o)
      BY <2>1 DEF GatewayInv
    <3> QED
      BY <1>1, <2>1, <3>1, EventKeepsOrder
  <2> QED
    BY <2>3, <2>4, <2>5 DEF OneByOne
<1> QED
  BY <1>2, <1>10, <1>11, <1>12 DEF GatewayInv

(* What a step of a task leaves of the tasks' order.                       *)
LEMMA OneByOneLess ==
  ASSUME GatewayTypes, OneByOne, NEW e \in DOMAIN events, events' = RemoveAt(events, e)
  PROVE  OneByOne'
<1>1. /\ events \in Seq(Task) /\ Len(events) \in Nat
      /\ DOMAIN events = 1..Len(events) /\ e \in 1..Len(events)
  BY DEF GatewayTypes
<1>2. /\ events' \in Seq(Task) /\ Len(events') = Len(events) - 1
      /\ \A d \in 1..(Len(events) - 1) :
           events'[d] = IF d < e THEN events[d] ELSE events[d + 1]
  BY <1>1, Removed
<1>3. DOMAIN events' = 1..(Len(events) - 1)
  BY <1>2
<1>4. PICK was : was = [d \in 1..(Len(events) - 1) |-> IF d < e THEN d ELSE d + 1]
  OBVIOUS
<1>5. \A d \in DOMAIN events' : was[d] \in DOMAIN events /\ events'[d] = events[was[d]]
  BY <1>1, <1>2, <1>3, <1>4
<1>6. \A i, j \in DOMAIN events' : i < j => was[i] < was[j]
  BY <1>1, <1>3, <1>4
<1> QED
  BY <1>5, <1>6 DEF OneByOne

LEMMA OneByOneMoved ==
  ASSUME GatewayTypes, OneByOne, NEW e \in DOMAIN events,
         DOMAIN events' = DOMAIN events,
         \A d \in DOMAIN events : Len(events'[d].todo) = Len(events[d].todo),
         \A d \in DOMAIN events : d # e => events'[d].phase = events[d].phase,
         \A d \in DOMAIN events : d < e => events[d].phase # "new",
         events'[e].phase # "new"
  PROVE  OneByOne'
BY DEF OneByOne

LEMMA PublishedKeeps ==
  ASSUME GatewayAssumption, GatewayInv, NEW e \in DOMAIN events, Published(e)
  PROVE  GatewayInv'
<1>1. GatewayTypes
  BY DEF GatewayInv
<1> DEFINE m == Head(events[e].todo)
           t == [events[e] EXCEPT !.phase = "resume"]
<1>2. /\ events[e].phase = "publish" /\ events' = [events EXCEPT ![e] = t]
      /\ counted' = [counted EXCEPT ![m.order] = @ + events[e].qty]
      /\ dones' = IF IsDone(m) THEN [dones EXCEPT ![m.order] = @ + 1] ELSE dones
      /\ UNCHANGED <<total, wire, fillsSeen, env, crashes>>
  BY DEF Published, venue
<1>3. events[e] \in Task /\ m \in Message /\ m.order \in Orders /\ events[e].qty \in Nat
  BY <1>1, TaskTyped, MessageTyped DEF GatewayTypes, GatewayAssumption
<1>4. t \in Task /\ t.todo = events[e].todo /\ t.phase = "resume"
  BY <1>3 DEF Task
<1> HIDE DEF m, t
<1>5. /\ events' \in Seq(Task) /\ DOMAIN events' = DOMAIN events
      /\ \A d \in DOMAIN events : events'[d].todo = events[d].todo
      /\ \A d \in DOMAIN events : d # e => events'[d] = events[d]
      /\ events'[e].phase = "resume"
  <2>1. events \in Seq(Task) /\ events' = [events EXCEPT ![e] = t]
    BY <1>1, <1>2 DEF GatewayTypes
  <2>2. DOMAIN events' = DOMAIN events /\ events'[e] = t
    BY <2>1
  <2>3. events' \in Seq(Task)
    BY <1>4, <2>1
  <2>4. \A d \in DOMAIN events : d # e => events'[d] = events[d]
    BY <2>1
  <2> QED
    BY <1>4, <2>2, <2>3, <2>4
<1>6. counted' \in [Orders -> Nat] /\ dones' \in [Orders -> Nat]
  <2>1. counted \in [Orders -> Nat] /\ dones \in [Orders -> Nat]
    BY <1>1 DEF GatewayTypes
  <2>2. counted[m.order] + events[e].qty \in Nat /\ dones[m.order] + 1 \in Nat
    BY <1>3, <2>1
  <2> QED
    BY <1>2, <1>3, <2>1, <2>2
<1>7. GatewayTypes'
  BY <1>1, <1>2, <1>5, <1>6 DEF GatewayTypes
<1>8. ASSUME ~env.late, NEW o \in Orders PROVE ReportedOnce(o)'
  BY <1>1, <1>8, PublishedReports DEF GatewayInv
<1>9. ASSUME Orderly' PROVE OneByOne' /\ \A o \in Orders : InOrder(o)'
  <2>1. Orderly /\ ~env.late
    BY <1>2, <1>9 DEF Orderly
  <2>2. OneByOne
    BY <2>1 DEF GatewayInv
  <2>3. \A d \in DOMAIN events : d < e => events[d].phase # "new"
    BY <1>2, <2>2 DEF OneByOne
  <2>4. OneByOne'
    BY <1>1, <1>5, <2>2, <2>3, OneByOneMoved
  <2>5. ASSUME NEW o \in Orders PROVE InOrder(o)'
    <3>1. ReportedOnce(o) /\ InOrder(o)
      BY <2>1 DEF GatewayInv
    <3> QED
      BY <1>1, <3>1, PublishedKeepsOrder
  <2> QED
    BY <2>4, <2>5
<1> QED
  BY <1>2, <1>7, <1>8, <1>9 DEF GatewayInv

(* A step of a task that ends in Advance.                                  *)
LEMMA AdvanceTypes ==
  ASSUME GatewayAssumption, GatewayTypes, NEW e \in DOMAIN events,
         NEW todo \in Seq(Message), NEW seen \in [Orders -> 0..Amount],
         Advance(e, todo, seen), UNCHANGED <<total, wire, counted, dones, env, crashes>>
  PROVE  GatewayTypes'
<1>1. events \in Seq(Task) /\ (\A d \in DOMAIN events : events[d].todo # <<>>)
  BY DEF GatewayTypes
<1>2. CASE events' = RemoveAt(events, e) /\ fillsSeen' = seen
  <2>1. /\ events' \in Seq(Task) /\ Len(events') = Len(events) - 1
        /\ \A d \in 1..(Len(events) - 1) :
             events'[d] = IF d < e THEN events[d] ELSE events[d + 1]
    BY <1>1, <1>2, Removed
  <2>2. ASSUME NEW d \in DOMAIN events' PROVE events'[d].todo # <<>>
    <3>1. \/ d \in DOMAIN events /\ events'[d] = events[d]
          \/ d + 1 \in DOMAIN events /\ events'[d] = events[d + 1]
      BY <1>1, <2>1
    <3> QED
      BY <1>1, <3>1
  <2> QED
    BY <1>2, <2>1, <2>2 DEF GatewayTypes
<1>3. CASE \E t \in Task : t.todo # <<>> /\ events' = [events EXCEPT ![e] = t]
  <2>1. PICK t \in Task : t.todo # <<>> /\ events' = [events EXCEPT ![e] = t]
    BY <1>3
  <2>2. fillsSeen' \in [Orders -> 0..Amount]
    <3>1. CASE todo = <<>>
      BY <3>1 DEF Advance
    <3>2. CASE todo # <<>>
      <4>1. Head(todo) \in Message
        BY <3>2
      <4>2. Head(todo).order \in Orders /\ Head(todo).total \in 0..Amount
        BY <4>1, MessageTyped
      <4>3. fillsSeen' = seen \/ fillsSeen' = [seen EXCEPT ![Head(todo).order] = Head(todo).total]
        BY <3>2, Advanced
      <4> QED
        BY <4>2, <4>3
    <3> QED
      BY <3>1, <3>2
  <2>3. events' \in Seq(Task)
    BY <1>1, <2>1
  <2>4. \A d \in DOMAIN events' : events'[d].todo # <<>>
    BY <1>1, <2>1
  <2> QED
    BY <2>2, <2>3, <2>4 DEF GatewayTypes
<1>4. \/ events' = RemoveAt(events, e) /\ fillsSeen' = seen
      \/ \E t \in Task : t.todo # <<>> /\ events' = [events EXCEPT ![e] = t]
  <2>1. CASE todo = <<>>
    BY <2>1 DEF Advance
  <2>2. CASE todo # <<>>
    <3>1. PICK q \in 0..Amount :
            /\ [todo |-> todo, phase |-> "publish", qty |-> q] \in Task
            /\ events' = [events EXCEPT ![e] =
                            [todo |-> todo, phase |-> "publish", qty |-> q]]
      BY <2>2, Advanced
    <3>2. PICK t : t = [todo |-> todo, phase |-> "publish", qty |-> q]
      OBVIOUS
    <3> QED
      BY <2>2, <3>1, <3>2
  <2> QED
    BY <2>1, <2>2
<1> QED
  BY <1>2, <1>3, <1>4

LEMMA TaskStartsKeeps ==
  ASSUME GatewayAssumption, GatewayInv, NEW e \in DOMAIN events, TaskStarts(e)
  PROVE  GatewayInv'
<1>1. GatewayTypes
  BY DEF GatewayInv
<1>2. /\ events[e].phase = "new" /\ \A d \in 1..(e - 1) : events[d].phase # "new"
      /\ Advance(e, events[e].todo, fillsSeen)
      /\ UNCHANGED <<total, wire, counted, dones, env, crashes>>
  BY DEF TaskStarts, venue, fills
<1>3. /\ events[e].todo \in Seq(Message) /\ events[e].todo # <<>>
      /\ fillsSeen \in [Orders -> 0..Amount]
  BY <1>1, TaskTyped DEF GatewayTypes
<1>4. GatewayTypes'
  BY <1>1, <1>2, <1>3, AdvanceTypes
<1>5. PICK q \in 0..Amount :
        /\ [todo |-> events[e].todo, phase |-> "publish", qty |-> q] \in Task
        /\ events' = [events EXCEPT ![e] =
                        [todo |-> events[e].todo, phase |-> "publish", qty |-> q]]
  BY <1>1, <1>2, <1>3, Advanced
<1>6. PICK t \in Task : /\ t.todo = events[e].todo /\ t.phase = "publish"
                        /\ events' = [events EXCEPT ![e] = t]
  BY <1>5
<1>7. ASSUME ~env.late, NEW o \in Orders PROVE ReportedOnce(o)'
  <2>1. ReportedOnce(o)
    BY <1>7 DEF GatewayInv
  <2>2. 0 \in {0, 1} /\ t.phase # "resume" /\ (0 = 0 => events[e].phase # "resume")
    BY <1>2, <1>6
  <2>3. \A k \in DOMAIN t.todo :
          k + 0 \in DOMAIN events[e].todo /\ t.todo[k] = events[e].todo[k + 0]
    BY <1>3, <1>6
  <2> QED
    BY <1>1, <1>2, <1>6, <2>1, <2>2, <2>3, AdvanceReports
<1>8. ASSUME Orderly' PROVE OneByOne' /\ \A o \in Orders : InOrder(o)'
  <2>1. Orderly /\ ~env.late
    BY <1>2, <1>8 DEF Orderly
  <2>2. OneByOne
    BY <2>1 DEF GatewayInv
  <2>3. \A d \in DOMAIN events : d < e => events[d].phase # "new"
    <3>1. events \in Seq(Task)
      BY <1>1 DEF GatewayTypes
    <3>2. \A d \in DOMAIN events : d < e => d \in 1..(e - 1)
      BY <3>1
    <3> QED
      BY <1>2, <3>2
  <2>4. /\ DOMAIN events' = DOMAIN events /\ events'[e].phase # "new"
        /\ \A d \in DOMAIN events : Len(events'[d].todo) = Len(events[d].todo)
        /\ \A d \in DOMAIN events : d # e => events'[d].phase = events[d].phase
    BY <1>1, <1>6 DEF GatewayTypes
  <2>5. OneByOne'
    BY <1>1, <2>2, <2>3, <2>4, OneByOneMoved
  <2>6. ASSUME NEW o \in Orders PROVE InOrder(o)'
    <3>1. ReportedOnce(o) /\ InOrder(o)
      BY <2>1 DEF GatewayInv
    <3> QED
      BY <1>1, <2>2, <3>1, StartKeepsOrder
  <2> QED
    BY <2>5, <2>6
<1> QED
  BY <1>2, <1>4, <1>7, <1>8 DEF GatewayInv

(* A task dies, and of what the gateway knows nothing changes but that a   *)
(* reported order may be forgotten.                                        *)
LEMMA DeathKeeps ==
  ASSUME GatewayAssumption, GatewayInv, NEW e \in DOMAIN events,
         env.fails, events' = RemoveAt(events, e),
         UNCHANGED <<total, wire, counted, dones, env, crashes>>,
         fillsSeen' \in [Orders -> 0..Amount],
         OneByOne => UNCHANGED fillsSeen
  PROVE  GatewayInv'
<1>1. GatewayTypes
  BY DEF GatewayInv
<1>3. GatewayTypes'
  <2>1. events \in Seq(Task) /\ (\A d \in DOMAIN events : events[d].todo # <<>>)
    BY <1>1 DEF GatewayTypes
  <2>2. /\ events' \in Seq(Task) /\ Len(events') = Len(events) - 1
        /\ \A d \in 1..(Len(events) - 1) :
             events'[d] = IF d < e THEN events[d] ELSE events[d + 1]
    BY <2>1, Removed
  <2>3. ASSUME NEW d \in DOMAIN events' PROVE events'[d].todo # <<>>
    <3>1. \/ d \in DOMAIN events /\ events'[d] = events[d]
          \/ d + 1 \in DOMAIN events /\ events'[d] = events[d + 1]
      BY <2>1, <2>2
    <3> QED
      BY <2>1, <3>1
  <2> QED
    BY <1>1, <2>2, <2>3 DEF GatewayTypes
<1>4. ASSUME ~env.late, NEW o \in Orders PROVE ReportedOnce(o)'
  BY <1>1, <1>4, RemovalReports DEF GatewayInv
<1>5. ASSUME Orderly' PROVE OneByOne' /\ \A o \in Orders : InOrder(o)'
  <2>1. Orderly /\ ~env.late
    BY <1>5 DEF Orderly
  <2>2. OneByOne
    BY <2>1 DEF GatewayInv
  <2>4. OneByOne'
    BY <1>1, <2>2, OneByOneLess
  <2>3. ASSUME NEW o \in Orders PROVE InOrder(o)'
    <3>1. ReportedOnce(o) /\ InOrder(o)
      BY <2>1 DEF GatewayInv
    <3>2. Known(o)' = Known(o)
      BY <2>2 DEF Known
    <3>3. fillsSeen'[o] <= total[o]
      BY <2>2, <3>1 DEF InOrder, Ascending
    <3> QED
      BY <1>1, <3>1, <3>2, <3>3, RemovalKeepsOrder
  <2> QED
    BY <2>3, <2>4
<1> QED
  BY <1>3, <1>4, <1>5 DEF GatewayInv

LEMMA PublishRaisesKeeps ==
  ASSUME GatewayAssumption, GatewayInv, NEW e \in DOMAIN events,
         PublishRaises(e) \/ FillReplyLost(e)
  PROVE  GatewayInv'
<1>1. /\ env.fails /\ events' = RemoveAt(events, e)
      /\ UNCHANGED <<total, wire, fillsSeen, counted, dones, env, crashes>>
  BY DEF PublishRaises, FillReplyLost, venue, fills
<1>2. fillsSeen \in [Orders -> 0..Amount]
  BY DEF GatewayInv, GatewayTypes
<1> QED
  BY <1>1, <1>2, DeathKeeps

LEMMA ReadRaisesKeeps ==
  ASSUME GatewayAssumption, GatewayInv, NEW e \in DOMAIN events, ReadRaises(e)
  PROVE  GatewayInv'
<1>1. GatewayTypes
  BY DEF GatewayInv
<1> DEFINE m == Head(events[e].todo)
<1>2. /\ events[e].todo \in Seq(Message) /\ events[e].todo # <<>>
      /\ fillsSeen \in [Orders -> 0..Amount]
  BY <1>1, TaskTyped DEF GatewayTypes
<1>3. /\ env.fails /\ events' = RemoveAt(events, e)
      /\ UNCHANGED <<total, wire, counted, dones, env, crashes>>
  BY DEF ReadRaises, venue, fills
<1>4. \/ UNCHANGED fillsSeen
      \/ Tail(events[e].todo) # <<>> /\ fillsSeen' = [fillsSeen EXCEPT ![m.order] = 0]
  BY DEF ReadRaises
<1>5. fillsSeen' \in [Orders -> 0..Amount]
  <2>1. m.order \in Orders /\ 0 \in 0..Amount
    BY <1>2, MessageTyped DEF GatewayAssumption
  <2> HIDE DEF m
  <2> QED
    BY <1>2, <1>4, <2>1
<1>6. OneByOne => Tail(events[e].todo) = <<>>
  <2>1. ASSUME OneByOne PROVE Tail(events[e].todo) = <<>>
    <3>1. Len(events[e].todo) = 1
      BY <2>1 DEF OneByOne
    <3>2. Len(Tail(events[e].todo)) = 0 /\ Tail(events[e].todo) \in Seq(Message)
      BY <1>2, <3>1
    <3>3. \A s \in Seq(Message) : Len(s) = 0 => s = <<>>
      OBVIOUS
    <3> QED
      BY <3>2, <3>3
  <2> QED
    BY <2>1
<1> HIDE DEF m
<1>7. OneByOne => UNCHANGED fillsSeen
  BY <1>4, <1>6
<1> QED
  BY <1>3, <1>5, <1>7, DeathKeeps

LEMMA TaskResumesKeeps ==
  ASSUME GatewayAssumption, GatewayInv, NEW e \in DOMAIN events, TaskResumes(e)
  PROVE  GatewayInv'
<1>1. GatewayTypes
  BY DEF GatewayInv
<1> DEFINE m == Head(events[e].todo)
           rest == Tail(events[e].todo)
           reset == [fillsSeen EXCEPT ![m.order] = 0]
<1>2. /\ events[e].todo \in Seq(Message) /\ events[e].todo # <<>>
      /\ fillsSeen \in [Orders -> 0..Amount]
  BY <1>1, TaskTyped DEF GatewayTypes
<1>3. m \in Message /\ m = events[e].todo[1] /\ rest \in Seq(Message)
  BY <1>2
<1>4. m.order \in Orders
  BY <1>3, MessageTyped
<1>5. PICK seen \in [Orders -> 0..Amount] :
        /\ seen = IF IsDone(m) THEN reset ELSE fillsSeen
        /\ Advance(e, rest, seen)
  <2>1. reset \in [Orders -> 0..Amount]
    <3>1. 0 \in 0..Amount
      BY DEF GatewayAssumption
    <3> QED
      BY <1>2, <1>4, <3>1
  <2>2. Advance(e, rest, IF IsDone(m) THEN reset ELSE fillsSeen)
    BY DEF TaskResumes
  <2> HIDE DEF m, rest, reset
  <2> QED
    BY <1>2, <2>1, <2>2
<1>6. /\ events[e].phase = "resume"
      /\ UNCHANGED <<total, wire, counted, dones, env, crashes>>
  BY DEF TaskResumes, venue, fills
<1> HIDE DEF m, rest, reset
<1>7. GatewayTypes'
  BY <1>1, <1>3, <1>5, <1>6, AdvanceTypes
<1>8. ASSUME ~env.late, NEW o \in Orders PROVE ReportedOnce(o)'
  <2>1. ReportedOnce(o)
    BY <1>8 DEF GatewayInv
  <2>2. CASE rest = <<>>
    <3>1. events' = RemoveAt(events, e)
      BY <1>5, <2>2 DEF Advance
    <3> QED
      BY <1>1, <1>6, <2>1, <3>1, RemovalReports
  <2>3. CASE rest # <<>>
    <3>1. PICK q \in 0..Amount :
            /\ [todo |-> rest, phase |-> "publish", qty |-> q] \in Task
            /\ events' = [events EXCEPT ![e] = [todo |-> rest, phase |-> "publish", qty |-> q]]
      BY <1>1, <1>3, <1>5, <2>3, Advanced
    <3>2. PICK t \in Task : /\ t.todo = rest /\ t.phase = "publish"
                            /\ events' = [events EXCEPT ![e] = t]
      BY <3>1
    <3>3. 1 \in {0, 1} /\ (1 = 0 => events[e].phase # "resume") /\ t.phase # "resume"
      BY <3>2
    <3>4. \A k \in DOMAIN rest :
            k + 1 \in DOMAIN events[e].todo /\ rest[k] = events[e].todo[k + 1]
      BY <1>2 DEF rest
    <3> QED
      BY <1>1, <1>6, <2>1, <3>2, <3>3, <3>4, AdvanceReports
  <2> QED
    BY <2>2, <2>3
<1>9. ASSUME Orderly' PROVE OneByOne' /\ \A o \in Orders : InOrder(o)'
  <2>1. Orderly /\ ~env.late
    BY <1>6, <1>9 DEF Orderly
  <2>2. OneByOne
    BY <2>1 DEF GatewayInv
  <2>3. rest = <<>>
    <3>1. Len(events[e].todo) = 1
      BY <2>2 DEF OneByOne
    <3>2. Len(rest) = 0
      BY <1>2, <3>1 DEF rest
    <3> QED
      BY <1>3, <3>2
  <2>4. events' = RemoveAt(events, e) /\ fillsSeen' = seen
    BY <1>5, <2>3 DEF Advance
  <2>5. OneByOne'
    BY <1>1, <2>2, <2>4, OneByOneLess
  <2>6. ASSUME NEW o \in Orders PROVE InOrder(o)'
    <3>1. ReportedOnce(o) /\ InOrder(o)
      BY <2>1 DEF GatewayInv
    <3>2. Due(e, o) = 0 /\ events[e].phase # "new"
      BY <1>6 DEF Due
    <3>3. CASE Completes(m, o)
      <4>1. dones[o] = 1
        BY <1>3, <1>6, <3>1, <3>3 DEF ReportedOnce
      <4>2. fillsSeen'[o] = 0
        BY <1>2, <1>4, <1>5, <2>4, <3>3 DEF Completes, reset
      <4>3. total[o] \in 0..Amount
        BY <1>1 DEF GatewayTypes
      <4>4. Known(o)' = Known(o) /\ fillsSeen'[o] <= total[o]
        BY <1>6, <4>1, <4>2, <4>3 DEF Known, GatewayAssumption
      <4> QED
        BY <1>1, <1>6, <2>4, <3>1, <3>2, <4>4, RemovalKeepsOrder
    <3>4. CASE ~Completes(m, o)
      <4>1. fillsSeen'[o] = fillsSeen[o]
        BY <1>2, <1>4, <1>5, <2>4, <3>4 DEF Completes, reset
      <4>2. Known(o)' = Known(o) /\ fillsSeen'[o] <= total[o]
        BY <1>6, <3>1, <4>1 DEF Known, InOrder, Ascending
      <4> QED
        BY <1>1, <1>6, <2>4, <3>1, <3>2, <4>2, RemovalKeepsOrder
    <3> QED
      BY <3>3, <3>4
  <2> QED
    BY <2>5, <2>6
<1> QED
  BY <1>6, <1>7, <1>8, <1>9 DEF GatewayInv

(* A crash forgets everything, what was said and not heard included.       *)
LEMMA CrashKeeps ==
  ASSUME GatewayAssumption, GatewayInv, CrashAndRestart
  PROVE  GatewayInv'
<1>1. /\ crashes' = crashes + 1 /\ crashes \in Nat
      /\ wire' = <<>> /\ events' = <<>> /\ fillsSeen' = [x \in Orders |-> 0]
      /\ UNCHANGED <<total, env, counted, dones>> /\ GatewayTypes
  BY DEF CrashAndRestart, GatewayInv, GatewayTypes, fills
<1>2. GatewayTypes'
  <2>1. 0 \in 0..Amount
    BY DEF GatewayAssumption
  <2>2. wire' \in Seq(Message) /\ events' \in Seq(Task) /\ DOMAIN events' = {}
    BY <1>1
  <2> QED
    BY <1>1, <2>1, <2>2 DEF GatewayTypes
<1>3. ASSUME ~env.late, NEW o \in Orders PROVE ReportedOnce(o)'
  <2>1. DOMAIN wire' = {} /\ DOMAIN events' = {}
    BY <1>1
  <2>2. \A i, k \in Nat : ~Unreported(i, k, o)'
    BY <2>1 DEF Unreported
  <2>3. dones[o] \in {0, 1} /\ (total[o] < Amount => dones[o] = 0)
    BY <1>3 DEF GatewayInv, ReportedOnce
  <2> QED
    BY <1>1, <2>1, <2>2, <2>3 DEF ReportedOnce, AllReported
<1>4. ~Orderly'
  BY <1>1 DEF Orderly
<1> QED
  BY <1>1, <1>2, <1>3, <1>4 DEF GatewayInv

LEMMA QuietKeeps ==
  ASSUME GatewayInv, UNCHANGED <<total, wire, events, fillsSeen, counted, dones, env, crashes>>
  PROVE  GatewayInv'
<1>1. GatewayTypes'
  BY DEF GatewayInv, GatewayTypes
<1>2. ASSUME ~env.late, NEW o \in Orders PROVE ReportedOnce(o)'
  <2>1. \A i, k \in Nat : Unreported(i, k, o)' = Unreported(i, k, o)
    BY DEF Unreported, Completes, IsDone
  <2> QED
    BY <1>2, <2>1 DEF GatewayInv, ReportedOnce, AllReported, Completes, IsDone
<1>3. ASSUME Orderly' PROVE OneByOne' /\ \A o \in Orders : InOrder(o)'
  <2>1. Orderly
    BY <1>3 DEF Orderly
  <2>2. ASSUME NEW o \in Orders PROVE InOrder(o)'
    <3>1. InOrder(o)
      BY <2>1 DEF GatewayInv
    <3> QED
      BY <3>1 DEF InOrder, Ascending, AddsUp, Known, Due, NewFill, WireFill, IsFill
  <2> QED
    BY <2>1, <2>2 DEF GatewayInv, OneByOne
<1> QED
  BY <1>1, <1>2, <1>3 DEF GatewayInv

LEMMA GatewayInvariance == GatewaySpec => []GatewayInv
<1>1. GatewayInit => GatewayInv
  BY InitGateway, GatewayAssumption
<1>2. ASSUME GatewayInv, [GatewayNext]_gatewayVars PROVE GatewayInv'
  <2>1. CASE UNCHANGED gatewayVars
    BY <1>2, <2>1, QuietKeeps DEF gatewayVars, venue, gateway, fills
  <2>2. ASSUME NEW o \in Orders, Send(o) \/ SendRaises(o) \/ Sent(o) PROVE GatewayInv'
    BY <1>2, <2>2, QuietKeeps DEF Send, SendRaises, Sent, venue, gateway, fills
  <2>3. ASSUME NEW o \in Orders, VenueFills(o) \/ VenueRepeats(o) \/ VenueCancels(o)
        PROVE  GatewayInv'
    BY <1>2, <2>3, VenueKeeps, GatewayAssumption
  <2>4. ASSUME NEW e \in DOMAIN events,
               \/ TaskStarts(e) \/ ReadRaises(e) \/ Published(e)
               \/ PublishRaises(e) \/ FillReplyLost(e) \/ TaskResumes(e)
        PROVE  GatewayInv'
    BY <1>2, <2>4, TaskStartsKeeps, ReadRaisesKeeps, PublishedKeeps, PublishRaisesKeeps,
       TaskResumesKeeps, GatewayAssumption
  <2> QED
    BY <1>2, <2>1, <2>2, <2>3, <2>4, EventArrivesKeeps, CrashKeeps, GatewayAssumption
       DEF GatewayNext, TaskStep
<1> QED
  BY <1>1, <1>2, PTL DEF GatewaySpec

(* For any orders and amounts and any interleaving of the tasks: once      *)
(* every event is handled, the increments published of an order add up to  *)
(* what the venue filled.                                                  *)
THEOREM IncrementsAddUpAlways == GatewaySpec => []IncrementsAddUpOrderly
<1>1. ASSUME GatewayInv, Orderly, ~env.fails, Quiet, NEW o \in Orders
      PROVE  counted[o] = total[o]
  <2>1. DOMAIN wire = {} /\ DOMAIN events = {} /\ Len(events) = 0
    BY <1>1 DEF Quiet
  <2>2. Ascending(o) /\ \E path : AddsUp(o, path)
    BY <1>1 DEF GatewayInv, InOrder
  <2>3. Known(o) = total[o]
    BY <1>1, <2>1, <2>2 DEF Ascending
  <2>4. counted[o] = Known(o)
    BY <1>1, <2>1, <2>2 DEF AddsUp
  <2> QED
    BY <2>3, <2>4
<1>2. GatewayInv => IncrementsAddUpOrderly
  BY <1>1 DEF IncrementsAddUpOrderly, IncrementsAddUp
<1> QED
  BY <1>2, GatewayInvariance, PTL

(* ... at no time more than that is published, whatever raises, and, even  *)
(* if events are batched and the gateway restarts, done once, and only of  *)
(* an order that is.                                                       *)
THEOREM NothingIsReportedTwice == GatewaySpec => []NothingReportedTwice
<1>1. ASSUME GatewayInv, Orderly, NEW o \in Orders PROVE counted[o] <= total[o]
  <2>1. GatewayTypes /\ ReportedOnce(o) /\ Ascending(o) /\ \E path : AddsUp(o, path)
    BY <1>1 DEF GatewayInv, InOrder, Orderly
  <2>2. PICK path : AddsUp(o, path)
    BY <2>1
  <2>3. Len(events) \in Nat /\ counted[o] \in Nat
    BY <2>1 DEF GatewayTypes
  <2>4. 0 \in 0..Len(events) /\ Len(events) \in 0..Len(events) /\ 0 <= Len(events)
    BY <2>3
  <2>5. counted[o] <= path[Len(events)] /\ path[Len(events)] <= Known(o)
        /\ path[Len(events)] \in Int
    BY <2>2, <2>4 DEF AddsUp
  <2>6. Known(o) \in Nat /\ total[o] \in Nat /\ Known(o) <= total[o]
    BY <2>1, KnownWithin, GatewayAssumption
  <2> QED
    BY <2>3, <2>5, <2>6
<1>2. ASSUME GatewayInv, ~env.late, NEW o \in Orders
      PROVE  dones[o] <= (IF total[o] = Amount THEN 1 ELSE 0)
  <2>1. GatewayTypes /\ ReportedOnce(o)
    BY <1>2 DEF GatewayInv
  <2>2. total[o] \in 0..Amount /\ Amount \in Nat
    BY <2>1, GatewayAssumption DEF GatewayTypes, GatewayAssumption
  <2> QED
    BY <2>1, <2>2 DEF ReportedOnce
<1>3. GatewayInv => NothingReportedTwice
  BY <1>1, <1>2 DEF NothingReportedTwice
<1> QED
  BY <1>3, GatewayInvariance, PTL

-----------------------------------------------------------------------------
(***************************************************************************)
(* BufferedInOrder, IndexFollowsWal and AckedIsHeld of Archive, for any    *)
(* number of messages, any size of the buffer, any conduct of the bus, of  *)
(* Redis and of the disk.  The invariant says where a message is: with the *)
(* producer or in the stream, once; and an entry that was read in one of   *)
(* the archiver's buffers or in the file, once.                            *)
(***************************************************************************)
Increasing(s) == \A i, j \in DOMAIN s : i < j => s[i] < s[j]

(* A message awaits its XADD or is in the buffer, once.                    *)
OnceEach ==
  /\ stamped \in Nat /\ sending \subseteq 1..stamped
  /\ buffer \in Seq(Nat) /\ Range(buffer) \subseteq 1..stamped /\ IsInjective(buffer)
  /\ stream \in Seq(Nat) /\ Range(stream) \subseteq 1..stamped
  /\ sending \cap Range(buffer) = {}

(* The one message of the buffer on its way to Redis is drain_buffer's.    *)
Detention ==
  /\ detained \subseteq 1..stamped /\ Range(buffer) \subseteq detained
  /\ drain = "wait" => draining \in sending \cap detained
  /\ \A m \in sending \cap detained : drain = "wait" /\ draining = m

(* Until a drain fails, what went through the buffer is in order: in the   *)
(* stream, then on its way, then in the buffer.                            *)
Queued ==
  /\ Increasing(buffer)
  /\ \A x \in Range(stream) \cap detained, y \in Range(buffer) \cup (sending \cap detained) : x < y
  /\ \A x \in sending \cap detained, y \in Range(buffer) : x < y
  /\ BufferedInOrder

BufferInv == OnceEach /\ Detention /\ (~failed => Queued)

ReadSoFar == 1..cursor
Written == Range(wal) \cup Range(glued)
Indexed == Range(index) \cup Range(inserted)
Held    == Range(pool) \cup Range(batch) \cup Written

(* An entry that was read is in hand, in one of the archiver's buffers or  *)
(* in the file, once; or it is lost, and then it is not read again.        *)
KeptOnce ==
  /\ cursor \in Nat
  /\ {wal, glued, index, inserted, pool, batch} \subseteq Seq(Nat)
  /\ IsInjective(wal) /\ IsInjective(index) /\ IsInjective(inserted)
  /\ IsInjective(pool) /\ IsInjective(batch)
  /\ Held \subseteq ReadSoFar
  /\ Range(pool) \cap (Range(batch) \cup Written) = {}
  /\ entry = 0 \/ entry \in ReadSoFar
  /\ entry # 0 /\ step = "put" => entry \notin Held

(* How far the flush has come with its batch.                              *)
Flushing ==
  /\ flush \in {"sleep", "wal", "index"} /\ (flush = "sleep" <=> batch = <<>>)
  /\ flush = "wal" => Range(batch) \cap Written = {}
  /\ flush = "index" => Range(batch) \subseteq Written \ Indexed
  /\ Indexed \subseteq Written /\ Range(index) \cap Range(inserted) = {}
  /\ ~amiss => Range(wal) = Range(index) \cup (IF flush = "index" THEN Range(batch) ELSE {})

(* A torn line is there to be glued to until the next line is written.     *)
Tearing ==
  /\ torn \in {0, 1} /\ cuts \in Nat /\ Len(glued) + torn <= cuts
  /\ ~amiss => torn = 0 /\ glued = <<>> /\ inserted = <<>>

(* An entry is acknowledged after it was put into the buffer.              *)
Acking ==
  /\ step \in {"put", "ack"}
  /\ entry # 0 /\ step = "ack" => entry \in Held \cup forgone
  /\ AckedIsHeld

ArchiverInv == KeptOnce /\ Flushing /\ Tearing /\ Acking
Inv == BufferInv /\ ArchiverInv

-----------------------------------------------------------------------------
(* What the operations do to a sequence of messages.                       *)
LEMMA AppendChanges ==
  ASSUME NEW s \in Seq(Nat), NEW m \in Nat
  PROVE  /\ Append(s, m) \in Seq(Nat) /\ Range(Append(s, m)) = Range(s) \cup {m}
         /\ IsInjective(s) /\ m \notin Range(s) => IsInjective(Append(s, m))
         /\ Increasing(s) /\ (\A x \in Range(s) : x < m) => Increasing(Append(s, m))
<1> DEFINE t == Append(s, m)
<1>1. /\ t \in Seq(Nat) /\ Len(t) = Len(s) + 1 /\ t[Len(s) + 1] = m
      /\ \A i \in 1..Len(s) : t[i] = s[i]
  OBVIOUS
<1>2. /\ DOMAIN s = 1..Len(s) /\ DOMAIN t = 1..(Len(s) + 1) /\ Len(s) \in Nat
      /\ \A i \in 1..Len(s) : s[i] \in Nat
  BY <1>1
<1> HIDE DEF t
<1>3. Range(t) = Range(s) \cup {m}
  BY <1>1, <1>2 DEF Range
<1>4. ASSUME IsInjective(s), m \notin Range(s) PROVE IsInjective(t)
  BY <1>1, <1>2, <1>4 DEF Range, IsInjective
<1>5. ASSUME Increasing(s), \A x \in Range(s) : x < m PROVE Increasing(t)
  <2>1. \A i \in 1..Len(s) : s[i] < m
    BY <1>2, <1>5 DEF Range
  <2> SUFFICES ASSUME NEW i \in DOMAIN t, NEW j \in DOMAIN t, i < j
               PROVE  t[i] < t[j]
    BY DEF Increasing
  <2>2. i \in 1..Len(s) /\ t[i] = s[i]
    BY <1>1, <1>2
  <2>3. CASE j = Len(s) + 1
    BY <2>1, <2>2, <2>3, <1>1
  <2>4. CASE j # Len(s) + 1
    <3>1. j \in 1..Len(s) /\ t[j] = s[j]
      BY <2>4, <1>1, <1>2
    <3> QED
      BY <3>1, <2>2, <1>2, <1>5 DEF Increasing
  <2> QED
    BY <2>3, <2>4
<1> QED
  BY <1>1, <1>3, <1>4, <1>5 DEF t

LEMMA TailChanges ==
  ASSUME NEW s \in Seq(Nat), s # <<>>
  PROVE  /\ Tail(s) \in Seq(Nat) /\ Head(s) \in Nat
         /\ Range(s) = {Head(s)} \cup Range(Tail(s))
         /\ IsInjective(s) => IsInjective(Tail(s)) /\ Head(s) \notin Range(Tail(s))
         /\ Increasing(s) => Increasing(Tail(s)) /\ (\A x \in Range(Tail(s)) : Head(s) < x)
<1> DEFINE t == Tail(s)
           h == Head(s)
<1>1. /\ t \in Seq(Nat) /\ Len(s) = Len(t) + 1 /\ h = s[1] /\ h \in Nat
      /\ \A i \in 1..Len(t) : t[i] = s[i + 1]
  OBVIOUS
<1>2. /\ DOMAIN t = 1..Len(t) /\ DOMAIN s = 1..(Len(t) + 1) /\ Len(t) \in Nat
      /\ \A i \in 1..Len(s) : s[i] \in Nat
  BY <1>1
<1> HIDE DEF t, h
<1>3. ASSUME NEW i \in DOMAIN s, i # 1
      PROVE  i - 1 \in DOMAIN t /\ t[i - 1] = s[i]
  BY <1>1, <1>2, <1>3
<1>8. 1 \in DOMAIN s /\ \A i \in DOMAIN t : /\ i + 1 \in DOMAIN s /\ t[i] = s[i + 1]
                                           /\ i \in Int /\ 1 < i + 1
  BY <1>1, <1>2
<1>4. Range(s) = {h} \cup Range(t)
  <2>1. \A i \in DOMAIN s : s[i] = h \/ s[i] \in Range(t)
    BY <1>1, <1>3 DEF Range
  <2>3. h \in Range(s) /\ Range(t) \subseteq Range(s)
    BY <1>8, <1>1 DEF Range
  <2>4. Range(s) \subseteq {h} \cup Range(t)
    BY <2>1 DEF Range
  <2> QED
    BY <2>3, <2>4
<1>5. ASSUME IsInjective(s) PROVE IsInjective(t) /\ h \notin Range(t)
  <2>1. \A i \in DOMAIN t : t[i] # h
    <3> TAKE i \in DOMAIN t
    <3>1. s[i + 1] = s[1] => i + 1 = 1
      BY <1>8, <1>5 DEF IsInjective
    <3> QED
      BY <3>1, <1>1, <1>8
  <2>2. ASSUME NEW i \in DOMAIN t, NEW j \in DOMAIN t, t[i] = t[j]
        PROVE  i = j
    <3>1. i + 1 = j + 1
      BY <1>8, <1>5, <2>2 DEF IsInjective
    <3> QED
      BY <3>1, <1>8
  <2> QED
    BY <2>1, <2>2 DEF Range, IsInjective
<1>6. ASSUME Increasing(s) PROVE Increasing(t) /\ (\A x \in Range(t) : h < x)
  <2>1. \A i \in DOMAIN t : h < t[i]
    BY <1>1, <1>8, <1>6 DEF Increasing
  <2>2. ASSUME NEW i \in DOMAIN t, NEW j \in DOMAIN t, i < j
        PROVE  t[i] < t[j]
    <3>1. i + 1 < j + 1
      BY <1>8, <2>2
    <3> QED
      BY <1>8, <1>6, <3>1 DEF Increasing
  <2> QED
    BY <2>1, <2>2 DEF Range, Increasing
<1> QED
  BY <1>1, <1>4, <1>5, <1>6 DEF t, h

LEMMA ConcatChanges ==
  ASSUME NEW s \in Seq(Nat), NEW t \in Seq(Nat)
  PROVE  /\ s \o t \in Seq(Nat) /\ Range(s \o t) = Range(s) \cup Range(t)
         /\ IsInjective(s) /\ IsInjective(t) /\ Range(s) \cap Range(t) = {}
              => IsInjective(s \o t)
<1> DEFINE u == s \o t
<1>1. /\ u \in Seq(Nat) /\ Len(u) = Len(s) + Len(t)
      /\ \A i \in 1..Len(s) : u[i] = s[i]
      /\ \A i \in (Len(s) + 1)..(Len(s) + Len(t)) : u[i] = t[i - Len(s)]
  OBVIOUS
<1>2. /\ Len(s) \in Nat /\ Len(t) \in Nat /\ DOMAIN s = 1..Len(s) /\ DOMAIN t = 1..Len(t)
      /\ DOMAIN u = 1..(Len(s) + Len(t))
  BY <1>1
<1> HIDE DEF u
<1>3. ASSUME NEW i \in DOMAIN u
      PROVE  \/ i \in DOMAIN s /\ u[i] = s[i]
             \/ i - Len(s) \in DOMAIN t /\ u[i] = t[i - Len(s)] /\ i \notin DOMAIN s
  <2>1. CASE i <= Len(s)
    BY <2>1, <1>1, <1>2
  <2>2. CASE i > Len(s)
    <3>1. i \in (Len(s) + 1)..(Len(s) + Len(t)) /\ i - Len(s) \in 1..Len(t)
      BY <2>2, <1>2
    <3> QED
      BY <3>1, <2>2, <1>1, <1>2
  <2> QED
    BY <2>1, <2>2, <1>2
<1>4. \A i \in DOMAIN t : i + Len(s) \in DOMAIN u /\ u[i + Len(s)] = t[i]
  <2> TAKE i \in DOMAIN t
  <2>1. /\ i + Len(s) \in (Len(s) + 1)..(Len(s) + Len(t)) /\ i + Len(s) \in 1..(Len(s) + Len(t))
        /\ (i + Len(s)) - Len(s) = i
    BY <1>2
  <2> QED
    BY <2>1, <1>1, <1>2
<1>5. Range(u) = Range(s) \cup Range(t)
  <2>1. Range(u) \subseteq Range(s) \cup Range(t)
    BY <1>3 DEF Range
  <2>2. Range(s) \subseteq Range(u)
    BY <1>1, <1>2 DEF Range
  <2>3. Range(t) \subseteq Range(u)
    BY <1>4 DEF Range
  <2> QED
    BY <2>1, <2>2, <2>3
<1>6. ASSUME IsInjective(s), IsInjective(t), Range(s) \cap Range(t) = {}
      PROVE  IsInjective(u)
  <2> SUFFICES ASSUME NEW i \in DOMAIN u, NEW j \in DOMAIN u, u[i] = u[j]
               PROVE  i = j
    BY DEF IsInjective
  <2>1. CASE i \in DOMAIN s /\ j \in DOMAIN s
    BY <2>1, <1>3, <1>6 DEF IsInjective
  <2>2. CASE i \notin DOMAIN s /\ j \notin DOMAIN s
    <3>1. i - Len(s) = j - Len(s)
      BY <2>2, <1>3, <1>6 DEF IsInjective
    <3> QED
      BY <3>1, <1>2
  <2>3. ASSUME NEW a \in DOMAIN s, NEW b \in DOMAIN t, s[a] = t[b] PROVE FALSE
    BY <2>3, <1>6 DEF Range
  <2> QED
    BY <2>1, <2>2, <2>3, <1>3
<1> QED
  BY <1>1, <1>5, <1>6 DEF u

LEMMA PrefixChanges ==
  ASSUME NEW s \in Seq(Nat), NEW k \in 0..Len(s)
  PROVE  /\ SubSeq(s, 1, k) \in Seq(Nat) /\ Range(SubSeq(s, 1, k)) \subseteq Range(s)
         /\ IsInjective(s) => IsInjective(SubSeq(s, 1, k))
<1> DEFINE t == SubSeq(s, 1, k)
<1>1. /\ t \in Seq(Nat) /\ Len(t) = k /\ \A i \in 1..k : t[i] = s[i]
  OBVIOUS
<1>2. DOMAIN s = 1..Len(s) /\ DOMAIN t = 1..k /\ DOMAIN t \subseteq DOMAIN s
  BY <1>1
<1> HIDE DEF t
<1>3. Range(t) \subseteq Range(s)
  BY <1>1, <1>2 DEF Range
<1>4. IsInjective(s) => IsInjective(t)
  BY <1>1, <1>2 DEF IsInjective
<1> QED
  BY <1>1, <1>3, <1>4 DEF t
-----------------------------------------------------------------------------
LEMMA InitBuffer == BufferInit => BufferInv
<1> SUFFICES ASSUME BufferInit PROVE BufferInv
  OBVIOUS
<1>1. Range(<<>>) = {} /\ IsInjective(<<>>) /\ Increasing(<<>>) /\ <<>> \in Seq(Nat)
  BY DEF Range, IsInjective, Increasing
<1>2. OnceEach
  BY <1>1 DEF BufferInit, OnceEach
<1>3. Detention
  BY <1>1 DEF BufferInit, Detention
<1>4. Queued
  BY <1>1 DEF BufferInit, Queued, BufferedInOrder
<1> QED
  BY <1>2, <1>3, <1>4 DEF BufferInv

(* The stream takes a message that is not of the buffer, or the next one.  *)
LEMMA StreamKeepsOrder ==
  ASSUME BufferedInOrder, ~failed, stream \in Seq(Nat), NEW m \in Nat,
         stream' = Append(stream, m), UNCHANGED <<detained, failed>>,
         m \in detained => \A x \in Range(stream) \cap detained : x < m
  PROVE  BufferedInOrder'
<1>1. /\ Len(stream') = Len(stream) + 1 /\ stream'[Len(stream) + 1] = m
      /\ \A i \in 1..Len(stream) : stream'[i] = stream[i]
      /\ DOMAIN stream = 1..Len(stream) /\ DOMAIN stream' = 1..(Len(stream) + 1)
      /\ Len(stream) \in Nat
  OBVIOUS
<1> SUFFICES ASSUME NEW i \in DOMAIN stream', NEW j \in DOMAIN stream', i < j,
                    stream'[i] \in detained, stream'[j] \in detained
             PROVE  stream'[i] < stream'[j]
  BY DEF BufferedInOrder
<1>2. i \in DOMAIN stream /\ stream'[i] = stream[i]
  BY <1>1
<1>3. CASE j = Len(stream) + 1
  <2>1. stream[i] \in Range(stream) \cap detained
    BY <1>2 DEF Range
  <2> QED
    BY <1>1, <1>2, <1>3, <2>1
<1>4. CASE j # Len(stream) + 1
  <2>1. j \in DOMAIN stream /\ stream'[j] = stream[j]
    BY <1>1, <1>4
  <2> QED
    BY <1>2, <2>1 DEF BufferedInOrder
<1> QED
  BY <1>3, <1>4

(* A message published while the bus is up goes to Redis, past those of    *)
(* the buffer; otherwise to the buffer, where the oldest makes room.       *)
LEMMA PublishKeeps ==
  ASSUME BufferInv, Publish
  PROVE  BufferInv'
<1> USE DEF BufferInv, OnceEach
<1>1. /\ stamped' = stamped + 1 /\ stamped \in Nat /\ stamped' \in Nat
      /\ \A x \in 1..stamped : x \in 1..stamped' /\ x \in Nat /\ x < stamped'
      /\ stamped' \in 1..stamped' /\ stamped' \notin 1..stamped
      /\ UNCHANGED <<drain, draining, stream, failed>>
  BY DEF Publish
<1>2. CASE sending' = sending \cup {stamped'} /\ UNCHANGED <<buffer, detained>>
  <2>1. OnceEach'
    BY <1>1, <1>2
  <2>2. Detention'
    BY <1>1, <1>2 DEF Detention
  <2>3. sending' \cap detained' = sending \cap detained
    BY <1>1, <1>2 DEF Detention
  <2>4. Queued => Queued'
    BY <1>1, <1>2, <2>3 DEF Queued, BufferedInOrder
  <2> QED
    BY <1>1, <2>1, <2>2, <2>4
<1>3. CASE Put(stamped') /\ detained' = detained \cup {stamped'} /\ UNCHANGED sending
  <2> DEFINE kept == IF Len(buffer) < BufferSize THEN buffer ELSE Tail(buffer)
  <2>1. /\ kept \in Seq(Nat) /\ IsInjective(kept) /\ Range(kept) \subseteq Range(buffer)
        /\ Increasing(buffer) => Increasing(kept)
    <3>1. Len(buffer) >= BufferSize => buffer # <<>>
      BY BufferAssumption
    <3>2. CASE Len(buffer) < BufferSize
      BY <3>2
    <3>3. CASE ~(Len(buffer) < BufferSize)
      <4>1. buffer # <<>>
        BY <3>1, <3>3, BufferAssumption
      <4>2. kept = Tail(buffer)
        BY <3>3
      <4> QED
        BY <4>1, <4>2, TailChanges
    <3> QED
      BY <3>2, <3>3
  <2>2. buffer' = Append(kept, stamped')
    BY <1>3 DEF Put
  <2> HIDE DEF kept
  <2>3. /\ buffer' \in Seq(Nat) /\ Range(buffer') = Range(kept) \cup {stamped'}
        /\ IsInjective(kept) /\ stamped' \notin Range(kept) => IsInjective(buffer')
        /\ Increasing(kept) /\ (\A x \in Range(kept) : x < stamped') => Increasing(buffer')
    BY <1>1, <2>1, <2>2, AppendChanges
  <2>4. OnceEach'
    BY <1>1, <1>3, <2>1, <2>3
  <2>5. sending' \cap detained' = sending \cap detained
    BY <1>1, <1>3
  <2>6. Detention'
    BY <1>1, <1>3, <2>1, <2>3, <2>5 DEF Detention
  <2>7. Range(stream') \cap detained' = Range(stream) \cap detained
    BY <1>1, <1>3
  <2>8. ASSUME ~failed, Queued PROVE BufferedInOrder'
    <3>1. \A i \in DOMAIN stream : stream[i] \in detained' => stream[i] \in detained
      BY <2>7, <1>1 DEF Range
    <3> QED
      BY <3>1, <1>1, <2>8 DEF Queued, BufferedInOrder
  <2>9. ASSUME ~failed, Queued PROVE Queued'
    <3>1. Increasing(buffer')
      BY <1>1, <2>1, <2>3, <2>9 DEF Queued
    <3>2. \A x \in Range(stream) \cap detained, y \in Range(buffer') \cup (sending \cap detained) : x < y
      BY <1>1, <2>1, <2>3, <2>9 DEF Queued
    <3>3. \A x \in sending \cap detained, y \in Range(buffer') : x < y
      BY <1>1, <2>1, <2>3, <2>9 DEF Queued
    <3> QED
      BY <3>1, <3>2, <3>3, <2>5, <2>7, <2>8, <2>9 DEF Queued
  <2> QED
    BY <1>1, <2>4, <2>6, <2>9
<1> QED
  BY <1>2, <1>3 DEF Publish

(* drain_buffer takes the head of the buffer on its way.                   *)
LEMMA DrainOneKeeps ==
  ASSUME BufferInv, DrainOne
  PROVE  BufferInv'
<1> USE DEF BufferInv, OnceEach
<1>1. UNCHANGED <<stamped, stream, detained, failed>> /\ drain = "loop"
  BY DEF DrainOne
<1>2. CASE drain' # "wait" /\ UNCHANGED <<buffer, sending, draining>>
  BY <1>1, <1>2 DEF Detention, Queued, BufferedInOrder
<1>3. CASE /\ drain' = "wait" /\ buffer # <<>> /\ draining' = Head(buffer)
           /\ sending' = sending \cup {Head(buffer)} /\ buffer' = Tail(buffer)
  <2>1. /\ buffer' \in Seq(Nat) /\ draining' \in Nat
        /\ Range(buffer) = {draining'} \cup Range(buffer')
        /\ IsInjective(buffer') /\ draining' \notin Range(buffer')
        /\ Increasing(buffer) =>
              Increasing(buffer') /\ (\A x \in Range(buffer') : draining' < x)
    BY <1>3, TailChanges
  <2>2. OnceEach'
    BY <1>1, <1>3, <2>1
  <2>3. sending' \cap detained' = {draining'}
    BY <1>1, <1>3, <2>1 DEF Detention
  <2>4. Detention'
    BY <1>1, <1>3, <2>1, <2>3 DEF Detention
  <2>5. ASSUME ~failed, Queued PROVE Queued'
    <3>1. BufferedInOrder'
      BY <1>1, <2>5 DEF Queued, BufferedInOrder
    <3> QED
      BY <1>1, <2>1, <2>3, <2>5, <3>1 DEF Queued
  <2> QED
    BY <1>1, <2>2, <2>4, <2>5
<1> QED
  BY <1>2, <1>3 DEF DrainOne

LEMMA XAddKeeps ==
  ASSUME BufferInv, NEW m \in Messages, XAdd(m)
  PROVE  BufferInv'
<1> USE DEF BufferInv, OnceEach
<1>1. /\ m \in sending /\ sending' = sending \ {m} /\ m \in Nat
      /\ stream' = Append(stream, m) /\ UNCHANGED <<stamped, buffer, detained, failed>>
  BY DEF XAdd
<1>2. stream' \in Seq(Nat) /\ Range(stream') = Range(stream) \cup {m}
  BY <1>1, AppendChanges
<1>3. OnceEach'
  BY <1>1, <1>2
<1>4. Detention'
  BY <1>1 DEF Detention, XAdd
<1>5. ASSUME ~failed, Queued PROVE Queued'
  <2>1. m \in detained => \A x \in Range(stream) \cap detained : x < m
    BY <1>1, <1>5 DEF Queued
  <2>2. BufferedInOrder'
    BY <1>1, <1>5, <2>1, StreamKeepsOrder DEF Queued
  <2>3. m \in detained => sending' \cap detained = {}
    BY <1>1 DEF Detention
  <2>4. \A x \in Range(stream') \cap detained, y \in Range(buffer) : x < y
    BY <1>1, <1>2, <1>5 DEF Queued
  <2>5. \A x \in Range(stream') \cap detained, y \in sending' \cap detained : x < y
    BY <1>1, <1>2, <1>5, <2>3 DEF Queued
  <2> QED
    BY <1>1, <1>5, <2>2, <2>4, <2>5 DEF Queued
<1> QED
  BY <1>1, <1>3, <1>4, <1>5

LEMMA XAddRaisesKeeps ==
  ASSUME BufferInv, NEW m \in Messages, XAddRaises(m)
  PROVE  BufferInv'
<1> USE DEF BufferInv, OnceEach
<1>1. /\ m \in sending /\ sending' = sending \ {m} /\ m \in Nat /\ failed'
      /\ UNCHANGED <<stamped, detained>>
  BY DEF XAddRaises
<1>4. stream' \in Seq(Nat) /\ Range(stream') \subseteq 1..stamped
  <2>1. stream' \in {stream, Append(stream, m)}
    BY DEF XAddRaises, ReplyLost
  <2>2. /\ Append(stream, m) \in Seq(Nat)
        /\ Range(Append(stream, m)) = Range(stream) \cup {m}
    BY <1>1, AppendChanges
  <2>3. Range(stream) \subseteq 1..stamped /\ m \in 1..stamped /\ stream \in Seq(Nat)
    BY <1>1
  <2> QED
    BY <2>1, <2>2, <2>3
<1>2. CASE drain = "wait" /\ draining = m
  <2>1. m \in detained /\ sending' \cap detained = {}
    BY <1>1, <1>2 DEF Detention
  <2>2. /\ Append(buffer, m) \in Seq(Nat) /\ Range(Append(buffer, m)) = Range(buffer) \cup {m}
        /\ IsInjective(Append(buffer, m))
    BY <1>1, AppendChanges
  <2>3. buffer' \in {buffer, Append(buffer, m)}
    BY <1>2 DEF XAddRaises
  <2>4. OnceEach'
    BY <1>1, <1>4, <2>2, <2>3
  <2>5. Detention'
    BY <1>1, <1>2, <2>1, <2>2, <2>3 DEF Detention, XAddRaises
  <2> QED
    BY <1>1, <2>4, <2>5
<1>3. CASE ~(drain = "wait" /\ draining = m)
  <2>1. UNCHANGED <<drain, draining, buffer>>
    BY <1>3 DEF XAddRaises
  <2> QED
    BY <1>1, <1>3, <1>4, <2>1 DEF Detention
<1> QED
  BY <1>2, <1>3

LEMMA ProducerKeepsBuffer ==
  ASSUME BufferInv, ProducerStep
  PROVE  BufferInv'
<1>1. CASE Connect \/ Disconnect \/ BeginDrain
  <2>1. /\ UNCHANGED <<stamped, buffer, sending, stream, detained, failed, draining>>
        /\ drain' = drain \/ (drain = "idle" /\ drain' = "loop")
    BY <1>1 DEF Connect, Disconnect, BeginDrain
  <2> QED
    BY <2>1 DEF BufferInv, OnceEach, Detention, Queued, BufferedInOrder
<1> QED
  BY <1>1, PublishKeeps, DrainOneKeeps, XAddKeeps, XAddRaisesKeeps DEF ProducerStep

-----------------------------------------------------------------------------
(* The part of a batch that is glued to a torn line, and the rest.         *)
LEMMA SplitChanges ==
  ASSUME NEW s \in Seq(Nat), s # <<>>, NEW t \in {0, 1}
  PROVE  /\ SubSeq(s, 1, t) \in Seq(Nat) /\ SubSeq(s, t + 1, Len(s)) \in Seq(Nat)
         /\ Len(SubSeq(s, 1, t)) = t
         /\ t = 0 => SubSeq(s, 1, t) = <<>> /\ SubSeq(s, t + 1, Len(s)) = s
         /\ Range(s) = Range(SubSeq(s, 1, t)) \cup Range(SubSeq(s, t + 1, Len(s)))
         /\ IsInjective(s) => IsInjective(SubSeq(s, t + 1, Len(s)))
<1>0. Len(s) \in Nat /\ Len(s) >= 1 /\ 0 + 1 = 1 /\ 1 + 1 = 2
  OBVIOUS
<1> DEFINE first == SubSeq(s, 1, t)
           rest  == SubSeq(s, t + 1, Len(s))
<1>1. CASE t = 0
  <2>1. first = <<>> /\ Len(<<>>) = 0 /\ <<>> \in Seq(Nat)
    BY <1>1
  <2>2. rest = s
    BY <1>0, <1>1
  <2>3. Range(<<>>) = {}
    BY DEF Range
  <2> HIDE DEF first, rest
  <2>4. /\ first \in Seq(Nat) /\ rest \in Seq(Nat) /\ Len(first) = t
        /\ Range(s) = Range(first) \cup Range(rest)
        /\ IsInjective(s) => IsInjective(rest)
    BY <1>1, <2>1, <2>2, <2>3
  <2> QED
    BY <2>1, <2>2, <2>4 DEF first, rest
<1>2. CASE t = 1
  <2>1. first \in Seq(Nat) /\ Len(first) = 1 /\ first[1] = s[1] /\ Head(s) = s[1]
    BY <1>0, <1>2
  <2>2. rest = Tail(s)
    BY <1>0, <1>2
  <2> HIDE DEF first, rest
  <2>3. Range(first) = {Head(s)}
    <3>1. DOMAIN first = {1}
      BY <2>1
    <3> QED
      BY <2>1, <3>1 DEF Range
  <2>4. /\ Tail(s) \in Seq(Nat) /\ Range(s) = {Head(s)} \cup Range(Tail(s))
        /\ IsInjective(s) => IsInjective(Tail(s))
    BY TailChanges
  <2>5. /\ first \in Seq(Nat) /\ rest \in Seq(Nat) /\ Len(first) = t
        /\ Range(s) = Range(first) \cup Range(rest)
        /\ IsInjective(s) => IsInjective(rest)
    BY <1>2, <2>1, <2>2, <2>3, <2>4
  <2> QED
    BY <1>2, <2>5 DEF first, rest
<1> QED
  BY <1>1, <1>2

-----------------------------------------------------------------------------
LEMMA InitArchiver == Init => ArchiverInv
<1> SUFFICES ASSUME Init PROVE ArchiverInv
  OBVIOUS
<1>1. Range(<<>>) = {} /\ IsInjective(<<>>) /\ <<>> \in Seq(Nat) /\ Len(<<>>) = 0
  BY DEF Range, IsInjective
<1>2. KeptOnce
  BY <1>1 DEF Init, KeptOnce, Held, Written
<1>3. Flushing
  BY <1>1 DEF Init, Flushing, Written, Indexed
<1>4. Tearing
  BY <1>1 DEF Init, Tearing
<1>5. Acking
  BY <1>1 DEF Init, Acking, AckedIsHeld
<1> QED
  BY <1>2, <1>3, <1>4, <1>5 DEF ArchiverInv

(* Nothing but the archiver's own variables matters to its invariant.      *)
LEMMA StandstillKeeps ==
  ASSUME ArchiverInv,
         UNCHANGED <<cursor, entry, step, acked, pool, batch, flush, disk, forgone, amiss>>
  PROVE  ArchiverInv'
<1>1. UNCHANGED <<wal, torn, glued, cuts, index, inserted>>
  BY DEF disk, file, db
<1>2. Held' = Held /\ Written' = Written /\ Indexed' = Indexed /\ ReadSoFar' = ReadSoFar
  BY <1>1 DEF Held, Written, Indexed, ReadSoFar
<1>3. KeptOnce'
  BY <1>1, <1>2 DEF ArchiverInv, KeptOnce
<1>4. Flushing'
  BY <1>1, <1>2 DEF ArchiverInv, Flushing
<1>5. Tearing'
  BY <1>1 DEF ArchiverInv, Tearing
<1>6. Acking'
  BY <1>1, <1>2 DEF ArchiverInv, Acking, AckedIsHeld
<1> QED
  BY <1>3, <1>4, <1>5, <1>6 DEF ArchiverInv

-----------------------------------------------------------------------------
(* An entry is read once: the next one is not among those read.            *)
LEMMA ReadEntryKeeps ==
  ASSUME ArchiverInv, ReadEntry
  PROVE  ArchiverInv'
<1> USE DEF ArchiverInv
<1>1. /\ cursor \in Nat /\ cursor' = cursor + 1
      /\ cursor' \notin 1..cursor /\ 1..cursor \subseteq 1..cursor' /\ cursor' \in 1..cursor'
      /\ entry = 0 /\ entry' = cursor' /\ step' = "put"
      /\ UNCHANGED <<acked, pool, batch, flush, wal, torn, glued, cuts, index, inserted,
                     forgone, amiss>>
  BY DEF ReadEntry, KeptOnce, disk, file, db
<1>2. /\ Held' = Held /\ Written' = Written /\ Indexed' = Indexed
      /\ ReadSoFar \subseteq ReadSoFar' /\ entry' \in ReadSoFar' /\ entry' \notin ReadSoFar
  BY <1>1 DEF Held, Written, Indexed, ReadSoFar
<1>3. KeptOnce'
  BY <1>1, <1>2 DEF KeptOnce
<1>4. Flushing'
  BY <1>1, <1>2 DEF Flushing
<1>5. Tearing'
  BY <1>1 DEF Tearing
<1>6. Acking'
  BY <1>1, <1>2 DEF Acking, AckedIsHeld
<1> QED
  BY <1>3, <1>4, <1>5, <1>6

LEMMA HandleMessageKeeps ==
  ASSUME ArchiverInv, HandleMessage
  PROVE  ArchiverInv'
<1> USE DEF ArchiverInv
<1>1. /\ entry # 0 /\ step = "put" /\ step' = "ack" /\ pool' = Append(pool, entry)
      /\ UNCHANGED <<cursor, entry, acked, batch, flush, wal, torn, glued, cuts, index,
                     inserted, forgone, amiss>>
  BY DEF HandleMessage, disk, file, db
<1>2. entry \in ReadSoFar /\ entry \notin Held /\ entry \in Nat
  BY <1>1 DEF KeptOnce, ReadSoFar
<1>3. /\ pool' \in Seq(Nat) /\ Range(pool') = Range(pool) \cup {entry}
      /\ IsInjective(pool')
  BY <1>1, <1>2, AppendChanges DEF KeptOnce, Held
<1>4. /\ Held' = Held \cup {entry} /\ Written' = Written /\ Indexed' = Indexed
      /\ ReadSoFar' = ReadSoFar
  BY <1>1, <1>3 DEF Held, Written, Indexed, ReadSoFar
<1>5. KeptOnce'
  <2>1. Range(pool') \cap (Range(batch') \cup Written') = {}
    BY <1>1, <1>2, <1>3, <1>4 DEF KeptOnce, Held
  <2> QED
    BY <1>1, <1>2, <1>3, <1>4, <2>1 DEF KeptOnce
<1>6. Flushing'
  BY <1>1, <1>4 DEF Flushing
<1>7. Tearing'
  BY <1>1 DEF Tearing
<1>8. Acking'
  BY <1>1, <1>3, <1>4 DEF Acking, AckedIsHeld
<1> QED
  BY <1>5, <1>6, <1>7, <1>8

LEMMA AckKeeps ==
  ASSUME ArchiverInv, Ack
  PROVE  ArchiverInv'
<1> USE DEF ArchiverInv
<1>1. /\ acked' = acked \cup {entry} /\ entry' = 0 /\ entry # 0 /\ step = "ack"
      /\ UNCHANGED <<cursor, step, pool, batch, flush, wal, torn, glued, cuts, index,
                     inserted, forgone, amiss>>
  BY DEF Ack, disk, file, db
<1>2. Held' = Held /\ Written' = Written /\ Indexed' = Indexed /\ ReadSoFar' = ReadSoFar
  BY <1>1 DEF Held, Written, Indexed, ReadSoFar
<1>3. KeptOnce'
  BY <1>1, <1>2 DEF KeptOnce
<1>4. Flushing'
  BY <1>1, <1>2 DEF Flushing
<1>5. Tearing'
  BY <1>1 DEF Tearing
<1>6. Acking'
  BY <1>1, <1>2 DEF Acking, AckedIsHeld, Held, Written
<1> QED
  BY <1>3, <1>4, <1>5, <1>6

-----------------------------------------------------------------------------
LEMMA TakeBatchKeeps ==
  ASSUME ArchiverInv, TakeBatch,
         UNCHANGED <<cursor, entry, step, acked, disk, forgone, amiss>>
  PROVE  ArchiverInv'
<1> USE DEF ArchiverInv
<1>1. /\ flush = "sleep" /\ flush' = "wal" /\ batch = <<>> /\ pool # <<>>
      /\ batch' = pool /\ pool' = <<>> /\ Range(<<>>) = {} /\ IsInjective(<<>>)
      /\ <<>> \in Seq(Nat)
      /\ UNCHANGED <<wal, torn, glued, cuts, index, inserted>>
  BY DEF TakeBatch, Flushing, Range, IsInjective, disk, file, db
<1>2. Held' = Held /\ Written' = Written /\ Indexed' = Indexed /\ ReadSoFar' = ReadSoFar
  BY <1>1 DEF Held, Written, Indexed, ReadSoFar
<1>3. KeptOnce'
  BY <1>1, <1>2 DEF KeptOnce
<1>4. Flushing'
  BY <1>1, <1>2 DEF Flushing, KeptOnce
<1>5. Tearing'
  BY <1>1 DEF Tearing
<1>6. Acking'
  BY <1>1, <1>2 DEF Acking, AckedIsHeld, Held, Written
<1> QED
  BY <1>3, <1>4, <1>5, <1>6

(* The lines written are in the file, one of them perhaps not by itself.   *)
LEMMA LinesWritten ==
  ASSUME {wal, glued} \subseteq Seq(Nat), IsInjective(wal), torn \in {0, 1},
         NEW lines \in Seq(Nat), lines # <<>>, IsInjective(lines),
         Range(lines) \cap Written = {}, WriteLines(lines)
  PROVE  /\ wal' \in Seq(Nat) /\ glued' \in Seq(Nat) /\ IsInjective(wal')
         /\ Written' = Written \cup Range(lines)
         /\ Len(glued') = Len(glued) + torn
         /\ torn = 0 => glued' = glued /\ Range(wal') = Range(wal) \cup Range(lines)
<1> DEFINE stuck == SubSeq(lines, 1, torn)
           whole == SubSeq(lines, torn + 1, Len(lines))
<1>1. glued' = glued \o stuck /\ wal' = wal \o whole
  BY DEF WriteLines
<1>2. /\ stuck \in Seq(Nat) /\ whole \in Seq(Nat) /\ Len(stuck) = torn
      /\ torn = 0 => stuck = <<>> /\ whole = lines
      /\ Range(lines) = Range(stuck) \cup Range(whole) /\ IsInjective(whole)
  BY SplitChanges
<1> HIDE DEF stuck, whole
<1>3. /\ wal' \in Seq(Nat) /\ Range(wal') = Range(wal) \cup Range(whole)
      /\ Range(wal) \cap Range(whole) = {} => IsInjective(wal')
  BY <1>1, <1>2, ConcatChanges
<1>4. glued' \in Seq(Nat) /\ Range(glued') = Range(glued) \cup Range(stuck)
  BY <1>1, <1>2, ConcatChanges
<1>5. Range(wal) \cap Range(whole) = {}
  BY <1>2 DEF Written
<1>6. Len(glued') = Len(glued) + torn
  BY <1>1, <1>2
<1>7. torn = 0 => glued' = glued
  BY <1>1, <1>2
<1>8. Written' = Written \cup Range(lines)
  BY <1>2, <1>3, <1>4 DEF Written
<1> QED
  BY <1>2, <1>3, <1>4, <1>5, <1>6, <1>7, <1>8

LEMMA WriteWalKeeps ==
  ASSUME ArchiverInv, WriteWal
  PROVE  ArchiverInv'
<1> USE DEF ArchiverInv
<1>1. /\ flush = "wal" /\ flush' = "index" /\ WriteLines(batch) /\ torn' = 0
      /\ UNCHANGED <<cursor, entry, step, acked, pool, batch, cuts, index, inserted,
                     forgone, amiss>>
  BY DEF WriteWal, db
<1>2. /\ wal' \in Seq(Nat) /\ glued' \in Seq(Nat) /\ IsInjective(wal')
      /\ Written' = Written \cup Range(batch)
      /\ Len(glued') = Len(glued) + torn
      /\ torn = 0 => glued' = glued /\ Range(wal') = Range(wal) \cup Range(batch)
  BY <1>1, LinesWritten DEF KeptOnce, Flushing, Tearing
<1>3. Held' = Held /\ Indexed' = Indexed /\ ReadSoFar' = ReadSoFar
  BY <1>1, <1>2 DEF Held, Indexed, ReadSoFar
<1>4. KeptOnce'
  BY <1>1, <1>2, <1>3 DEF KeptOnce, Held
<1>5. Flushing'
  BY <1>1, <1>2, <1>3 DEF Flushing, Tearing
<1>6. Tearing'
  <2>1. Len(glued') + torn' <= cuts'
    BY <1>1, <1>2 DEF Tearing, KeptOnce
  <2> QED
    BY <1>1, <1>2, <2>1 DEF Tearing
<1>7. Acking'
  BY <1>1, <1>2, <1>3 DEF Acking, AckedIsHeld, Held, Written
<1> QED
  BY <1>4, <1>5, <1>6, <1>7

(* What a commit leaves in the index.                                      *)
LEMMA CommittedRows ==
  ASSUME KeptOnce, Flushing, flush = "index"
  PROVE  /\ Committed \in Seq(Nat) /\ IsInjective(Committed)
         /\ Range(Committed) = Indexed \cup Range(batch)
<1> DEFINE old == index \o inserted
<1>1. /\ old \in Seq(Nat) /\ Range(old) = Indexed /\ IsInjective(old)
  BY ConcatChanges DEF KeptOnce, Flushing, Indexed
<1>2. Committed = old \o batch
  BY DEF Committed
<1> HIDE DEF old
<1> QED
  BY <1>1, <1>2, ConcatChanges DEF KeptOnce, Flushing

LEMMA SqliteInsertKeeps ==
  ASSUME ArchiverInv, SqliteInsert
  PROVE  ArchiverInv'
<1> USE DEF ArchiverInv
<1>1. /\ flush = "index" /\ flush' = "sleep" /\ index' = Committed /\ batch' = <<>>
      /\ inserted' = <<>>
      /\ UNCHANGED <<cursor, entry, step, acked, pool, wal, torn, glued, cuts, forgone,
                     amiss>>
      /\ Range(<<>>) = {} /\ IsInjective(<<>>) /\ <<>> \in Seq(Nat)
  BY DEF SqliteInsert, FlushEnds, Range, IsInjective, file
<1>2. /\ index' \in Seq(Nat) /\ Range(index') = Indexed \cup Range(batch)
      /\ IsInjective(index')
  BY <1>1, CommittedRows
<1>3. /\ Held' = Held /\ Written' = Written /\ Indexed' = Range(index')
      /\ ReadSoFar' = ReadSoFar
  BY <1>1 DEF Held, Written, Indexed, ReadSoFar, Flushing
<1>4. KeptOnce'
  BY <1>1, <1>2, <1>3 DEF KeptOnce
<1>5. Flushing'
  BY <1>1, <1>2, <1>3 DEF Flushing, Tearing, Indexed
<1>6. Tearing'
  BY <1>1 DEF Tearing
<1>7. Acking'
  BY <1>1, <1>3 DEF Acking, AckedIsHeld, Held, Written
<1> QED
  BY <1>4, <1>5, <1>6, <1>7

(* A flush that does not end leaves the files as the order of the writes   *)
(* and the injectivity of each demand.                                     *)
LEMMA CutFiles ==
  ASSUME ArchiverInv, CutShort
  PROVE  /\ batch' = <<>> /\ {wal', glued', index', inserted'} \subseteq Seq(Nat)
         /\ IsInjective(wal') /\ IsInjective(index') /\ IsInjective(inserted')
         /\ Written \subseteq Written' /\ Written' \subseteq Written \cup Range(batch)
         /\ Indexed' \subseteq Written' /\ Range(index') \cap Range(inserted') = {}
         /\ torn' \in {0, 1} /\ cuts' \in Nat /\ Len(glued') + torn' <= cuts'
         /\ Range(batch) # {} \/ (flush = "sleep" /\ UNCHANGED disk)
<1> USE DEF ArchiverInv, KeptOnce, Flushing
<1>1. batch' = <<>>
  BY DEF CutShort
<1>2. /\ {wal, glued, index, inserted, batch} \subseteq Seq(Nat)
      /\ IsInjective(wal) /\ IsInjective(index) /\ IsInjective(inserted) /\ IsInjective(batch)
      /\ flush \in {"sleep", "wal", "index"}
      /\ torn \in {0, 1} /\ cuts \in Nat /\ Len(glued) + torn <= cuts /\ Len(glued) \in Nat
  BY DEF Tearing
<1>3. flush # "sleep" => Range(batch) # {} /\ batch # <<>>
  <2>1. batch # <<>> => 1 \in DOMAIN batch
    BY <1>2
  <2> QED
    BY <2>1 DEF Range
<1>4. CASE flush = "wal"
  <2>1. CutFile /\ UNCHANGED <<index, inserted>>
    BY <1>4 DEF CutShort, db
  <2>2. CASE torn' \in {torn, 1} /\ UNCHANGED <<wal, glued>>
    <3>1. Written' = Written /\ Indexed' = Indexed
      BY <2>1, <2>2 DEF Written, Indexed
    <3>2. torn' \in {0, 1} /\ cuts' \in Nat /\ Len(glued') + torn' <= cuts'
      BY <1>2, <2>1, <2>2 DEF CutFile
    <3> QED
      BY <1>1, <1>2, <1>3, <1>4, <2>1, <2>2, <3>1, <3>2
  <2>3. ASSUME NEW k \in 1..Len(batch), WriteLines(SubSeq(batch, 1, k)),
               torn' \in (IF k < Len(batch) THEN {0, 1} ELSE {0})
        PROVE  /\ wal' \in Seq(Nat) /\ glued' \in Seq(Nat) /\ IsInjective(wal')
               /\ Written \subseteq Written' /\ Written' \subseteq Written \cup Range(batch)
               /\ torn' \in {0, 1} /\ cuts' \in Nat /\ Len(glued') + torn' <= cuts'
    <3> DEFINE part == SubSeq(batch, 1, k)
    <3>0. k \in 0..Len(batch) /\ k \in Nat /\ k # 0 /\ Len(part) = k
      BY <1>2
    <3>1. part \in Seq(Nat) /\ Range(part) \subseteq Range(batch) /\ IsInjective(part)
      BY <1>2, <3>0, PrefixChanges
    <3>2. WriteLines(part)
      BY <2>3
    <3> HIDE DEF part
    <3>6. part # <<>>
      <4>1. Len(<<>>) = 0
        OBVIOUS
      <4> QED
        BY <3>0, <4>1
    <3>3. /\ wal' \in Seq(Nat) /\ glued' \in Seq(Nat) /\ IsInjective(wal')
          /\ Written' = Written \cup Range(part) /\ Len(glued') = Len(glued) + torn
      <4>1. Range(part) \cap Written = {}
        BY <1>4, <3>1
      <4> QED
        BY <1>2, <3>1, <3>2, <3>6, <4>1, LinesWritten
    <3>4. torn' \in {0, 1} /\ cuts' = cuts + 1
      BY <2>1, <2>3 DEF CutFile
    <3>5. cuts' \in Nat /\ Len(glued') + torn' <= cuts'
      BY <1>2, <3>3, <3>4
    <3> QED
      BY <3>1, <3>3, <3>4, <3>5
  <2>4. \/ torn' \in {torn, 1} /\ UNCHANGED <<wal, glued>>
        \/ /\ wal' \in Seq(Nat) /\ glued' \in Seq(Nat) /\ IsInjective(wal')
           /\ Written \subseteq Written' /\ Written' \subseteq Written \cup Range(batch)
           /\ torn' \in {0, 1} /\ cuts' \in Nat /\ Len(glued') + torn' <= cuts'
    BY <2>1, <2>3 DEF CutFile
  <2>5. Indexed' = Indexed
    BY <2>1 DEF Indexed
  <2> QED
    BY <1>1, <1>2, <1>3, <1>4, <2>1, <2>2, <2>4, <2>5
<1>5. CASE flush = "index"
  <2>1. CutIndex /\ UNCHANGED <<wal, torn, glued, cuts>>
    BY <1>5 DEF CutShort, file
  <2>2. Written' = Written /\ Range(batch) \subseteq Written
    BY <1>5, <2>1 DEF Written
  <2>3. ASSUME NEW k \in 0..Len(batch), inserted' = inserted \o SubSeq(batch, 1, k),
               UNCHANGED index
        PROVE  /\ inserted' \in Seq(Nat) /\ IsInjective(inserted')
               /\ Indexed' \subseteq Written /\ Range(index') \cap Range(inserted') = {}
    <3> DEFINE part == SubSeq(batch, 1, k)
    <3>1. part \in Seq(Nat) /\ Range(part) \subseteq Range(batch) /\ IsInjective(part)
      BY <1>2, PrefixChanges
    <3>2. inserted' = inserted \o part
      BY <2>3
    <3> HIDE DEF part
    <3>3. /\ inserted' \in Seq(Nat) /\ Range(inserted') = Range(inserted) \cup Range(part)
          /\ Range(inserted) \cap Range(part) = {} => IsInjective(inserted')
      BY <1>2, <3>1, <3>2, ConcatChanges
    <3> QED
      BY <1>5, <2>2, <2>3, <3>1, <3>3 DEF Indexed
  <2>4. CASE inserted' = <<>> /\ index' \in {index, Committed}
    <3>1. Range(<<>>) = {} /\ IsInjective(<<>>) /\ <<>> \in Seq(Nat)
      BY DEF Range, IsInjective
    <3>2. /\ Committed \in Seq(Nat) /\ IsInjective(Committed)
          /\ Range(Committed) = Indexed \cup Range(batch)
      BY <1>5, CommittedRows
    <3> QED
      BY <1>1, <1>2, <1>3, <1>5, <2>1, <2>2, <2>4, <3>1, <3>2 DEF Indexed
  <2>5. \/ /\ inserted' \in Seq(Nat) /\ IsInjective(inserted') /\ UNCHANGED index
           /\ Indexed' \subseteq Written /\ Range(index') \cap Range(inserted') = {}
        \/ inserted' = <<>> /\ index' \in {index, Committed}
    BY <2>1, <2>3 DEF CutIndex
  <2> QED
    BY <1>1, <1>2, <1>3, <1>5, <2>1, <2>2, <2>4, <2>5
<1>6. CASE flush = "sleep"
  <2>1. UNCHANGED <<wal, torn, glued, cuts, index, inserted>> /\ UNCHANGED disk
    BY <1>6 DEF CutShort, disk, file, db
  <2>2. Written' = Written /\ Indexed' = Indexed
    BY <2>1 DEF Written, Indexed
  <2> QED
    BY <1>1, <1>2, <1>6, <2>1, <2>2
<1> QED
  BY <1>2, <1>4, <1>5, <1>6

(* The same with the entries it takes from the memory.                     *)
LEMMA CutKeeps ==
  ASSUME ArchiverInv, CutShort, NEW entries, Forgo(entries), flush' = "sleep",
         Range(batch) \subseteq entries,
         \/ UNCHANGED <<entry, pool>>
         \/ entry' = 0 /\ pool' = <<>> /\ Range(pool) \subseteq entries,
         UNCHANGED <<cursor, step, acked>>
  PROVE  ArchiverInv'
<1> USE DEF ArchiverInv
<1>1. /\ forgone' = forgone \cup entries /\ (~amiss' => ~amiss /\ entries = {})
      /\ Range(<<>>) = {} /\ IsInjective(<<>>) /\ <<>> \in Seq(Nat)
  <2>1. forgone' = forgone \cup entries /\ (~amiss' => ~amiss /\ entries = {})
    BY Zenon DEF Forgo
  <2> QED
    BY <2>1 DEF Range, IsInjective
<1>2. /\ batch' = <<>> /\ {wal', glued', index', inserted'} \subseteq Seq(Nat)
      /\ IsInjective(wal') /\ IsInjective(index') /\ IsInjective(inserted')
      /\ Written \subseteq Written' /\ Written' \subseteq Written \cup Range(batch)
      /\ Indexed' \subseteq Written' /\ Range(index') \cap Range(inserted') = {}
      /\ torn' \in {0, 1} /\ cuts' \in Nat /\ Len(glued') + torn' <= cuts'
      /\ Range(batch) # {} \/ (flush = "sleep" /\ UNCHANGED disk)
  BY CutFiles
<1>3. Range(pool') \subseteq Range(pool) /\ IsInjective(pool') /\ pool' \in Seq(Nat)
  BY <1>1 DEF KeptOnce
<1>4. /\ Held' \subseteq Held /\ Held \subseteq Held' \cup entries
      /\ ReadSoFar' = ReadSoFar
  BY <1>1, <1>2, <1>3 DEF Held, ReadSoFar
<1>5. KeptOnce'
  BY <1>1, <1>2, <1>3, <1>4 DEF KeptOnce
<1>6. ~amiss' => flush = "sleep" /\ UNCHANGED <<wal, torn, glued, index, inserted>>
  BY <1>1, <1>2 DEF disk, file, db
<1>7. Flushing'
  BY <1>1, <1>2, <1>6 DEF Flushing
<1>8. Tearing'
  BY <1>1, <1>2, <1>6 DEF Tearing
<1>9. Acking'
  <2>1. acked \subseteq Held \cup forgone
    BY DEF Acking, AckedIsHeld, Held, Written
  <2>2. acked' \subseteq Held' \cup forgone'
    BY <1>1, <1>4, <2>1
  <2> QED
    BY <1>1, <1>4, <2>2 DEF Acking, AckedIsHeld, Held, Written
<1> QED
  BY <1>5, <1>7, <1>8, <1>9

LEMMA ExitKeeps ==
  ASSUME ArchiverInv, Exit
  PROVE  ArchiverInv'
<1> USE DEF ArchiverInv
<1>1. /\ forgone' = forgone \cup Lost /\ pool' = <<>> /\ entry' = 0
      /\ (~amiss' => ~amiss)
      /\ UNCHANGED <<cursor, step, acked, batch, flush, wal, torn, glued, cuts, index,
                     inserted>>
      /\ Range(<<>>) = {} /\ IsInjective(<<>>) /\ <<>> \in Seq(Nat)
  <2>1. ~amiss' => ~amiss
    BY Zenon DEF Exit, Forgo
  <2> QED
    BY <2>1 DEF Exit, Forgo, Range, IsInjective, disk, file, db
<1>2. /\ Held' \subseteq Held /\ Held \subseteq Held' \cup Lost
      /\ Written' = Written /\ Indexed' = Indexed /\ ReadSoFar' = ReadSoFar
  BY <1>1 DEF Held, Written, Indexed, Lost, ReadSoFar
<1>3. KeptOnce'
  BY <1>1, <1>2 DEF KeptOnce
<1>4. Flushing'
  BY <1>1, <1>2 DEF Flushing
<1>5. Tearing'
  BY <1>1 DEF Tearing
<1>6. Acking'
  <2>1. acked' \subseteq Held' \cup forgone'
    BY <1>1, <1>2 DEF Acking, AckedIsHeld, Held, Written
  <2> QED
    BY <1>1, <2>1 DEF Acking, AckedIsHeld, Held, Written
<1> QED
  BY <1>3, <1>4, <1>5, <1>6

(* An open transaction is undone.                                          *)
LEMMA RestartKeeps ==
  ASSUME ArchiverInv, Restart
  PROVE  ArchiverInv'
<1> USE DEF ArchiverInv
<1>1. /\ inserted' = <<>>
      /\ UNCHANGED <<cursor, entry, step, acked, pool, batch, flush, wal, torn, glued,
                     cuts, index, forgone, amiss>>
      /\ Range(<<>>) = {} /\ IsInjective(<<>>) /\ <<>> \in Seq(Nat)
  BY DEF Restart, file, Range, IsInjective
<1>2. /\ Held' = Held /\ Written' = Written /\ Indexed' \subseteq Indexed
      /\ ReadSoFar' = ReadSoFar
  BY <1>1 DEF Held, Written, Indexed, ReadSoFar
<1>3. KeptOnce'
  BY <1>1, <1>2 DEF KeptOnce
<1>4. Flushing'
  BY <1>1, <1>2 DEF Flushing
<1>5. Tearing'
  BY <1>1 DEF Tearing
<1>6. Acking'
  BY <1>1, <1>2 DEF Acking, AckedIsHeld
<1> QED
  BY <1>3, <1>4, <1>5, <1>6

LEMMA ArchiverKeeps ==
  ASSUME ArchiverInv, SubscriptionStep \/ FlushStep \/ LifeStep
  PROVE  ArchiverInv'
<1>1. CASE SubscriptionStep
  BY <1>1, ReadEntryKeeps, HandleMessageKeeps, AckKeeps DEF SubscriptionStep
<1>2. CASE FlushBegins \/ LastFlush
  <2>1. CASE TakeBatch
    BY <1>2, <2>1, TakeBatchKeeps DEF FlushBegins, LastFlush
  <2>2. CASE ~TakeBatch
    <3>1. UNCHANGED <<cursor, entry, step, acked, pool, batch, flush, disk, forgone, amiss>>
      BY <1>2, <2>2 DEF FlushBegins, LastFlush
    <3> QED
      BY <3>1, StandstillKeeps
  <2> QED
    BY <2>1, <2>2
<1>3. CASE WriteWal \/ SqliteInsert
  BY <1>3, WriteWalKeeps, SqliteInsertKeeps
<1>4. CASE FlushRaises \/ Close
  <2>1. /\ CutShort /\ Forgo(Range(batch)) /\ flush' = "sleep"
        /\ UNCHANGED <<entry, pool, cursor, step, acked>>
    BY <1>4 DEF FlushRaises, Close, FlushEnds
  <2> QED
    BY <2>1, CutKeeps
<1>5. CASE Crash
  BY <1>5, CutKeeps DEF Crash, Lost
<1>6. CASE Exit
  BY <1>6, ExitKeeps
<1>7. CASE Restart
  BY <1>7, RestartKeeps
<1> QED
  BY <1>1, <1>2, <1>3, <1>4, <1>5, <1>6, <1>7 DEF FlushStep, LifeStep

-----------------------------------------------------------------------------
LEMMA Invariance == Spec => []Inv
<1>1. Init => Inv
  BY InitBuffer, InitArchiver DEF Init, Inv
<1>2. Inv /\ [Next]_vars => Inv'
  <2> SUFFICES ASSUME Inv, [Next]_vars PROVE Inv'
    OBVIOUS
  <2>1. CASE ProducerStep /\ UNCHANGED <<archiver, conduct>>
    BY <2>1, ProducerKeepsBuffer, StandstillKeeps DEF Inv, archiver
  <2>2. CASE (SubscriptionStep \/ FlushStep \/ LifeStep) /\ UNCHANGED <<producer, conduct>>
    <3>1. BufferInv'
      BY <2>2 DEF Inv, BufferInv, OnceEach, Detention, Queued, BufferedInOrder, producer
    <3> QED
      BY <2>2, <3>1, ArchiverKeeps DEF Inv
  <2>3. CASE UNCHANGED vars
    <3>1. BufferInv'
      BY <2>3 DEF vars, producer, Inv, BufferInv, OnceEach, Detention, Queued, BufferedInOrder
    <3> QED
      BY <2>3, <3>1, StandstillKeeps DEF vars, archiver, Inv
  <2> QED
    BY <2>1, <2>2, <2>3 DEF Next
<1> QED
  BY <1>1, <1>2, PTL DEF Spec

(* Unless an XADD raised, what waited in the buffer reaches Redis in the   *)
(* order it was published, over any flaps of the bus, drops of the oldest  *)
(* and drains that begin at any moment (drain_buffer, redis_bus.py).       *)
THEOREM DrainsInOrder == Spec => []BufferedInOrder
<1>1. Inv => BufferedInOrder
  BY DEF Inv, BufferInv, Queued, BufferedInOrder
<1> QED
  BY <1>1, Invariance, PTL

(* No entry is archived twice, and the index is behind the file, for any   *)
(* flushes that fail, are cancelled or cut short, in the file at any       *)
(* character and in the index at any row, and any restarts: an entry the   *)
(* index names and the file has no line for is glued to a torn line, at    *)
(* most one for each write that was cut short (flush, _sqlite_insert and   *)
(* close, archiver.py).                                                    *)
THEOREM FileIsTruth == Spec => []IndexFollowsWal
<1>1. Inv => IndexFollowsWal
  <2> SUFFICES ASSUME Inv PROVE IndexFollowsWal
    OBVIOUS
  <2>1. Len(glued) <= cuts
    BY DEF Inv, ArchiverInv, KeptOnce, Tearing
  <2> QED
    BY <2>1 DEF Inv, ArchiverInv, KeptOnce, Flushing, Written, Indexed, IndexFollowsWal
<1> QED
  BY <1>1, Invariance, PTL

(* An acknowledged entry is in memory or was written, or it was in memory  *)
(* when a flush or the process ended (handle_message, archiver.py).        *)
THEOREM NothingAckedIsDropped == Spec => []AckedIsHeld
<1>1. Inv => AckedIsHeld
  BY DEF Inv, ArchiverInv, Acking
<1> QED
  BY <1>1, Invariance, PTL
=============================================================================
