------------------------ MODULE StreamDelivery_proofs ------------------------
(* Theorems of StreamDelivery, for any number of messages, any batch size, *)
(* any crashes, errors and expiries.                                       *)
EXTENDS StreamDelivery, TLAPS

(* Every start of a handler is paid for by a key: by the one that is set,  *)
(* or by one that was set and expired.                                     *)
Accounted ==
  /\ runs \in [Messages -> Nat] /\ expired \in [Messages -> Nat]
  /\ \A m \in Messages : m \in marks => runs[m] <= 1 + expired[m]
  /\ \A m \in Messages : m \notin marks => runs[m] <= expired[m]

LEMMA CheckKeeps ==
  ASSUME Accounted, NEW t \in Tasks, Check(t)
  PROVE  Accounted'
<1> USE DEF Accounted
<1> DEFINE m == Head(todo[t])
<1>1. UNCHANGED expired
  BY DEF Check
<1>2. CASE m \in marks
  <2>1. UNCHANGED <<marks, runs>>
    BY <1>2 DEF Check
  <2> QED
    BY <1>1, <2>1
<1>3. CASE m \notin marks
  <2>1. marks' = marks \cup {m} /\ runs' = [runs EXCEPT ![m] = @ + 1]
    BY <1>3 DEF Check
  <2> HIDE DEF m
  <2>2. runs' \in [Messages -> Nat]
    <3>1. CASE m \in Messages
      BY <2>1, <3>1
    <3>2. CASE m \notin Messages
      <4>1. \A n \in Messages : runs'[n] = runs[n]
        BY <2>1, <3>2
      <4> QED
        BY <2>1, <4>1
    <3> QED
      BY <3>1, <3>2
  <2>3. \A n \in Messages : n # m => runs'[n] = runs[n]
    BY <2>1
  <2>4. m \in Messages => runs'[m] = runs[m] + 1 /\ runs[m] <= expired[m]
    BY <1>3, <2>1
  <2>5. ASSUME NEW n \in Messages
        PROVE  /\ n \in marks' => runs'[n] <= 1 + expired[n]
               /\ n \notin marks' => runs'[n] <= expired[n]
    <3>1. CASE n = m
      BY <2>1, <2>4, <3>1
    <3>2. CASE n # m
      BY <2>1, <2>3, <3>2
    <3> QED
      BY <3>1, <3>2
  <2> QED
    BY <1>1, <2>2, <2>5
<1> QED
  BY <1>2, <1>3

LEMMA ExpireKeeps ==
  ASSUME Accounted, NEW m \in Messages, Expire(m)
  PROVE  Accounted'
<1> USE DEF Accounted
<1>1. /\ m \in marks /\ marks' = marks \ {m} /\ runs' = runs
      /\ expired' = [expired EXCEPT ![m] = @ + 1]
  BY DEF Expire
<1> QED
  BY <1>1

(* Every other step leaves the counts alone, and takes no key away.        *)
LEMMA OthersKeep ==
  ASSUME Accounted, marks \subseteq marks', UNCHANGED <<runs, expired>>
  PROVE  Accounted'
<1> QED
  BY DEF Accounted

LEMMA DeliveryStep ==
  ASSUME Accounted, [Next]_vars
  PROVE  Accounted'
<1>1. ASSUME NEW t \in Tasks, Process(t)
      PROVE  Accounted'
  <2>1. CASE Check(t)
    BY <2>1, CheckKeeps
  <2>2. CASE EntryMalformed(t) \/ HandlerReturns(t) \/ HandlerRaises(t) \/ Ack(t) \/ RedisCallFails(t)
    <3>1. marks \subseteq marks' /\ UNCHANGED <<runs, expired>>
      BY <2>2 DEF EntryMalformed, HandlerReturns, HandlerRaises, Ack, RedisCallFails, redis, history
    <3> QED
      BY <3>1, OthersKeep
  <2> QED
    BY <1>1, <2>1, <2>2 DEF Process
<1>2. CASE \/ Publish \/ Read \/ RefreshFails \/ ReplayList \/ ReplayClaim \/ ReplayFails
           \/ CrashAndRestart
  <2>1. UNCHANGED <<marks, runs, expired>>
    BY <1>2 DEF Publish, Read, RefreshFails, ReplayList, ReplayClaim, ReplayFails, CrashAndRestart,
                redis, history
  <2> QED
    BY <2>1, OthersKeep
<1>3. ASSUME NEW m \in Messages, Expire(m)
      PROVE  Accounted'
  BY <1>3, ExpireKeeps
<1>4. CASE UNCHANGED vars
  BY <1>4, OthersKeep DEF vars, redis, history
<1> QED
  BY <1>1, <1>2, <1>3, <1>4 DEF Next, LiveStep, ReplayStep, Tasks

(* At most one start of a message's handler per life of its key, whatever  *)
(* the two tasks, the crashes and the errors of Redis do.                  *)
THEOREM AtMostOncePerKeyAlways == Spec => []AtMostOncePerKey
<1>1. Init => Accounted
  BY DEF Init, Accounted
<1>2. Accounted /\ [Next]_vars => Accounted'
  BY DeliveryStep
<1>3. Accounted => AtMostOncePerKey
  <2> SUFFICES ASSUME Accounted, NEW m \in Messages
               PROVE  runs[m] <= 1 + expired[m]
    BY DEF AtMostOncePerKey
  <2>1. runs[m] \in Nat /\ expired[m] \in Nat
    BY DEF Accounted
  <2>2. CASE m \in marks
    BY <2>2 DEF Accounted
  <2>3. CASE m \notin marks
    BY <2>1, <2>3 DEF Accounted
  <2> QED
    BY <2>2, <2>3
<1> QED
  BY <1>1, <1>2, <1>3, PTL DEF Spec

-----------------------------------------------------------------------------
(* Where nothing is replayed the live task meets each entry once, in the   *)
(* order of the stream: the key of an entry it has yet to look at is not   *)
(* set, so what it acknowledges was handled.                               *)
Ahead == IF phase["live"] = "check" THEN 1 ELSE 2

OneByOne ==
  /\ todo["live"] \in Seq(Nat)
  /\ \A i \in 1..Len(todo["live"]) : todo["live"][i] \in 1..cursor
  /\ \A i, j \in 1..Len(todo["live"]) : i < j => todo["live"][i] < todo["live"][j]
  /\ \A i \in Ahead..Len(todo["live"]) : todo["live"][i] \notin marks
  /\ phase["live"] \notin {"idle", "ended"} => todo["live"] # <<>>
  /\ phase["live"] = "ack" => Head(todo["live"]) \in completed

Unreplayed ==
  /\ published \in Nat /\ cursor \in 0..published /\ marks \subseteq 1..cursor
  /\ DOMAIN phase = Tasks /\ DOMAIN todo = Tasks
  /\ phase["replay"] \in {"list", "idle"}
  /\ phase["live"] \in {"idle", "check", "run", "ack", "ended"}
  /\ OneByOne
  /\ \A m \in 1..cursor : m \in pel \/ m \in completed

(* Going on with the next entry, the keys at most of the first one set.    *)
LEMMA NextEntryKeeps ==
  ASSUME Unreplayed, NextEntry("live"), phase["live"] \notin {"idle", "ended"},
         marks' = marks \/ marks' = marks \cup {Head(todo["live"])}, UNCHANGED <<published, cursor>>,
         \A m \in 1..cursor : m \in pel' \/ m \in completed'
  PROVE  Unreplayed'
<1> USE DEF Unreplayed, OneByOne
<1> DEFINE s == todo["live"]
           r == Tail(s)
<1>1. s \in Seq(Nat) /\ s # <<>>
  OBVIOUS
<1>2. /\ r \in Seq(Nat) /\ Len(s) = Len(r) + 1 /\ Len(r) \in Nat
      /\ \A i \in 1..Len(r) : r[i] = s[i + 1]
  BY <1>1
<1>3. \A i \in 1..Len(r) : i + 1 \in 1..Len(s) /\ i + 1 \in Ahead..Len(s)
  BY <1>2 DEF Ahead
<1>4. /\ todo'["live"] = r /\ DOMAIN todo' = Tasks /\ DOMAIN phase' = Tasks
      /\ phase'["replay"] = phase["replay"]
      /\ phase'["live"] = IF r = <<>> THEN "idle" ELSE "check"
  BY DEF NextEntry, Take, Tasks
<1> HIDE DEF r, s
<1>10. Head(s) = s[1] /\ 1 \in 1..Len(s) /\ s[1] \in 1..cursor
  <2>1. Head(s) = s[1]
    BY <1>1
  <2>2. 1 \in 1..Len(s)
    BY <1>2
  <2> QED
    BY <2>1, <2>2 DEF s
<1>5. \A i \in 1..Len(r) : r[i] \in 1..cursor /\ r[i] \notin marks /\ r[i] # s[1]
  <2> TAKE i \in 1..Len(r)
  <2>1. s[1] < s[i + 1]
    <3>1. \A j, k \in 1..Len(s) : j < k => s[j] < s[k]
      BY DEF s
    <3>2. 1 \in 1..Len(s) /\ i + 1 \in 1..Len(s) /\ 1 < i + 1
      BY <1>3, <1>10
    <3> QED
      BY <3>1, <3>2
  <2>2. s[i + 1] \in 1..cursor /\ s[i + 1] \notin marks
    BY <1>3 DEF s
  <2> QED
    BY <1>2, <1>10, <2>1, <2>2
<1>6. \A i, j \in 1..Len(r) : i < j => r[i] < r[j]
  <2> SUFFICES ASSUME NEW i \in 1..Len(r), NEW j \in 1..Len(r), i < j
               PROVE  r[i] < r[j]
    OBVIOUS
  <2>1. i + 1 < j + 1
    OBVIOUS
  <2> QED
    BY <1>2, <1>3, <2>1 DEF s
<1>7. Ahead' \in {1, 2}
  BY DEF Ahead
<1>8. \A i \in Ahead'..Len(r) : r[i] \notin marks'
  <2>1. \A i \in Ahead'..Len(r) : i \in 1..Len(r)
    BY <1>2, <1>7
  <2>2. marks' \subseteq marks \cup {s[1]}
    BY <1>10 DEF s
  <2> QED
    BY <1>5, <2>1, <2>2
<1>9. OneByOne'
  BY <1>2, <1>4, <1>5, <1>6, <1>8
<1>11. marks' \subseteq 1..cursor'
  BY <1>10 DEF s
<1> QED
  BY <1>4, <1>9, <1>11

(* The task has nothing left to do, or has ended.                          *)
LEMMA NothingLeft ==
  ASSUME Unreplayed, UNCHANGED <<published, cursor, pel, marks, completed>>,
         DOMAIN phase' = Tasks, DOMAIN todo' = Tasks, phase'["replay"] = phase["replay"],
         phase'["live"] \in {"idle", "ended"}, todo'["live"] \in {<<>>, todo["live"]}
  PROVE  Unreplayed'
<1>1. CASE todo'["live"] = <<>>
  <2>1. <<>> \in Seq(Nat) /\ Len(<<>>) = 0 /\ Ahead' \in {1, 2}
    BY DEF Ahead
  <2>2. OneByOne'
    BY <1>1, <2>1 DEF OneByOne
  <2> QED
    BY <2>2 DEF Unreplayed
<1>2. CASE todo'["live"] = todo["live"] /\ phase["live"] # "check"
  BY <1>2 DEF Unreplayed, OneByOne, Ahead
<1>3. CASE todo'["live"] = todo["live"] /\ phase["live"] = "check"
  BY <1>3 DEF Unreplayed, OneByOne, Ahead
<1> QED
  BY <1>1, <1>2, <1>3

(* The entries read are new: their keys were not set.                      *)
LEMMA ReadKeeps ==
  ASSUME Unreplayed, Read
  PROVE  Unreplayed'
<1> USE DEF Unreplayed
<1> DEFINE n == Min({XreadCount, published - cursor})
           end == Min({cursor + XreadCount, published})
<1>1. n \in Nat \ {0} /\ end = cursor + n /\ end \in cursor..published /\ cursor \in Nat
  <2>1. \A a, b \in Int : Min({a, b}) = IF a <= b THEN a ELSE b
    <3> TAKE a \in Int, b \in Int
    <3>1. \E x \in {a, b} : \A y \in {a, b} : x <= y
      OBVIOUS
    <3> QED
      BY <3>1 DEF Min
  <2>2. cursor < published
    BY DEF Read
  <2> QED
    BY <2>1, <2>2, DeliveryAssumption
<1>2. Batch = [i \in 1..n |-> cursor + i] /\ cursor' = end /\ pel' = pel \cup Range(Batch)
  BY DEF Read, Batch
<1> HIDE DEF n, end
<1>3. /\ Batch \in Seq(Nat) /\ Len(Batch) = n
      /\ \A i \in 1..n : Batch[i] = cursor + i
  BY <1>1, <1>2
<1>4. \A m \in 1..cursor' : m \in pel' \/ m \in completed'
  <2> TAKE m \in 1..cursor'
  <2>1. completed' = completed
    BY DEF Read, history
  <2>2. CASE m \in 1..cursor
    BY <1>2, <2>1, <2>2
  <2>3. CASE m \notin 1..cursor
    <3>1. m - cursor \in 1..n /\ cursor + (m - cursor) = m
      BY <1>1, <1>2, <2>3
    <3>2. m \in Range(Batch)
      BY <1>2, <3>1 DEF Range
    <3> QED
      BY <1>2, <3>2
  <2> QED
    BY <2>2, <2>3
<1>5. /\ published' = published /\ marks' = marks /\ cursor' \in 0..published'
      /\ \A x \in 1..cursor : x \in 1..cursor'
  <2>1. published' = published /\ marks' = marks
    BY DEF Read
  <2> QED
    BY <1>1, <1>2, <2>1
<1>6. CASE Take("live", Batch)
  <2>1. /\ todo'["live"] = Batch /\ DOMAIN todo' = Tasks /\ DOMAIN phase' = Tasks
        /\ phase'["replay"] = phase["replay"]
        /\ phase'["live"] = "check" /\ Batch # <<>>
    BY <1>1, <1>3, <1>6 DEF Take, Tasks
  <2>2. \A i \in 1..n : Batch[i] \in 1..cursor' /\ Batch[i] \notin marks
    BY <1>1, <1>2, <1>3
  <2>3. \A i, j \in 1..n : i < j => Batch[i] < Batch[j]
    BY <1>1, <1>3
  <2>4. OneByOne'
    BY <1>3, <1>5, <2>1, <2>2, <2>3 DEF OneByOne, Ahead
  <2> QED
    BY <1>4, <1>5, <2>1, <2>4
<1>7. CASE UNCHANGED tasks
  <2>1. phase["live"] = "idle" /\ UNCHANGED <<phase, todo, completed>>
    BY <1>7 DEF Read, tasks, history
  <2>2. OneByOne'
    BY <1>5, <2>1 DEF OneByOne, Ahead
  <2> QED
    BY <1>4, <1>5, <2>1, <2>2
<1> QED
  BY <1>6, <1>7 DEF Read

LEMMA CheckKeepsUnreplayed ==
  ASSUME Unreplayed, Check("live")
  PROVE  Unreplayed'
<1> USE DEF Unreplayed, OneByOne
<1> DEFINE s == todo["live"]
<1>1. /\ s \in Seq(Nat) /\ s # <<>> /\ 1 \in 1..Len(s) /\ Head(s) = s[1] /\ Len(s) \in Nat
      /\ phase["live"] = "check"
  BY DEF Check
<1>2. s[1] \notin marks
  BY <1>1 DEF Ahead
<1>3. /\ phase' = [phase EXCEPT !["live"] = "run"] /\ todo' = todo
      /\ marks' = marks \cup {s[1]} /\ UNCHANGED <<published, cursor, pel, completed>>
  BY <1>1, <1>2 DEF Check, Goto
<1>4. /\ DOMAIN phase' = Tasks /\ phase'["live"] = "run" /\ phase'["replay"] = phase["replay"]
  BY <1>3 DEF Tasks
<1>5. \A i \in 2..Len(s) : i \in 1..Len(s) /\ s[i] \notin marks /\ s[1] < s[i]
  BY <1>1 DEF Ahead
<1>6. \A i \in 2..Len(s) : s[i] \notin marks'
  <2>1. \A i \in 2..Len(s) : s[i] \in Nat
    BY <1>1, <1>5
  <2> QED
    BY <1>1, <1>3, <1>5, <2>1
<1>7. OneByOne'
  BY <1>1, <1>3, <1>4, <1>6 DEF Ahead
<1> QED
  BY <1>1, <1>3, <1>4, <1>7

LEMMA UnreplayedStep ==
  ASSUME Unreplayed, setting.wildcard, [Next]_vars
  PROVE  Unreplayed'
<1> USE DEF Unreplayed, redis, tasks, history
<1>1. CASE Read
  BY <1>1, ReadKeeps
<1>2. CASE Check("live")
  BY <1>2, CheckKeepsUnreplayed
<1>3. CASE HandlerReturns("live")
  <2>1. /\ phase["live"] = "run" /\ DOMAIN phase' = Tasks
        /\ phase'["live"] = "ack" /\ phase'["replay"] = phase["replay"]
        /\ completed' = completed \cup {Head(todo["live"])}
        /\ UNCHANGED <<published, cursor, pel, marks, todo>>
    BY <1>3 DEF HandlerReturns, Goto, Tasks
  <2> QED
    BY <2>1 DEF OneByOne, Ahead
<1>4. CASE HandlerRaises("live")
  BY <1>4, NextEntryKeeps DEF HandlerRaises
<1>5. CASE Ack("live")
  BY <1>5, NextEntryKeeps DEF Ack, OneByOne
<1>6. CASE RedisCallFails("live")
  <2>1. /\ NextEntry("live") /\ phase["live"] \notin {"idle", "ended"}
        /\ marks' = marks \/ marks' = marks \cup {Head(todo["live"])}
        /\ UNCHANGED <<published, cursor, completed>>
        /\ pel' = pel \/ (phase["live"] = "ack" /\ pel' = pel \ {Head(todo["live"])})
    BY <1>6 DEF RedisCallFails
  <2>2. \A m \in 1..cursor : m \in pel' \/ m \in completed'
    BY <2>1 DEF OneByOne
  <2> QED
    BY <2>1, <2>2, NextEntryKeeps
<1>7. CASE Publish
  BY <1>7 DEF Publish, OneByOne, Ahead
<1>8. CASE ReplayList
  <2>1. /\ DOMAIN phase' = Tasks /\ DOMAIN todo' = Tasks /\ phase'["replay"] = "idle"
        /\ phase'["live"] = phase["live"] /\ todo'["live"] = todo["live"]
        /\ UNCHANGED <<published, cursor, pel, marks, completed>>
    BY <1>8 DEF ReplayList, PendingIds, Tasks
  <2> QED
    BY <2>1 DEF OneByOne, Ahead
<1>9. CASE ReplayClaim \/ Process("replay")
  BY <1>9 DEF ReplayClaim, Process, EntryMalformed, Check, HandlerReturns, HandlerRaises, Ack,
              RedisCallFails
<1>13. CASE ReplayFails
  <2>1. /\ DOMAIN phase' = Tasks /\ DOMAIN todo' = Tasks /\ phase'["replay"] = "idle"
        /\ phase'["live"] = phase["live"] /\ todo'["live"] = todo["live"]
        /\ UNCHANGED <<published, cursor, pel, marks, completed>>
    BY <1>13 DEF ReplayFails, Take, Tasks
  <2> QED
    BY <2>1 DEF OneByOne, Ahead
<1>14. CASE RefreshFails
  <2>1. /\ DOMAIN phase' = Tasks /\ phase'["replay"] = phase["replay"]
        /\ phase'["live"] = "ended" /\ todo' = todo
        /\ UNCHANGED <<published, cursor, pel, marks, completed>>
    BY <1>14 DEF RefreshFails, Goto, Tasks
  <2> QED
    BY <2>1, NothingLeft
<1>15. CASE EntryMalformed("live")
  <2>1. /\ DOMAIN phase' = Tasks /\ DOMAIN todo' = Tasks /\ phase'["replay"] = phase["replay"]
        /\ phase'["live"] = "idle" /\ todo'["live"] = <<>>
        /\ UNCHANGED <<published, cursor, pel, marks, completed>>
    BY <1>15 DEF EntryMalformed, Take, Tasks
  <2> QED
    BY <2>1, NothingLeft
<1>10. ASSUME NEW m \in Messages, Expire(m) PROVE Unreplayed'
  BY <1>10 DEF Expire, OneByOne, Ahead
<1>11. CASE CrashAndRestart
  <2>1. /\ DOMAIN phase' = Tasks /\ DOMAIN todo' = Tasks /\ phase'["replay"] = "list"
        /\ phase'["live"] = "idle" /\ todo'["live"] = <<>>
        /\ UNCHANGED <<published, cursor, pel, marks, completed>>
    BY <1>11 DEF CrashAndRestart, Tasks
  <2> QED
    BY <2>1 DEF OneByOne, Ahead
<1>12. CASE UNCHANGED vars
  BY <1>12 DEF vars, OneByOne, Ahead
<1> QED
  BY <1>1, <1>2, <1>3, <1>4, <1>5, <1>6, <1>7, <1>8, <1>9, <1>10, <1>11, <1>12,
     <1>13, <1>14, <1>15 DEF Next, LiveStep, ReplayStep, Process

(* No entry the group was given is dropped, over any crashes, errors and   *)
(* lost replies, where nothing is replayed, which is every subscription    *)
(* to a pattern (process_message and consume_once).                        *)
THEOREM NothingDropped == Spec => []NoSilentDropUnreplayed
<1> DEFINE I == setting.wildcard => Unreplayed
<1>1. Init => I
  BY DEF Init, Unreplayed, OneByOne, Tasks, Ahead
<1>2. I /\ [Next]_vars => I'
  <2> SUFFICES ASSUME I, [Next]_vars, setting'.wildcard PROVE Unreplayed'
    BY Zenon
  <2>1. setting' = setting
    BY DEF Next, LiveStep, ReplayStep, Process, vars, Publish, Read, RefreshFails, EntryMalformed,
           Check, HandlerReturns, HandlerRaises, Ack, RedisCallFails, ReplayList, ReplayClaim,
           ReplayFails, Expire, CrashAndRestart
  <2> QED
    BY <2>1, UnreplayedStep
<1>3. I => NoSilentDropUnreplayed
  BY DEF Unreplayed, NoSilentDropUnreplayed, NoSilentDrop
<1> QED
  BY <1>1, <1>2, <1>3, PTL DEF Spec
=============================================================================
