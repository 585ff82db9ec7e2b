---------------------------- MODULE StreamDelivery ----------------------------
(***************************************************************************)
(* How an OMS module receives the messages of one Redis stream:            *)
(* core/base_module.py over core/redis_bus.py.  Two asyncio tasks of the   *)
(* module take entries and run the module's handler on them: "live", the   *)
(* subscription's loop, reads new entries; "replay", part of on_start,     *)
(* claims those the consumer group read earlier and did not acknowledge.   *)
(* Both go through process_message, so they meet at every await.           *)
(*                                                                         *)
(* Redis is external and durable: the stream, the group's last-delivered   *)
(* id and its pending-entries list (PEL), and the keys set by SET NX.      *)
(* A message is its position in the stream.                                *)
(***************************************************************************)
EXTENDS Integers, Sequences, FiniteSetsExt, SequencesExt

CONSTANTS
  MaxMessages,  \* bound: messages published
  XreadCount,   \* settings.XREAD_COUNT
  PendingLimit, \* entries get_pending asks for
  MaxCrashes,   \* bound: crashes of the module
  Settings,     \* what a subscription may be like, see setting
  MaxExpiries   \* bound: keys that outlive IDEMPOTENCY_TTL_S

ASSUME DeliveryAssumption ==
  /\ MaxMessages \in Nat /\ XreadCount \in Nat \ {0} /\ PendingLimit \in Nat
  /\ Settings \subseteq [wildcard : BOOLEAN, raises : BOOLEAN, fails : BOOLEAN,
                         malformed : SUBSET Nat]
  /\ MaxCrashes \in Nat /\ MaxExpiries \in Nat

Messages == 1..MaxMessages
Tasks    == {"live", "replay"}

VARIABLES
  published,  \* length of the stream
  cursor,     \* the group's last-delivered id
  pel,        \* the group's pending entries
  marks,      \* messages whose key processed:{module}:{id} is set
  phase,      \* what each task does next with its first entry
  todo,       \* entries each task has yet to process
  crashes,    \* crashes so far
  setting,    \* never changes; wildcard: the subscription is a pattern such
              \* as "fills.*"; raises: the handler may raise; fails: a call
              \* to Redis may fail or its reply be lost; malformed: entries
              \* that are not JSON
  runs,       \* history: times the handler was started, per message
  expired,    \* history: times a message's key expired
  completed   \* history: messages whose handler returned

redis   == <<cursor, pel, marks>>
tasks   == <<phase, todo>>
history == <<runs, expired, completed>>
vars    == <<published, redis, tasks, crashes, setting, history>>

Phases == {"idle", "list", "claim", "check", "run", "ack", "ended"}

Take(t, entries) ==
  /\ todo' = [todo EXCEPT ![t] = entries]
  /\ phase' = [phase EXCEPT ![t] = IF entries = <<>> THEN "idle" ELSE "check"]

Goto(t, p) == phase' = [phase EXCEPT ![t] = p] /\ UNCHANGED todo
NextEntry(t) == Take(t, Tail(todo[t]))

-----------------------------------------------------------------------------
Init ==
  /\ published = 0 /\ cursor = 0 /\ pel = {} /\ marks = {}
  /\ phase = [t \in Tasks |-> IF t = "replay" THEN "list" ELSE "idle"]
  /\ todo = [t \in Tasks |-> <<>>]
  /\ crashes = 0 /\ setting \in Settings
  /\ runs = [m \in Messages |-> 0] /\ expired = [m \in Messages |-> 0]
  /\ completed = {}

Publish ==
  /\ published < MaxMessages
  /\ published' = published + 1
  /\ UNCHANGED <<redis, tasks, crashes, setting, history>>

(* Fault: the read starts one entry too far.                               *)
BatchFault ==
  [i \in 1..(Min({XreadCount, published - cursor}) - 1) |-> cursor + 1 + i]

(* XREADGROUP ">": the next entries, up to COUNT.                          *)
Batch == [i \in 1..Min({XreadCount, published - cursor}) |-> cursor + i]

(* consume_once: the entries read enter the PEL.  If the reply is lost     *)
(* they are in the PEL all the same, and the loop goes on with the next.   *)
Read ==
  /\ phase["live"] = "idle" /\ cursor < published
  /\ cursor' = Min({cursor + XreadCount, published})
  /\ pel' = pel \cup Range(Batch)
  /\ \/ Take("live", Batch)
     \/ setting.fails /\ UNCHANGED tasks
  /\ UNCHANGED <<published, marks, crashes, setting, history>>

(* The 30 s refresh of a pattern's topics, outside any try: a call that    *)
(* fails ends the live task, and no message is read until a restart.       *)
RefreshFails ==
  /\ setting.wildcard /\ setting.fails /\ phase["live"] = "idle"
  /\ Goto("live", "ended")
  /\ UNCHANGED <<published, redis, crashes, setting, history>>

(* Fault: what is pending is never asked for.                              *)
PendingIdsFault == {}

(* get_pending: the oldest pending ids.  on_start passes the subscription  *)
(* pattern as the key, and no stream is named like a pattern.              *)
PendingIds ==
  IF setting.wildcard THEN {}
  ELSE {m \in pel : Cardinality({n \in pel : n < m}) < PendingLimit}

ReplayList ==
  /\ phase["replay"] = "list"
  /\ todo' = [todo EXCEPT !["replay"] = SetToSortSeq(PendingIds, <)]
  /\ phase' = [phase EXCEPT !["replay"] = IF PendingIds = {} THEN "idle" ELSE "claim"]
  /\ UNCHANGED <<published, redis, crashes, setting, history>>

(* XCLAIM, in a second call, returns those that are still pending, the     *)
(* ones the live task is working on included.                              *)
ReplayClaim ==
  /\ phase["replay"] = "claim"
  /\ Take("replay", SelectSeq(todo["replay"], LAMBDA m : m \in pel))
  /\ UNCHANGED <<published, redis, crashes, setting, history>>

(* XPENDING or XCLAIM fails: on_start logs it and replays no more.         *)
ReplayFails ==
  /\ setting.fails /\ phase["replay"] \in {"list", "claim"}
  /\ Take("replay", <<>>)
  /\ UNCHANGED <<published, redis, crashes, setting, history>>

(* json.loads, outside the try of the handler: the rest of what was read   *)
(* or claimed with the entry stays in the PEL unseen.                      *)
EntryMalformed(t) ==
  /\ phase[t] = "check" /\ Head(todo[t]) \in setting.malformed
  /\ Take(t, <<>>)
  /\ UNCHANGED <<published, redis, crashes, setting, history>>

(* Fault: the key is looked at and not set.                                *)
CheckFault(t) ==
  /\ phase[t] = "check" /\ Head(todo[t]) \notin setting.malformed
  /\ LET m == Head(todo[t])
     IN  IF m \in marks
           THEN Goto(t, "ack") /\ UNCHANGED runs
           ELSE Goto(t, "run") /\ runs' = [runs EXCEPT ![m] = @ + 1]
  /\ UNCHANGED <<published, redis, crashes, setting, expired, completed>>

(* is_duplicate: SET NX.  The first caller sets the key and runs the       *)
(* handler; a later one acknowledges the entry and skips it.               *)
Check(t) ==
  /\ phase[t] = "check" /\ Head(todo[t]) \notin setting.malformed
  /\ LET m == Head(todo[t])
     IN  IF m \in marks
           THEN Goto(t, "ack") /\ UNCHANGED <<marks, runs>>
           ELSE /\ Goto(t, "run")
                /\ marks' = marks \cup {m}
                /\ runs' = [runs EXCEPT ![m] = @ + 1]
  /\ UNCHANGED <<published, cursor, pel, crashes, setting, expired, completed>>

(* The handler returns: the entry is acknowledged next ...                 *)
HandlerReturns(t) ==
  /\ phase[t] = "run"
  /\ Goto(t, "ack")
  /\ completed' = completed \cup {Head(todo[t])}
  /\ UNCHANGED <<published, redis, crashes, setting, runs, expired>>

(* Fault: the entry of a handler that raised is acknowledged.              *)
HandlerRaisesFault(t) ==
  /\ setting.raises /\ phase[t] = "run"
  /\ Goto(t, "ack")
  /\ UNCHANGED <<published, redis, crashes, setting, history>>

(* ... or it raises: the bus logs it and leaves the entry in the PEL.      *)
HandlerRaises(t) ==
  /\ setting.raises /\ phase[t] = "run"
  /\ NextEntry(t)
  /\ UNCHANGED <<published, redis, crashes, setting, history>>

Ack(t) ==
  /\ phase[t] = "ack"
  /\ pel' = pel \ {Head(todo[t])}
  /\ NextEntry(t)
  /\ UNCHANGED <<published, cursor, marks, crashes, setting, history>>

(* SET NX or XACK raises, whether Redis has done it or not: same path as a *)
(* handler that raises.  A key set so stands for a run that never was.     *)
RedisCallFails(t) ==
  /\ setting.fails /\ phase[t] \in {"check", "ack"} /\ NextEntry(t)
  /\ \/ /\ phase[t] = "check" /\ Head(todo[t]) \notin setting.malformed
        /\ marks' \in {marks, marks \cup {Head(todo[t])}} /\ UNCHANGED pel
     \/ /\ phase[t] = "ack"
        /\ pel' \in {pel, pel \ {Head(todo[t])}} /\ UNCHANGED marks
  /\ UNCHANGED <<published, cursor, crashes, setting, history>>

(* A key outlives its TTL.                                                 *)
Expire(m) ==
  /\ m \in marks
  /\ FoldFunction(+, 0, expired) < MaxExpiries
  /\ marks' = marks \ {m}
  /\ expired' = [expired EXCEPT ![m] = @ + 1]
  /\ UNCHANGED <<published, cursor, pel, tasks, crashes, setting, runs, completed>>

(* The module dies and is started again.  run() subscribes first, which    *)
(* starts the live task, and then awaits on_start, which replays.          *)
CrashAndRestart ==
  /\ crashes < MaxCrashes
  /\ crashes' = crashes + 1
  /\ phase' = [t \in Tasks |-> IF t = "replay" THEN "list" ELSE "idle"]
  /\ todo' = [t \in Tasks |-> <<>>]
  /\ UNCHANGED <<published, redis, setting, history>>

Process(t) ==
  \/ EntryMalformed(t) \/ Check(t) \/ HandlerReturns(t) \/ HandlerRaises(t)
  \/ Ack(t) \/ RedisCallFails(t)

LiveStep   == Read \/ RefreshFails \/ Process("live")
ReplayStep == ReplayList \/ ReplayClaim \/ ReplayFails \/ Process("replay")

Next ==
  \/ Publish \/ LiveStep \/ ReplayStep
  \/ \E m \in Messages : Expire(m)
  \/ CrashAndRestart

Spec == Init /\ [][Next]_vars

(* Both tasks are scheduled by the event loop, which no handler blocks.    *)
FairSpec == Spec /\ WF_vars(LiveStep) /\ WF_vars(ReplayStep)

-----------------------------------------------------------------------------
InHand(m) == \E t \in Tasks : phase[t] = "run" /\ Head(todo[t]) = m

(* A message's handler is started once per life of its key, by whichever   *)
(* task reaches it first and over any restarts (is_duplicate: "first       *)
(* caller wins", base_module.py:117).                                      *)
AtMostOncePerKey == \A m \in Messages : runs[m] <= 1 + expired[m]

(* A message the group was given is still pending, or its handler is       *)
(* running or has returned ("Every consumed message must be either XACKed  *)
(* or left in PEL - never silently dropped", oms_emsx_spec.md:510; process_*)
(* message: "PEL keeps the message for retry on restart") ...              *)
NoSilentDrop == \A m \in 1..cursor : m \in pel \/ m \in completed \/ InHand(m)

(* ... which is so only where nothing is ever replayed: a pattern's PEL is *)
(* asked for under a name no stream has.                                   *)
NoSilentDropUnreplayed == setting.wildcard => NoSilentDrop

Healthy == ~setting.raises /\ ~setting.fails /\ setting.malformed = {}

(* Without crashes and errors every published message is handled.          *)
EventuallyHandled ==
  Healthy /\ [](crashes = 0) =>
    \A m \in Messages : m <= published ~> m \in completed

(* Nothing stays in the PEL for ever: what a crash left there is           *)
(* acknowledged by the replay ("Replays each subscription's PEL",          *)
(* base_module.py:195) ...                                                 *)
PelDrains == \A m \in Messages : m \in pel ~> m \notin pel

(* ... provided that the subscription names one stream, that every entry   *)
(* is JSON, and that neither the handler nor Redis fails.                  *)
PelDrainsOfOneStream == ~setting.wildcard /\ Healthy => PelDrains

=============================================================================
