----------------------------- MODULE GatewayFills -----------------------------
(***************************************************************************)
(* The OMS gateway to Bloomberg EMSX, modules/emsx_gateway.py: approved    *)
(* orders go out through sendRequest on an executor thread, and each event *)
(* of the BLPAPI thread becomes an asyncio task of its own that turns the  *)
(* venue's cumulative quantities into increments and publishes them.  The  *)
(* tasks run one after the other up to an await and interleave there.      *)
(* The venue (EMSX) and the Redis stream of fills are external.            *)
(***************************************************************************)
EXTENDS Integers, Sequences, FiniteSetsExt, SequencesExt

CONSTANTS
  Orders,       \* EMSX sequence numbers (correlation ids)
  Amount,       \* EMSX_AMOUNT of every order
  MaxBatch,     \* messages BLPAPI may put in one event
  MaxRepeats,   \* bound: messages that repeat a known quantity
  Envs,         \* what the venue and the calls may be like, see env
  MaxCrashes    \* bound: crashes of the gateway

ASSUME GatewayAssumption ==
  /\ Amount \in Nat \ {0} /\ MaxBatch \in Nat \ {0}
  /\ MaxRepeats \in Nat /\ MaxCrashes \in Nat
  /\ Envs \subseteq [batches : BOOLEAN, late : BOOLEAN, fails : BOOLEAN]

VARIABLES
  approved,   \* handle_approved of each order: "waiting", "sent", "done"
  live,       \* venue: orders it has and did not cancel
  total,      \* venue: quantity filled, EMSX_FILLED
  wire,       \* messages published by the venue, not yet in an event
  events,     \* the tasks of the events delivered, oldest first
  fillsSeen,  \* _fills_seen; 0 when there is no entry
  pending,    \* keys of _pending
  counted,    \* sum of filled_qty published for each order
  dones,      \* fills.done published for each order
  repeats, crashes,
  env         \* never changes; batches: an event may hold several messages;
              \* late: a filled order's message may be repeated; fails:
              \* sendRequest, a publish or the reading of a message may raise

venue       == <<live, total, wire, repeats, env>>
gateway     == <<events, fillsSeen, pending>>
fills       == <<counted, dones>>
gatewayVars == <<approved, venue, gateway, fills, crashes>>

GatewayInit ==
  /\ approved = [o \in Orders |-> "waiting"]
  /\ live = {} /\ total = [o \in Orders |-> 0] /\ wire = <<>>
  /\ events = <<>> /\ fillsSeen = [o \in Orders |-> 0] /\ pending = {}
  /\ counted = [o \in Orders |-> 0] /\ dones = [o \in Orders |-> 0]
  /\ repeats = 0 /\ crashes = 0 /\ env \in Envs

-----------------------------------------------------------------------------
(* handle_approved sends the order from an executor thread ...             *)
Send(o) ==
  /\ approved[o] = "waiting"
  /\ approved' = [approved EXCEPT ![o] = "sent"]
  /\ live' = live \cup {o}
  /\ UNCHANGED <<total, wire, repeats, env, gateway, fills, crashes>>

(* ... or sendRequest raises, and the approval is not tried again ...      *)
SendRaises(o) ==
  /\ env.fails /\ approved[o] = "waiting"
  /\ approved' = [approved EXCEPT ![o] = "done"]
  /\ UNCHANGED <<venue, gateway, fills, crashes>>

(* ... and, back on the event loop, remembers it.                          *)
Sent(o) ==
  /\ approved[o] = "sent"
  /\ approved' = [approved EXCEPT ![o] = "done"]
  /\ pending' = pending \cup {o}
  /\ UNCHANGED <<venue, events, fillsSeen, fills, crashes>>

-----------------------------------------------------------------------------
(* EMSX: fills, repeats what it said (as it does for the open orders when  *)
(* the gateway subscribes anew), cancels (an ErrorInfo is published in the *)
(* same way).                                                              *)
Say(o, kind, n) == wire' = Append(wire, [order |-> o, kind |-> kind, total |-> n])

VenueFills(o) ==
  /\ o \in live
  /\ \E q \in 1..(Amount - total[o]) :
       /\ total' = [total EXCEPT ![o] = @ + q]
       /\ Say(o, "fill", total[o] + q)
  /\ UNCHANGED <<approved, live, repeats, env, gateway, fills, crashes>>

VenueRepeats(o) ==
  /\ o \in live /\ repeats < MaxRepeats
  /\ total[o] < Amount \/ env.late
  /\ repeats' = repeats + 1
  /\ Say(o, "fill", total[o])
  /\ UNCHANGED <<approved, live, total, env, gateway, fills, crashes>>

VenueCancels(o) ==
  /\ o \in live /\ total[o] < Amount
  /\ live' = live \ {o}
  /\ Say(o, "cancel", total[o])
  /\ UNCHANGED <<approved, total, repeats, env, gateway, fills, crashes>>

(* _on_blpapi_event: one event, one task.                                  *)
EventArrives ==
  /\ wire # <<>>
  /\ \E n \in 1..Min({IF env.batches THEN MaxBatch ELSE 1, Len(wire)}) :
       /\ events' = Append(events, [todo |-> SubSeq(wire, 1, n), phase |-> "new", qty |-> 0])
       /\ wire' = SubSeq(wire, n + 1, Len(wire))
  /\ UNCHANGED <<approved, live, total, repeats, env, fillsSeen, pending, fills, crashes>>

-----------------------------------------------------------------------------
(* The tasks.                                                              *)

(* Fault: the cumulative quantity is taken for the increment.              *)
IncrementFault(seen, m) == m.total

(* _handle_fill_message: new_qty, against the quantity seen last.          *)
Increment(seen, m) == Max({0, m.total - seen[m.order]})

(* status FILLED, or filled_total >= order_amount: published on fills.done *)
IsDone(m) == m.kind = "fill" /\ m.total >= Amount

(* _dispatch_event from one message up to the await in its publish: the    *)
(* quantity is noted as seen before the fill is published.                 *)
Advance(e, todo, seen) ==
  IF todo = <<>>
    THEN /\ events' = RemoveAt(events, e)
         /\ fillsSeen' = seen
    ELSE LET m == Head(todo)
         IN  IF m.kind = "fill"
               THEN /\ events' = [events EXCEPT ![e] =
                         [todo |-> todo, phase |-> "publish", qty |-> Increment(seen, m)]]
                    /\ fillsSeen' = [seen EXCEPT ![m.order] = m.total]
               ELSE /\ events' = [events EXCEPT ![e] =
                         [todo |-> todo, phase |-> "publish", qty |-> 0]]
                    /\ fillsSeen' = seen

(* The loop starts the tasks in the order of their events.                 *)
TaskStarts(e) ==
  /\ events[e].phase = "new"
  /\ \A d \in 1..(e - 1) : events[d].phase # "new"
  /\ Advance(e, events[e].todo, fillsSeen)
  /\ UNCHANGED <<approved, venue, pending, fills, crashes>>

(* The message is on the stream; the task is not running again yet.        *)
Published(e) ==
  /\ events[e].phase = "publish"
  /\ LET m == Head(events[e].todo)
     IN  /\ counted' = [counted EXCEPT ![m.order] = @ + events[e].qty]
         /\ dones' = IF IsDone(m) THEN [dones EXCEPT ![m.order] = @ + 1] ELSE dones
  /\ events' = [events EXCEPT ![e].phase = "resume"]
  /\ UNCHANGED <<approved, venue, fillsSeen, pending, crashes>>

(* The publish raises: the task dies, with the messages it had left ...    *)
PublishRaises(e) ==
  /\ env.fails /\ events[e].phase = "publish"
  /\ events' = RemoveAt(events, e)
  /\ UNCHANGED <<approved, venue, fillsSeen, pending, fills, crashes>>

(* ... even if the message is on the stream and only the reply was lost.   *)
FillReplyLost(e) ==
  /\ env.fails /\ events[e].phase = "resume"
  /\ events' = RemoveAt(events, e)
  /\ UNCHANGED <<approved, venue, fillsSeen, pending, fills, crashes>>

(* After the await a done order is forgotten, then the next message.       *)
TaskResumes(e) ==
  /\ events[e].phase = "resume"
  /\ LET m    == Head(events[e].todo)
         rest == Tail(events[e].todo)
     IN  IF IsDone(m)
           THEN /\ pending' = pending \ {m.order}
                /\ Advance(e, rest, [fillsSeen EXCEPT ![m.order] = 0])
           ELSE /\ UNCHANGED pending
                /\ Advance(e, rest, fillsSeen)
  /\ UNCHANGED <<approved, venue, fills, crashes>>

(* An element of the next message cannot be read: the task dies before it  *)
(* notes anything of the message.                                          *)
ReadRaises(e) ==
  /\ env.fails
  /\ events' = RemoveAt(events, e)
  /\ \/ /\ events[e].phase = "new"
        /\ \A d \in 1..(e - 1) : events[d].phase # "new"
        /\ UNCHANGED <<fillsSeen, pending>>
     \/ /\ events[e].phase = "resume" /\ Tail(events[e].todo) # <<>>
        /\ LET m == Head(events[e].todo)
           IN  IF IsDone(m)
                 THEN /\ pending' = pending \ {m.order}
                      /\ fillsSeen' = [fillsSeen EXCEPT ![m.order] = 0]
                 ELSE UNCHANGED <<fillsSeen, pending>>
  /\ UNCHANGED <<approved, venue, fills, crashes>>

(* The gateway dies: its tasks and both dictionaries are gone, with what   *)
(* the venue said and no event had delivered.                              *)
CrashAndRestart ==
  /\ crashes < MaxCrashes
  /\ crashes' = crashes + 1
  /\ approved' = [o \in Orders |-> IF approved[o] = "sent" THEN "done" ELSE approved[o]]
  /\ wire' = <<>> /\ events' = <<>>
  /\ fillsSeen' = [o \in Orders |-> 0] /\ pending' = {}
  /\ UNCHANGED <<live, total, repeats, env, fills>>

TaskStep == \E e \in DOMAIN events :
              \/ TaskStarts(e) \/ ReadRaises(e) \/ Published(e)
              \/ PublishRaises(e) \/ FillReplyLost(e) \/ TaskResumes(e)

GatewayNext ==
  \/ \E o \in Orders :
       \/ Send(o) \/ SendRaises(o) \/ Sent(o)
       \/ VenueFills(o) \/ VenueRepeats(o) \/ VenueCancels(o)
  \/ EventArrives \/ TaskStep \/ CrashAndRestart

GatewaySpec == GatewayInit /\ [][GatewayNext]_gatewayVars

-----------------------------------------------------------------------------
Quiet == wire = <<>> /\ events = <<>>

(* Once every event is handled, the increments published for an order add  *)
(* up to the quantity the venue filled ("filled_qty is the *increment* for *)
(* this fill", tests/test_emsx_gateway.py:118) ...                         *)
IncrementsAddUp == Quiet => \A o \in Orders : counted[o] = total[o]

(* ... as long as every event carries one message, none comes after the    *)
(* order was done, no call raises and the gateway did not restart.         *)
Orderly == ~env.batches /\ ~env.late /\ crashes = 0
IncrementsAddUpOrderly == Orderly /\ ~env.fails => IncrementsAddUp

(* Nothing is reported twice: a publish that fails may lose an increment   *)
(* but none is counted twice; and, whatever is batched, fails or restarts, *)
(* an order is reported done once, and only when all of it is filled.      *)
NothingReportedTwice ==
  /\ Orderly => \A o \in Orders : counted[o] <= total[o]
  /\ ~env.late =>
       \A o \in Orders : dones[o] <= (IF total[o] = Amount THEN 1 ELSE 0)

=============================================================================
