---------------------------- MODULE OutboundBuffer ----------------------------
(***************************************************************************)
(* What an OMS module publishes through RedisBus, core/redis_bus.py: the   *)
(* message goes to Redis, or, while the bus is disconnected, to a bounded  *)
(* local buffer that drain_buffer empties.  Messages are numbered in the   *)
(* order the module stamps them.  The calls to Redis are awaited, so those *)
(* of several tasks of the module are on their way at once; a call that    *)
(* awaits nothing runs alone.                                              *)
(***************************************************************************)
EXTENDS Integers, Sequences, SequencesExt

CONSTANTS
  MaxMessages, \* bound: messages published
  BufferSize,  \* LOCAL_BUFFER_MAXSIZE
  MaxFlaps,    \* bound: calls of connect and disconnect
  Conducts     \* see conduct

ASSUME BufferAssumption ==
  MaxMessages \in Nat /\ BufferSize \in Nat \ {0} /\ MaxFlaps \in Nat

Messages == 1..MaxMessages

VARIABLES
  stamped,   \* messages published so far
  connected, \* _connected
  flaps,     \* calls of connect and disconnect so far
  buffer,    \* _buffer
  sending,   \* messages whose XADD is awaited
  drain,     \* drain_buffer: "idle", "loop", "wait" for the XADD of `draining`,
             \* or "spin", a loop that awaits nothing and never ends
  draining,
  stream,    \* the Redis stream, in the order of the XADDs
  detained,  \* history: messages that went through the buffer
  failed,    \* history: an XADD raised
  conduct    \* never changes; flaps: the bus is disconnected at times, and
             \* drained: only when it is connected, redisFails: an XADD may
             \* raise; the others are about the archiver

producer == <<stamped, connected, flaps, buffer, sending, drain, draining,
              stream, detained, failed>>

BufferInit ==
  /\ stamped = 0 /\ flaps = 0 /\ buffer = <<>> /\ sending = {}
  /\ conduct \in Conducts
  /\ connected = ~conduct.flaps
  /\ drain = "idle" /\ draining = 0 /\ stream = <<>>
  /\ detained = {} /\ failed = FALSE

Running == drain # "spin"

Connect ==
  /\ Running /\ conduct.flaps /\ flaps < MaxFlaps
  /\ ~connected /\ connected' = TRUE /\ flaps' = flaps + 1
  /\ UNCHANGED <<stamped, buffer, sending, drain, draining, stream, detained,
                 failed>>

Disconnect ==
  /\ Running /\ conduct.flaps /\ flaps < MaxFlaps
  /\ conduct.drained => drain = "idle"
  /\ connected /\ connected' = FALSE /\ flaps' = flaps + 1
  /\ UNCHANGED <<stamped, buffer, sending, drain, draining, stream, detained,
                 failed>>

(* put_nowait; the oldest message makes room in a full queue.              *)
Put(m) == buffer' = Append(IF Len(buffer) < BufferSize THEN buffer ELSE Tail(buffer), m)

Publish ==
  /\ Running /\ stamped < MaxMessages
  /\ stamped' = stamped + 1
  /\ \/ /\ connected
        /\ sending' = sending \cup {stamped'}
        /\ UNCHANGED <<buffer, detained>>
     \/ /\ ~connected
        /\ Put(stamped')
        /\ detained' = detained \cup {stamped'}
        /\ UNCHANGED sending
  /\ UNCHANGED <<connected, flaps, drain, draining, stream, failed>>

BeginDrain ==
  /\ drain = "idle" /\ drain' = "loop"
  /\ buffer # <<>>
  /\ conduct.drained => connected
  /\ UNCHANGED <<stamped, connected, flaps, buffer, sending, draining, stream,
                 detained, failed>>

(* Fault: the XADD is not awaited.                                         *)
DrainOneFault ==
  /\ drain = "loop"
  /\ \/ /\ buffer = <<>> /\ drain' = "idle"
        /\ UNCHANGED <<buffer, sending>>
     \/ /\ buffer # <<>> /\ connected
        /\ sending' = sending \cup {Head(buffer)} /\ buffer' = Tail(buffer)
        /\ UNCHANGED drain
  /\ UNCHANGED <<draining, stamped, connected, flaps, stream, detained, failed>>

(* The head of the buffer is published: to Redis, or, if the bus is not    *)
(* connected, to the tail of the buffer and so on for ever.                *)
DrainOne ==
  /\ drain = "loop"
  /\ \/ /\ buffer = <<>> /\ drain' = "idle"
        /\ UNCHANGED <<buffer, sending, draining>>
     \/ /\ buffer # <<>> /\ connected
        /\ drain' = "wait" /\ draining' = Head(buffer)
        /\ sending' = sending \cup {Head(buffer)} /\ buffer' = Tail(buffer)
     \/ /\ buffer # <<>> /\ ~connected
        /\ drain' = "spin"
        /\ UNCHANGED <<buffer, sending, draining>>
  /\ UNCHANGED <<stamped, connected, flaps, stream, detained, failed>>

XAdd(m) ==
  /\ Running /\ m \in sending /\ sending' = sending \ {m}
  /\ stream' = Append(stream, m)
  /\ IF drain = "wait" /\ draining = m
       THEN drain' = "loop" /\ draining' = 0 ELSE UNCHANGED <<drain, draining>>
  /\ UNCHANGED <<stamped, connected, flaps, buffer, detained, failed>>

(* Fault: drain_buffer tries again at once.                                *)
XAddRaisesFault(m) ==
  /\ Running /\ conduct.redisFails
  /\ m \in sending /\ sending' = sending \ {m}
  /\ failed' = TRUE
  /\ IF drain = "wait" /\ draining = m
       THEN /\ drain' = "loop" /\ draining' = 0
            /\ buffer' = Append(buffer, m)
       ELSE UNCHANGED <<drain, draining, buffer>>
  /\ UNCHANGED <<stamped, connected, flaps, stream, detained>>

(* An XADD that raises may have taken effect.  Bound: once per message.    *)
ReplyLost(m) == m \notin Range(stream) /\ stream' = Append(stream, m)

(* The caller of publish is told; drain_buffer puts its message back, at   *)
(* the tail and if there is room, and gives up.                            *)
XAddRaises(m) ==
  /\ Running /\ conduct.redisFails
  /\ m \in sending /\ sending' = sending \ {m}
  /\ failed' = TRUE
  /\ ReplyLost(m) \/ UNCHANGED stream
  /\ IF drain = "wait" /\ draining = m
       THEN /\ drain' = "idle" /\ draining' = 0
            /\ buffer' = IF Len(buffer) < BufferSize THEN Append(buffer, m) ELSE buffer
       ELSE UNCHANGED <<drain, draining, buffer>>
  /\ UNCHANGED <<stamped, connected, flaps, detained>>

ProducerStep ==
  \/ Connect \/ Disconnect \/ Publish \/ BeginDrain \/ DrainOne
  \/ \E m \in Messages : XAdd(m) \/ XAddRaises(m)

-----------------------------------------------------------------------------
(* Messages that waited in the buffer reach Redis in the order they were   *)
(* published ("Drain the local outbound buffer in FIFO order",             *)
(* redis_bus.py:141), unless a drain failed and put one back at the tail.  *)
(* It speaks of these messages only: those published after the             *)
(* reconnection do overtake them, against oms_emsx_spec.md:151.            *)
BufferedInOrder ==
  ~failed => \A i, j \in DOMAIN stream :
               i < j /\ {stream[i], stream[j]} \subseteq detained
               => stream[i] < stream[j]

(* A drain ends, provided that it is called while connected and that the   *)
(* bus stays so: otherwise it spins and the module with it.                *)
DrainEnds == conduct.drained => (drain # "idle" ~> drain = "idle")

=============================================================================
