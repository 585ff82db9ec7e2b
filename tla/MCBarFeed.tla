------------------------------- MODULE MCBarFeed -------------------------------
(* Small instances of BarFeed for TLC: one that tries every short sequence *)
(* of ticks, and for each bus some in which bars follow each other and     *)
(* something goes wrong behind them.                                       *)
EXTENDS BarFeed

MCTick(m, p, v) == [minute |-> m, price |-> p, volume |-> v]

(* Any tick each time, or one tick per minute.                             *)
MCAnyTick  == [n \in 1..4 |-> {MCTick(m, p, 1) : m \in 0..3, p \in {1, 2}}
                              \cup {MCTick(1, NoPrice, 1), MCTick(2, 3, 0)}]
MCEachMinute == [n \in 1..MaxTicks |->
                  {MCTick(n, p, 1) : p \in IF n \in {2, 4} THEN {1, 3} ELSE {2}}]

MCConduct(kind, interval, tick, fails, aliens, ends, n, feedEnds) ==
  [kind |-> kind, interval |-> interval, ticks |-> tick, fails |-> fails,
   aliens |-> aliens, ends |-> ends, lives |-> n, feedEnds |-> feedEnds]

MCBuilders == {MCConduct("redis", i, MCAnyTick, FALSE, {}, "never", 0, FALSE) : i \in {2, 3}}
MCBuses ==
  UNION { { MCConduct(kind, 1, MCEachMinute, FALSE, {"garbled"}, "never", 1, FALSE),
            MCConduct(kind, 1, MCEachMinute, FALSE, {}, "stop", 2, FALSE),
            MCConduct(kind, 1, MCEachMinute, FALSE, {"unfit"}, "crash", 2, FALSE),
            MCConduct(kind, 1, MCEachMinute, TRUE, {}, "crash", 2, FALSE),
            MCConduct(kind, 1, MCEachMinute, FALSE, {}, "crash", 2, TRUE) } :
          kind \in {"kafka", "redis"} }
MCConducts == MCBuilders \cup MCBuses
=============================================================================
