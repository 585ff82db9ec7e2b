-------------------------------- MODULE BarFeed --------------------------------
(***************************************************************************)
(* The market-data service (app/run_market_data.py) and the strategy       *)
(* service (app/run_strategy.py) of futures_emsx_strategy as two processes *)
(* over a bus that serializes: messaging/kafka_bus.py or                   *)
(* messaging/redis_bus.py.  Ticks become bars, bars cross the bus, and the *)
(* strategy's two moving averages turn them into targets.                  *)
(*                                                                         *)
(* External: the tick source; Redis; a Kafka broker that keeps one         *)
(* partition in order, and a client that stores the offset of a message    *)
(* when poll returns it and commits it some time later.  One instrument    *)
(* and one strategy.  Nothing reads the ticks the strategy service keeps.  *)
(***************************************************************************)
EXTENDS BarBuilder, Sequences, SequencesExt

CONSTANTS
  MaxTicks,           \* bound: ticks
  BatchSize,          \* count of XREADGROUP
  FastPeriod, SlowPeriod, Entry, BaseQty, MaxTarget, \* strategy parameters
  Unset,              \* no offset
  Conducts            \* see conduct

ASSUME FeedAssumption ==
  /\ MaxTicks \in Nat /\ BatchSize \in Nat \ {0}
  /\ FastPeriod \in Nat \ {0} /\ SlowPeriod \in Nat \ {0}
  /\ Entry \in Nat /\ BaseQty \in Nat /\ MaxTarget \in Nat

ASSUME TicksAssumption ==
  /\ NoBar \notin [start : Int, open : Int, high : Int, low : Int, close : Int, volume : Int]
  /\ \A c \in Conducts :
       /\ c.interval \in Nat \ {0}
       /\ \A n \in DOMAIN c.ticks : \A t \in c.ticks[n] :
            t.minute \in Int /\ t.volume \in Int /\ t.price \in Int \cup {NoPrice}

VARIABLES
  ticks,    \* ticks received so far
  heard,    \* those with a price, in this life of the market-data service
  openBar,
  emitted,  \* the bars it has emitted
  outbox,   \* messages in the Kafka producer's queue
  topic,    \* the topic: bars and what else is published to it
  proc,     \* strategy service: "down", "up", "stopping"
  lives,    \* times it was started
  thread,   \* its consumer thread: "none", "joining", "running", "dead"
  group,    \* position at which the consumer group was created, or Unset
  committed, \* Kafka: committed offset, or Unset
  base,     \* position at which this life began to read
  readTo,   \* messages of the topic read so far
  hand,     \* messages read and not processed, as positions
  acking,   \* the handler of the first of them is through, not its XACK
  pel,      \* Redis: messages read and not acknowledged
  fast, slow, \* SignalState: the two averages
  targets,  \* targets published in this life
  handled,  \* history: the bars handled, and in which life
  conduct   \* never changes; kind of bus; interval of the bars; ticks: what
            \* each tick may be; fails: calls to the bus may fail; aliens:
            \* other messages on the topic; ends: how the service may end,
            \* and lives: how often it starts; feedEnds: whether the
            \* market-data service may end

market   == <<ticks, heard, openBar, emitted, outbox>>
consumer == <<proc, lives, thread, group, committed, base, readTo, hand,
              acking, pel>>
strategy == <<fast, slow, targets, handled>>
feedVars == <<market, topic, consumer, strategy, conduct>>

Redis == conduct.kind = "redis"

Fresh == [n |-> 0, value |-> 0]

FeedInit ==
  /\ conduct \in Conducts
  /\ ticks = 0 /\ heard = <<>> /\ openBar = NoBar /\ emitted = <<>> /\ outbox = <<>>
  /\ topic = <<>>
  /\ proc = "down" /\ lives = 0 /\ thread = "none" /\ group = Unset
  /\ committed = Unset /\ base = 0 /\ readTo = 0 /\ hand = <<>>
  /\ acking = FALSE /\ pel = {}
  /\ fast = Fresh /\ slow = Fresh /\ targets = <<>> /\ handled = <<>>

-----------------------------------------------------------------------------
(* The market-data service.                                                *)
Message(b) == [kind |-> "bar", bar |-> b]

(* _emit and on_bar, up to publish.  XADD may raise, which _emit logs;     *)
(* produce only queues the message.                                        *)
Emit(b) ==
  /\ emitted' = Append(emitted, b)
  /\ IF Redis
       THEN /\ \/ topic' = Append(topic, Message(b))
               \/ conduct.fails /\ UNCHANGED topic
            /\ UNCHANGED outbox
       ELSE outbox' = Append(outbox, Message(b)) /\ UNCHANGED topic

NoEmit == UNCHANGED <<emitted, outbox, topic>>

OnTick(t) ==
  /\ ticks < MaxTicks /\ ticks' = ticks + 1
  /\ ticks' \in DOMAIN conduct.ticks /\ t \in conduct.ticks[ticks']
  /\ heard' = IF t.price = NoPrice THEN heard ELSE Append(heard, t)
  /\ \/ t.price = NoPrice /\ NoEmit /\ UNCHANGED openBar
     \/ /\ t.price # NoPrice /\ openBar = NoBar /\ NoEmit
        /\ openBar' = OpenBar(t, conduct.interval)
     \/ /\ t.price # NoPrice /\ openBar # NoBar
        /\ IF Closes(openBar, t, conduct.interval)
             THEN Emit(openBar) /\ openBar' = OpenBar(t, conduct.interval)
             ELSE NoEmit /\ openBar' = Merge(openBar, t)
  /\ UNCHANGED <<consumer, strategy, conduct>>

(* The producer's thread sends, or gives up without telling anyone.        *)
Deliver ==
  /\ outbox # <<>> /\ outbox' = Tail(outbox)
  /\ \/ topic' = Append(topic, Head(outbox))
     \/ conduct.fails /\ UNCHANGED topic
  /\ UNCHANGED <<ticks, heard, openBar, emitted, consumer, strategy, conduct>>

(* The service is stopped or dies and starts again.  The open bar is not   *)
(* flushed either way, and stop() flushes the queue for five seconds only. *)
RestartFeed ==
  /\ conduct.feedEnds /\ heard # <<>>
  /\ heard' = <<>> /\ openBar' = NoBar /\ emitted' = <<>> /\ outbox' = <<>>
  /\ UNCHANGED <<ticks, topic, consumer, strategy, conduct>>

(* Another producer's message: no JSON, or not the fields of a bar.        *)
PublishAlien(kind) ==
  /\ kind \in conduct.aliens
  /\ \A i \in DOMAIN topic : topic[i].kind = "bar"
  /\ topic' = Append(topic, [kind |-> kind, bar |-> NoBar])
  /\ UNCHANGED <<market, consumer, strategy, conduct>>

-----------------------------------------------------------------------------
(* The strategy service starts with fresh averages: nothing calls warmup.  *)
(* Fault: what the last life left pending is read once more.               *)
StartFault ==
  /\ proc = "down" /\ lives < conduct.lives /\ proc' = "up" /\ lives' = lives + 1
  /\ fast' = Fresh /\ slow' = Fresh /\ targets' = <<>>
  /\ thread' = "running"
  /\ group' = IF group = Unset THEN Len(topic) ELSE group
  /\ readTo' = IF group = Unset THEN Len(topic) ELSE readTo - Cardinality(pel)
  /\ base' = readTo'
  /\ UNCHANGED <<market, topic, committed, hand, acking, pel, handled, conduct>>

(* Redis: XGROUP CREATE at "$", unless the group exists.                   *)
Start ==
  /\ proc = "down" /\ lives < conduct.lives /\ proc' = "up" /\ lives' = lives + 1
  /\ fast' = Fresh /\ slow' = Fresh /\ targets' = <<>>
  /\ IF Redis
       THEN /\ thread' = "running"
            /\ group' = IF group = Unset THEN Len(topic) ELSE group
            /\ readTo' = IF group = Unset THEN Len(topic) ELSE readTo
            /\ base' = readTo'
       ELSE thread' = "joining" /\ UNCHANGED <<group, readTo, base>>
  /\ UNCHANGED <<market, topic, committed, hand, acking, pel, handled, conduct>>

(* Kafka: the partition is assigned some time after the start; with no     *)
(* committed offset, reading starts at the "latest" one.                   *)
Assign ==
  /\ thread = "joining" /\ thread' = "running"
  /\ readTo' = IF committed = Unset THEN Len(topic) ELSE committed
  /\ base' = readTo'
  /\ UNCHANGED <<market, topic, proc, lives, group, committed, hand, acking, pel,
                 strategy, conduct>>

(* Fault: messages are acknowledged when they are read.                    *)
FetchFault ==
  /\ thread = "running" /\ proc = "up" /\ hand = <<>> /\ readTo < Len(topic)
  /\ readTo' = Smaller(readTo + (IF Redis THEN BatchSize ELSE 1), Len(topic))
  /\ hand' = [i \in 1..(readTo' - readTo) |-> readTo + i]
  /\ UNCHANGED <<market, topic, proc, lives, thread, group, committed, base, acking,
                 pel, strategy, conduct>>

(* The loop tests _stop and reads: a batch, or one message.                *)
Fetch ==
  /\ thread = "running" /\ proc = "up" /\ hand = <<>> /\ readTo < Len(topic)
  /\ readTo' = Smaller(readTo + (IF Redis THEN BatchSize ELSE 1), Len(topic))
  /\ hand' = [i \in 1..(readTo' - readTo) |-> readTo + i]
  /\ pel' = IF Redis THEN pel \cup Range(hand') ELSE pel
  /\ UNCHANGED <<market, topic, proc, lives, thread, group, committed, base, acking,
                 strategy, conduct>>

(* Powers of b, as a function of the exponent.                             *)
Power(b) == LET to[n \in Nat] == IF n = 0 THEN 1 ELSE b * to[n - 1] IN to

(* EMA.update, on the value times (period + 1)^(n - 1).                    *)
Scale(period, n) == Power(period + 1)[n - 1]
Update(ema, close, period) ==
  [n |-> ema.n + 1,
   value |-> IF ema.n = 0 THEN close
             ELSE 2 * close * Scale(period, ema.n) + (period - 1) * ema.value]

(* SignalState.update: the signal times both scales.                       *)
Signal(f, s) == f.value * Scale(SlowPeriod, s.n) - s.value * Scale(FastPeriod, f.n)

(* build_target_position                                                   *)
TargetOf(signal, one) ==
  LET target == CASE signal > Entry * one -> BaseQty
                  [] signal < -Entry * one -> -BaseQty
                  [] OTHER -> 0
  IN  Larger(-MaxTarget, Smaller(MaxTarget, target))

(* Fault: a target is published before the averages are warm.              *)
ReadyFault(f, s) == f.n >= FastPeriod
Ready(f, s) == f.n >= FastPeriod /\ s.n >= SlowPeriod

(* on_bar: both averages move; then the target, if there is one, goes out, *)
(* or publish raises and the consumer logs it.                             *)
OnBar(b) ==
  /\ fast' = Update(fast, b.close, FastPeriod)
  /\ slow' = Update(slow, b.close, SlowPeriod)
  /\ \/ /\ ~Ready(fast', slow') \/ conduct.fails
        /\ UNCHANGED targets
     \/ /\ Ready(fast', slow')
        /\ targets' = Append(targets,
             TargetOf(Signal(fast', slow'),
                      Scale(FastPeriod, fast'.n) * Scale(SlowPeriod, slow'.n)))

(* The first message in hand.  One that is no JSON is skipped, and never   *)
(* acknowledged; one that makes no bar raises in decode, outside the try,  *)
(* and that is the end of the thread.                                      *)
Handle ==
  /\ thread = "running" /\ hand # <<>> /\ ~acking
  /\ LET m == topic[Head(hand)] IN
     \/ /\ m.kind = "garbled"
        /\ hand' = Tail(hand)
        /\ UNCHANGED <<thread, acking, strategy>>
     \/ /\ m.kind = "unfit"
        /\ thread' = "dead" /\ hand' = <<>>
        /\ UNCHANGED <<acking, strategy>>
     \/ /\ m.kind = "bar"
        /\ OnBar(m.bar)
        /\ handled' = Append(handled, [at |-> Head(hand), life |-> lives])
        /\ IF Redis THEN acking' = TRUE /\ UNCHANGED hand
                    ELSE hand' = Tail(hand) /\ UNCHANGED acking
        /\ UNCHANGED thread
  /\ UNCHANGED <<market, topic, proc, lives, group, committed, base, readTo, pel,
                 conduct>>

Ack ==
  /\ thread = "running" /\ acking /\ acking' = FALSE
  /\ pel' = pel \ {Head(hand)} /\ hand' = Tail(hand)
  /\ UNCHANGED <<market, topic, proc, lives, thread, group, committed, base, readTo,
                 strategy, conduct>>

(* XREADGROUP or XACK raises: nothing catches that either.                 *)
RedisRaises ==
  /\ Redis /\ conduct.fails /\ thread = "running"
  /\ acking \/ (proc = "up" /\ hand = <<>>)
  /\ thread' = "dead" /\ hand' = <<>> /\ acking' = FALSE
  /\ UNCHANGED <<market, topic, proc, lives, group, committed, base, readTo, pel,
                 strategy, conduct>>

(* Kafka: the client commits the offset of what poll has returned.         *)
AutoCommit ==
  /\ ~Redis /\ thread \in {"running", "dead"} /\ committed # readTo
  /\ readTo > base
  /\ committed' = readTo
  /\ UNCHANGED <<market, topic, proc, lives, thread, group, base, readTo, hand,
                 acking, pel, strategy, conduct>>

-----------------------------------------------------------------------------
Stop ==
  /\ conduct.ends = "stop" /\ proc = "up" /\ proc' = "stopping"
  /\ UNCHANGED <<market, topic, lives, thread, group, committed, base, readTo, hand,
                 acking, pel, strategy, conduct>>

Down ==
  /\ proc' = "down" /\ thread' = "none" /\ hand' = <<>> /\ acking' = FALSE
  /\ UNCHANGED <<market, topic, lives, group, base, readTo, pel, strategy, conduct>>

(* The thread comes to the end of its loop, where Kafka's closes the       *)
(* consumer, which commits; or join gives up after five seconds.           *)
Exit ==
  /\ proc = "stopping" /\ Down
  /\ \/ /\ thread = "running" /\ hand = <<>>
        /\ committed' = IF ~Redis /\ readTo > base THEN readTo ELSE committed
     \/ UNCHANGED committed

Crash == conduct.ends = "crash" /\ proc = "up" /\ Down /\ UNCHANGED committed

FeedStep ==
  \/ \E n \in DOMAIN conduct.ticks : \E t \in conduct.ticks[n] : OnTick(t)
  \/ RestartFeed
ConsumerStep == Assign \/ Fetch \/ Handle \/ Ack

FeedNext ==
  \/ FeedStep \/ Deliver
  \/ \E kind \in {"garbled", "unfit"} : PublishAlien(kind)
  \/ Start \/ ConsumerStep \/ RedisRaises \/ AutoCommit
  \/ Stop \/ Exit \/ Crash

FeedSpec == FeedInit /\ [][FeedNext]_feedVars

-----------------------------------------------------------------------------
(* The bars are those of a reference that knows all ticks at once: a tick  *)
(* belongs to the latest bar any tick up to it has reached, so that a late *)
(* tick is counted in the open bar and never reopens a closed one.         *)
Reached(i) == Max({BarStart(heard[j], conduct.interval) : j \in 1..i})
ReferenceBar(start) ==
  LET of == {i \in DOMAIN heard : Reached(i) = start}
  IN  [start  |-> start,
       open   |-> heard[Min(of)].price, close |-> heard[Max(of)].price,
       high   |-> Max({heard[i].price : i \in of}),
       low    |-> Min({heard[i].price : i \in of}),
       volume |-> MapThenSumSet(LAMBDA i : heard[i].volume, of)]
Bars == IF openBar = NoBar THEN emitted ELSE Append(emitted, openBar)
BarsAreReference ==
  /\ {Bars[k].start : k \in DOMAIN Bars} = {Reached(i) : i \in DOMAIN heard}
  /\ \A k \in DOMAIN Bars : Bars[k] = ReferenceBar(Bars[k].start)
  /\ \A j, k \in DOMAIN Bars : j < k =>
       /\ Bars[j].start < Bars[k].start
       /\ Hour % conduct.interval = 0
            => Bars[j].start + conduct.interval <= Bars[k].start

(* Bars are handled in the order of the topic and none twice; on Kafka a   *)
(* restart may go back to the last commit, and only then.                  *)
HandledInOrder ==
  \A i, j \in DOMAIN handled :
    i < j /\ (Redis \/ handled[i].life = handled[j].life)
      => handled[i].at < handled[j].at

(* A message that Redis has delivered was handled or is still pending in   *)
(* the group, through crashes, raising calls and messages that end the     *)
(* thread.  No life ever reads what is pending, but it is there.           *)
LostStaysPending ==
  Redis /\ group # Unset =>
    \A i \in (group + 1)..readTo :
      i \in pel \/ \E k \in DOMAIN handled : handled[k].at = i

(* "Live = backtest at the strategy + risk + order layer"                  *)
(* (contracts.tex:1296), at the strategy layer: while nothing fails, a     *)
(* life publishes what a replay of the bars of the topic from where it     *)
(* began to read would.  The replay computes each average as a weighted    *)
(* sum over all closes, not step by step.                                  *)
WeightedSum(c, n, period) ==
  LET weighted == [k \in 2..n |->
                     2 * Power(period + 1)[k - 2] * Power(period - 1)[n - k] * c[k]]
  IN  Power(period - 1)[n - 1] * c[1] + MapThenSumSet(LAMBDA k : weighted[k], 2..n)
ReplayTarget(c, n) ==
  LET one(p) == Power(p + 1)[n - 1]
  IN  TargetOf(WeightedSum(c, n, FastPeriod) * one(SlowPeriod)
               - WeightedSum(c, n, SlowPeriod) * one(FastPeriod),
               one(FastPeriod) * one(SlowPeriod))
Done == readTo - Len(hand) - base + (IF acking THEN 1 ELSE 0)
Warm == Larger(FastPeriod, SlowPeriod) - 1
LiveIsBacktest ==
  ~conduct.fails /\ conduct.aliens = {} /\ proc # "down" /\ thread = "running" =>
    LET c == [i \in 1..Done |-> topic[base + i].bar.close]
    IN  targets = [i \in 1..Larger(0, Done - Warm) |-> ReplayTarget(c, Warm + i)]

=============================================================================
