------------------------------- MODULE Watchdog -------------------------------
(***************************************************************************)
(* The OMS watchdog, modules/watchdog.py: one asyncio task handles the     *)
(* heartbeats, another walks the registry, announces modules that are      *)
(* silent and starts them again.  Both suspend in every publish.  The      *)
(* processes it watches are external.                                      *)
(*                                                                         *)
(* A tick is the heartbeat interval.  A process that runs beats in every   *)
(* tick, and calls to Redis end within the tick they begin in.             *)
(***************************************************************************)
EXTENDS Integers, Sequences, SequencesExt

CONSTANTS
  Known,            \* known_modules, in the order of the registry
  Strangers,        \* modules that beat and have no known entry point
  HeartbeatTimeout, \* heartbeat_timeout_s, in ticks
  DeadTimeout,      \* dead_timeout_s, in ticks
  MaxRestarts,      \* max_restarts
  MaxStops,         \* bound: processes that stop or hang
  MaxSwallows,      \* bound: heartbeats the wrong subscription takes
  MayFail           \* the values fails may have

ASSUME WatchdogAssumption ==
  /\ Known \in Seq(Range(Known)) /\ Range(Known) \cap Strangers = {}
  /\ HeartbeatTimeout \in Nat \ {0} /\ DeadTimeout \in Nat
  /\ HeartbeatTimeout < DeadTimeout
  /\ MaxRestarts \in Nat /\ MaxStops \in Nat /\ MaxSwallows \in Nat
  /\ MayFail \subseteq BOOLEAN

Modules == Range(Known) \cup Strangers
NoOne   == "none"

VARIABLES
  running,  \* processes of each module that run
  starting, \* processes spawned and not yet up
  hung,     \* processes that hang and may come back
  beat,     \* has the module beaten in this tick?
  inbox,    \* heartbeats on the stream, by module
  order,    \* the keys of the registry in insertion order
  entry,    \* registry: ticks since last_seen, status, restart_attempts
  hb,       \* the module whose recovery the heartbeat task is publishing
  check,    \* the check task: what it publishes, on which module, what is left
  stops, swallows,
  spawned,  \* history: processes the watchdog started, by module
  restored, \* history: recoveries of each module
  missed,   \* history: heartbeats swallowed in a row, by module
  silenced, \* history: modules of which HeartbeatTimeout in a row were
  fails     \* never changes: may a publish or a spawn raise?

world   == <<running, starting, hung, beat, stops>>
heard   == <<missed, silenced>>
history == <<spawned, restored, heard>>
tasks   == <<hb, check>>
aux     == <<swallows, history, fails>>
vars    == <<world, inbox, order, entry, tasks, aux>>

Never     == -1                 \* last_seen is None
Statuses  == {"unknown", "alive", "degraded", "dead"}
Idle      == [phase |-> "idle", module |-> NoOne, todo |-> <<>>, size |-> 0]
NewEntry  == [age |-> Never, status |-> "unknown", attempts |-> 0]
Down      == {"degraded", "dead"}

Init ==
  /\ running = [m \in Modules |-> 1]
  /\ starting = [m \in Modules |-> 0] /\ hung = [m \in Modules |-> 0]
  /\ beat = [m \in Modules |-> FALSE] /\ inbox = [m \in Modules |-> 0]
  /\ order = Known
  /\ entry = [m \in Modules |-> NewEntry]
  /\ hb = NoOne /\ check = Idle
  /\ stops = [m \in Modules |-> 0] /\ swallows = 0
  /\ spawned = [m \in Modules |-> 0] /\ restored = [m \in Modules |-> 0]
  /\ missed = [m \in Modules |-> 0] /\ silenced = {} /\ fails \in MayFail

-----------------------------------------------------------------------------
(* The processes.                                                          *)

Beat(m) ==
  /\ running[m] > 0 /\ ~beat[m]
  /\ beat' = [beat EXCEPT ![m] = TRUE]
  /\ inbox' = [inbox EXCEPT ![m] = @ + 1]
  /\ UNCHANGED <<running, starting, hung, stops, order, entry, tasks, aux>>

StopsInAll == FoldFunction(+, 0, stops)

Stops(m) ==
  /\ running[m] > 0 /\ StopsInAll < MaxStops
  /\ stops' = [stops EXCEPT ![m] = @ + 1]
  /\ running' = [running EXCEPT ![m] = @ - 1]
  /\ hung' = [hung EXCEPT ![m] = @ + 1] \/ UNCHANGED hung
  /\ UNCHANGED <<starting, beat, inbox, order, entry, tasks, aux>>

(* A hung process goes on, or a spawned one is up ...                      *)
ComesUp(m) ==
  /\ \/ hung[m] > 0 /\ hung' = [hung EXCEPT ![m] = @ - 1] /\ UNCHANGED starting
     \/ starting[m] > 0 /\ starting' = [starting EXCEPT ![m] = @ - 1] /\ UNCHANGED hung
  /\ running' = [running EXCEPT ![m] = @ + 1]
  /\ UNCHANGED <<beat, stops, inbox, order, entry, tasks, aux>>

(* ... or it ends before its first heartbeat.                              *)
StartFails(m) ==
  /\ starting[m] > 0
  /\ starting' = [starting EXCEPT ![m] = @ - 1]
  /\ UNCHANGED <<running, hung, beat, stops, inbox, order, entry, tasks, aux>>

(* Time passes: every running process has beaten, what is on the stream    *)
(* was read, and nothing is being published.                               *)
Tick ==
  /\ \A m \in Modules : (running[m] > 0 => beat[m]) /\ inbox[m] = 0
  /\ hb = NoOne /\ check = Idle
  /\ beat' = [m \in Modules |-> FALSE]
  /\ entry' = [m \in Modules |->
       IF entry[m].age \in {Never, DeadTimeout + 1} THEN entry[m]
       ELSE [entry[m] EXCEPT !.age = @ + 1]]
  /\ UNCHANGED <<running, starting, hung, stops, inbox, order, tasks, aux>>

-----------------------------------------------------------------------------
(* The heartbeat task.                                                     *)

(* Faults: a dead module is not taken for a down one; last_seen is noted   *)
(* only the first time.                                                    *)
WasDownFault(e) == e.status = "degraded"
WasDown(e)      == e.status \in Down

SeenFault(e) == [e EXCEPT !.status = "alive", !.age = IF @ = Never THEN 0 ELSE @]
Seen(e)      == [age |-> 0, status |-> "alive", attempts |-> e.attempts]

(* handle_heartbeat up to its publish.  setdefault puts a new owner at the *)
(* end of the registry.                                                    *)
HandleHeartbeat(m) ==
  /\ inbox[m] > 0 /\ hb = NoOne
  /\ inbox' = [inbox EXCEPT ![m] = @ - 1]
  /\ missed' = [missed EXCEPT ![m] = 0]
  /\ order' = IF Contains(order, m) THEN order ELSE Append(order, m)
  /\ entry' = [entry EXCEPT ![m] = Seen(@)]
  /\ hb' = IF WasDown(entry[m]) THEN m ELSE NoOne
  /\ UNCHANGED <<world, check, swallows, spawned, restored, silenced, fails>>

(* health.restored is out: the restart budget is reset.                    *)
RestoredPublished ==
  /\ hb # NoOne
  /\ entry' = [entry EXCEPT ![hb].attempts = 0]
  /\ restored' = [restored EXCEPT ![hb] = @ + 1]
  /\ hb' = NoOne
  /\ UNCHANGED <<world, inbox, order, check, swallows, spawned, heard, fails>>

RestoredRaises ==
  /\ fails /\ hb # NoOne
  /\ hb' = NoOne
  /\ UNCHANGED <<world, inbox, order, entry, check, aux>>

(* handle_health: run subscribes to "health.*" too, in the same group,     *)
(* which delivers a heartbeat to one of the two only; this handler drops   *)
(* it as one that the other has handled.                                   *)
HandleHealth(m) ==
  /\ inbox[m] > 0 /\ swallows < MaxSwallows
  /\ swallows' = swallows + 1
  /\ inbox' = [inbox EXCEPT ![m] = @ - 1]
  /\ missed' = [missed EXCEPT ![m] = @ + 1]
  /\ silenced' = IF missed'[m] >= HeartbeatTimeout THEN silenced \cup {m} ELSE silenced
  /\ UNCHANGED <<world, order, entry, tasks, spawned, restored, fails>>

-----------------------------------------------------------------------------
(* The check task.                                                         *)

(* Fault: the shorter timeout is tested first.                             *)
IsDeadFault(e) == e.age > DeadTimeout /\ e.age <= HeartbeatTimeout
IsDead(e)      == e.age > DeadTimeout
IsDegraded(e)  == e.age > HeartbeatTimeout /\ ~IsDead(e)

(* Fault: the attempts are not limited.                                    *)
MayRestartFault(m) == m \in Range(Known)
MayRestart(m) == m \in Range(Known) /\ entry[m].attempts < MaxRestarts

(* _check_once goes from entry to entry without suspending until one has   *)
(* to be announced or restarted.                                           *)
Due(m) ==
  \/ IsDead(entry[m]) /\ entry[m].status # "dead"
  \/ IsDegraded(entry[m]) /\ (entry[m].status # "degraded" \/ MayRestart(m))

At(phase, m, rest, size) ==
  [phase |-> phase, module |-> m, todo |-> rest, size |-> size]

(* _attempt_restart: the attempt is counted, and Popen returns or raises.  *)
Restart(m, rest, size) ==
  /\ entry' = [entry EXCEPT ![m].attempts = @ + 1]
  /\ \/ /\ starting' = [starting EXCEPT ![m] = @ + 1]
        /\ spawned' = [spawned EXCEPT ![m] = @ + 1]
     \/ fails /\ UNCHANGED <<starting, spawned>>
  /\ check' = At("restart", m, rest, size)

Announce(phase, m, rest, size) ==
  /\ entry' = [entry EXCEPT ![m].status = phase]
  /\ check' = At(phase, m, rest, size)
  /\ UNCHANGED <<starting, spawned>>

(* What the loop does at an entry that is due.                             *)
Visit(m, rest, size) ==
  IF IsDead(entry[m]) THEN Announce("dead", m, rest, size)
  ELSE IF entry[m].status # "degraded" THEN Announce("degraded", m, rest, size)
  ELSE Restart(m, rest, size)

(* The loop goes on with the entries left.  If the registry grew meanwhile *)
(* the iterator raises, and the pass is over.                              *)
Walk(rest, size) ==
  LET due == {i \in DOMAIN rest : Due(rest[i])}
  IN  IF due = {} \/ Len(order) # size
        THEN check' = Idle /\ UNCHANGED <<entry, starting, spawned>>
        ELSE \E i \in due :
               /\ \A j \in due : i <= j
               /\ Visit(rest[i], SubSeq(rest, i + 1, Len(rest)), size)

CheckBegins ==
  /\ check = Idle
  /\ Walk(order, Len(order))
  /\ UNCHANGED <<running, hung, beat, stops, inbox, order, hb, swallows, restored, heard, fails>>

(* health.degraded or health.dead is out.  After the former the module is  *)
(* restarted if the budget allows it, whatever happened to it meanwhile.   *)
CheckPublished ==
  /\ check # Idle
  /\ IF check.phase = "degraded" /\ MayRestart(check.module)
       THEN Restart(check.module, check.todo, check.size)
       ELSE Walk(check.todo, check.size)
  /\ UNCHANGED <<running, hung, beat, stops, inbox, order, hb, swallows, restored, heard, fails>>

(* A publish raises: the loop logs it, and the pass is over.               *)
CheckRaises ==
  /\ fails /\ check # Idle
  /\ check' = Idle
  /\ UNCHANGED <<world, inbox, order, entry, hb, aux>>

HeartbeatStep == (\E m \in Modules : HandleHeartbeat(m)) \/ RestoredPublished \/ RestoredRaises
CheckStep     == CheckBegins \/ CheckPublished \/ CheckRaises

Next ==
  \/ \E m \in Modules :
       \/ Beat(m) \/ Stops(m) \/ ComesUp(m) \/ StartFails(m)
       \/ HandleHeartbeat(m) \/ HandleHealth(m)
  \/ RestoredPublished \/ RestoredRaises
  \/ CheckStep \/ Tick

Spec == Init /\ [][Next]_vars

(* The event loop runs both tasks, time passes, and what runs beats.       *)
FairSpec ==
  /\ Spec
  /\ WF_vars(HeartbeatStep) /\ WF_vars(CheckStep) /\ WF_vars(Tick)
  /\ \A m \in Modules : WF_vars(Beat(m))

-----------------------------------------------------------------------------
Entries == [age : Never..(DeadTimeout + 1), status : Statuses, attempts : 0..MaxRestarts]

TypeOK ==
  /\ running \in [Modules -> Nat] /\ starting \in [Modules -> Nat]
  /\ entry \in [Modules -> Entries]
  /\ order \in Seq(Modules) /\ hb \in Modules \cup {NoOne}
  /\ check.phase \in {"idle", "degraded", "dead", "restart"}

(* A module whose process neither stopped nor hung is declared degraded    *)
(* only when at least HeartbeatTimeout of its heartbeats in a row were     *)
(* swallowed, dead only after DeadTimeout of them, and is started a second *)
(* time only if that once happened: no interleaving of the two tasks takes *)
(* a live module for a silent one by itself ("last_seen >                  *)
(* HEARTBEAT_TIMEOUT_S -> degraded", watchdog.py:12).                      *)
OnlySilencedIsDown ==
  \A m \in Modules : stops[m] = 0 =>
    /\ entry[m].status \in Down   => missed[m] >= HeartbeatTimeout
    /\ entry[m].status = "dead"   => missed[m] >= DeadTimeout
    /\ spawned[m] > 0             => m \in silenced

(* A module is started at most MaxRestarts times per recovery, whatever    *)
(* happens while the attempts are announced ("max 3 restart attempts").    *)
RestartBudget ==
  \A m \in Modules : spawned[m] <= MaxRestarts * (1 + restored[m])

(* Why: the attempts of the entry pay for what was started since the last  *)
(* recovery.                                                               *)
AttemptsPay ==
  /\ spawned \in [Modules -> Nat] /\ restored \in [Modules -> Nat]
  /\ \A m \in Modules : spawned[m] <= MaxRestarts * restored[m] + entry[m].attempts

(* A module that was heard of and has no process any more is declared dead *)
(* in the end, even if every publish fails and the registry grows.         *)
DeclaredDead ==
  \A m \in Modules :
    <>[](running[m] = 0 /\ inbox[m] = 0 /\ entry[m].age # Never)
      => <>[](entry[m].status = "dead")

(* Once a module is up for good it has its restart budget again ("Reset    *)
(* restart counter on recovery so the budget resets", watchdog.py:89), if  *)
(* no publish fails: at most one attempt stays counted, the one that a     *)
(* check begun before the recovery makes after the reset.                  *)
BudgetComesBack ==
  ~fails => \A m \in Modules : <>[](running[m] > 0) => <>[](entry[m].attempts <= 1)

=============================================================================
