--------------------------- MODULE Watchdog_proofs ---------------------------
(***************************************************************************)
(* TypeOK, RestartBudget and OnlySilencedIsDown of Watchdog, for any       *)
(* modules and limits.  The attempts counted in an entry pay for the       *)
(* processes started since the last recovery, and a recovery that resets   *)
(* them adds a whole budget.  A module that never stopped was heard of     *)
(* within one tick more than the heartbeats swallowed since.               *)
(***************************************************************************)
EXTENDS Watchdog, TLAPS

Inv == TypeOK /\ AttemptsPay

(* One more recovery pays for all the attempts there can be.               *)
LEMMA OneMoreBudget ==
  ASSUME NEW r \in Nat
  PROVE  /\ MaxRestarts * (r + 1) = MaxRestarts * r + MaxRestarts
         /\ MaxRestarts * (1 + r) = MaxRestarts * r + MaxRestarts
         /\ MaxRestarts * r \in Nat
<1>1. MaxRestarts \in Nat
  BY WatchdogAssumption
<1> QED
  BY <1>1

(* What is paid for by attempts is paid for by the limit of the attempts.  *)
LEMMA LimitPays ==
  ASSUME NEW s \in Nat, NEW paid \in Nat, NEW a \in Nat, NEW max \in Nat,
         s <= paid + a, a <= max
  PROVE  s <= paid + max
  OBVIOUS

(* What the operations do to an entry of the registry.                     *)
LEMMA EntryChanges ==
  ASSUME NEW e \in Entries
  PROVE  /\ e.attempts \in Nat /\ e.attempts <= MaxRestarts
         /\ Seen(e) \in Entries /\ Seen(e).attempts = e.attempts
         /\ \A s \in Statuses : /\ [e EXCEPT !.status = s] \in Entries
                               /\ [e EXCEPT !.status = s].attempts = e.attempts
         /\ [e EXCEPT !.attempts = 0] \in Entries
         /\ e.age \notin {Never, DeadTimeout + 1} =>
              /\ [e EXCEPT !.age = @ + 1] \in Entries
              /\ [e EXCEPT !.age = @ + 1].attempts = e.attempts
         /\ e.attempts < MaxRestarts => [e EXCEPT !.attempts = @ + 1] \in Entries
<1>1. /\ e.attempts \in Nat /\ e.attempts <= MaxRestarts
      /\ [e EXCEPT !.attempts = 0] \in Entries
  BY WatchdogAssumption DEF Entries
<1>2. Seen(e) \in Entries /\ Seen(e).attempts = e.attempts
  <2>1. 0 \in Never..(DeadTimeout + 1) /\ "alive" \in Statuses
    BY WatchdogAssumption DEF Never, Statuses
  <2> QED
    BY <2>1 DEF Entries, Seen
<1>3. ASSUME NEW s \in Statuses
      PROVE  [e EXCEPT !.status = s] \in Entries /\ [e EXCEPT !.status = s].attempts = e.attempts
  BY DEF Entries
<1>4. ASSUME e.age \notin {Never, DeadTimeout + 1}
      PROVE  /\ [e EXCEPT !.age = @ + 1] \in Entries
             /\ [e EXCEPT !.age = @ + 1].attempts = e.attempts
  BY <1>4, WatchdogAssumption DEF Entries, Never
<1>5. ASSUME e.attempts < MaxRestarts
      PROVE  [e EXCEPT !.attempts = @ + 1] \in Entries
  BY <1>5, WatchdogAssumption DEF Entries
<1> QED
  BY <1>1, <1>2, <1>3, <1>4, <1>5

(* The start of the watchdog: nothing was started, no attempt is counted.  *)
LEMMA InitInv == Init => Inv
<1> SUFFICES ASSUME Init PROVE Inv
  OBVIOUS
<1>1. Known \in Seq(Modules)
  BY WatchdogAssumption DEF Modules
<1>2. NewEntry \in Entries
  BY WatchdogAssumption DEF NewEntry, Entries, Never, Statuses
<1>3. TypeOK
  BY <1>1, <1>2 DEF Init, TypeOK, Idle
<1>4. AttemptsPay
  BY WatchdogAssumption DEF Init, AttemptsPay, NewEntry
<1> QED
  BY <1>3, <1>4 DEF Inv

(* An attempt is counted only within the budget, for a process started.    *)
LEMMA RestartKeepsInv ==
  ASSUME Inv, NEW m \in Modules, NEW rest, NEW size, entry[m].attempts < MaxRestarts,
         Restart(m, rest, size), UNCHANGED <<running, order, hb, restored>>
  PROVE  Inv'
<1>1. /\ entry'[m].attempts = entry[m].attempts + 1
      /\ \A n \in Modules \ {m} : entry'[n] = entry[n]
      /\ entry' \in [Modules -> Entries]
  <2>1. entry \in [Modules -> Entries]
    BY DEF Inv, TypeOK
  <2>2. entry' = [entry EXCEPT ![m].attempts = @ + 1]
    BY DEF Restart
  <2>3. [entry[m] EXCEPT !.attempts = @ + 1] \in Entries
    BY <2>1, EntryChanges
  <2>5. entry' \in [Modules -> Entries] /\ (\A n \in Modules \ {m} : entry'[n] = entry[n])
    BY <2>1, <2>2, <2>3
  <2>4. entry'[m].attempts = entry[m].attempts + 1
    BY <2>1, <2>2 DEF Entries
  <2> QED
    BY <2>4, <2>5
<1>0. \/ /\ starting' = [starting EXCEPT ![m] = @ + 1]
         /\ spawned' = [spawned EXCEPT ![m] = @ + 1]
      \/ UNCHANGED <<starting, spawned>>
  BY Zenon DEF Restart
<1>2. TypeOK'
  <2>1. starting' \in [Modules -> Nat]
    <3>1. starting \in [Modules -> Nat]
      BY DEF Inv, TypeOK
    <3>2. CASE UNCHANGED <<starting, spawned>>
      BY <3>1, <3>2
    <3>3. CASE starting' = [starting EXCEPT ![m] = @ + 1]
      BY <3>1, <3>3
    <3> QED
      BY <1>0, <3>2, <3>3
  <2>2. check'.phase = "restart"
    BY DEF Restart, At
  <2> QED
    BY <1>1, <2>1, <2>2 DEF Inv, TypeOK
<1>3. ASSUME NEW n \in Modules
      PROVE  spawned'[n] <= MaxRestarts * restored'[n] + entry'[n].attempts
  <2> DEFINE paid == MaxRestarts * restored[n]
  <2>1. /\ restored'[n] = restored[n] /\ paid \in Nat
        /\ spawned[n] <= paid + entry[n].attempts
    BY OneMoreBudget DEF Inv, AttemptsPay
  <2>2. spawned[n] \in Nat /\ entry[n].attempts \in Nat
    BY EntryChanges DEF Inv, TypeOK, AttemptsPay
  <2>3. \/ spawned'[n] = spawned[n]
        \/ n = m /\ spawned'[n] = spawned[n] + 1
    BY DEF Restart, Inv, AttemptsPay
  <2>4. MaxRestarts * restored'[n] = paid
    BY <2>1
  <2> HIDE DEF paid
  <2>5. spawned'[n] <= paid + entry'[n].attempts
    BY <1>1, <2>1, <2>2, <2>3
  <2> QED
    BY <2>4, <2>5
<1>4. spawned' \in [Modules -> Nat] /\ restored' \in [Modules -> Nat]
  BY DEF Inv, AttemptsPay, Restart
<1> QED
  BY <1>2, <1>3, <1>4 DEF Inv, AttemptsPay

(* A change of a status leaves the attempts alone.                         *)
LEMMA AnnounceKeepsInv ==
  ASSUME Inv, NEW m, NEW phase \in Down, NEW rest, NEW size,
         Announce(phase, m, rest, size), UNCHANGED <<running, order, hb, restored>>
  PROVE  Inv'
<1>1. /\ \A n \in Modules : entry'[n].attempts = entry[n].attempts
      /\ entry' \in [Modules -> Entries]
  <2>1. phase \in Statuses
    BY DEF Down, Statuses
  <2>2. /\ entry \in [Modules -> Entries]
        /\ entry' = [entry EXCEPT ![m] = [@ EXCEPT !.status = phase]]
    BY DEF Inv, TypeOK, Announce
  <2>3. \A n \in Modules : /\ [entry[n] EXCEPT !.status = phase] \in Entries
                           /\ [entry[n] EXCEPT !.status = phase].attempts = entry[n].attempts
    BY <2>1, <2>2, EntryChanges
  <2>4. \A n \in Modules :
          entry'[n] = IF n = m THEN [entry[n] EXCEPT !.status = phase] ELSE entry[n]
    BY <2>2
  <2>5. entry' \in [Modules -> Entries]
    BY <2>2, <2>3
  <2> QED
    BY <2>3, <2>4, <2>5
<1>2. TypeOK'
  BY <1>1 DEF Inv, TypeOK, Announce, At, Down
<1>3. AttemptsPay'
  BY <1>1 DEF Inv, AttemptsPay, Announce
<1> QED
  BY <1>2, <1>3 DEF Inv

(* A walk announces, or restarts a module that is due for it.              *)
LEMMA WalkKeepsInv ==
  ASSUME Inv, NEW rest, NEW size, Walk(rest, size), UNCHANGED <<running, order, hb, restored>>
  PROVE  Inv'
<1>1. CASE check' = Idle /\ UNCHANGED <<entry, starting, spawned>>
  BY <1>1 DEF Inv, TypeOK, AttemptsPay, Idle
<1>2. ASSUME NEW i \in DOMAIN rest, Due(rest[i]),
             Visit(rest[i], SubSeq(rest, i + 1, Len(rest)), size)
      PROVE  Inv'
  <2> DEFINE m == rest[i]
             left == SubSeq(rest, i + 1, Len(rest))
  <2>1. CASE Announce("dead", m, left, size)
    BY <2>1, AnnounceKeepsInv DEF Down
  <2>2. CASE Announce("degraded", m, left, size)
    BY <2>2, AnnounceKeepsInv DEF Down
  <2>3. CASE ~IsDead(entry[m]) /\ entry[m].status = "degraded" /\ Restart(m, left, size)
    <3>1. m \in Modules /\ entry[m].attempts < MaxRestarts
      BY <1>2, <2>3 DEF Due, MayRestart, Modules
    <3> QED
      BY <2>3, <3>1, RestartKeepsInv
  <2> QED
    BY <1>2, <2>1, <2>2, <2>3 DEF Visit
<1> QED
  BY <1>1, <1>2 DEF Walk

(* Every step keeps the invariant.                                         *)
LEMMA NextInv == Inv /\ [Next]_vars => Inv'
<1> SUFFICES ASSUME Inv, [Next]_vars PROVE Inv'
  OBVIOUS
<1> USE DEF Inv, aux, tasks, world, history
<1>1. ASSUME NEW m \in Modules, Beat(m) PROVE Inv'
  BY <1>1 DEF Beat, TypeOK, AttemptsPay
<1>2. ASSUME NEW m \in Modules, Stops(m) PROVE Inv'
  BY <1>2 DEF Stops, TypeOK, AttemptsPay
<1>3. ASSUME NEW m \in Modules, ComesUp(m) PROVE Inv'
  BY <1>3 DEF ComesUp, TypeOK, AttemptsPay
<1>4. ASSUME NEW m \in Modules, StartFails(m) PROVE Inv'
  BY <1>4 DEF StartFails, TypeOK, AttemptsPay
<1>5. ASSUME NEW m \in Modules, HandleHeartbeat(m) PROVE Inv'
  <2>1. /\ entry' \in [Modules -> Entries]
        /\ \A n \in Modules : entry'[n].attempts = entry[n].attempts
    <3>1. /\ entry \in [Modules -> Entries]
          /\ entry' = [entry EXCEPT ![m] = Seen(@)]
      BY <1>5 DEF HandleHeartbeat, TypeOK
    <3> QED
      BY <3>1, EntryChanges
  <2>2. order' \in Seq(Modules) /\ hb' \in Modules \cup {NoOne}
    BY <1>5 DEF HandleHeartbeat, TypeOK
  <2> QED
    BY <1>5, <2>1, <2>2 DEF HandleHeartbeat, TypeOK, AttemptsPay
<1>6. ASSUME NEW m \in Modules, HandleHealth(m) PROVE Inv'
  BY <1>6 DEF HandleHealth, TypeOK, AttemptsPay
<1>7. CASE RestoredPublished
  <2>1. TypeOK'
    <3>1. /\ entry \in [Modules -> Entries]
          /\ entry' = [entry EXCEPT ![hb] = [@ EXCEPT !.attempts = 0]]
      BY <1>7 DEF RestoredPublished, TypeOK
    <3>2. entry' \in [Modules -> Entries]
      BY <3>1, EntryChanges
    <3> QED
      BY <1>7, <3>2 DEF RestoredPublished, TypeOK
  <2>2. ASSUME NEW n \in Modules
        PROVE  spawned'[n] <= MaxRestarts * restored'[n] + entry'[n].attempts
    <3>1. /\ spawned'[n] = spawned[n] /\ spawned[n] \in Nat /\ restored[n] \in Nat
          /\ entry[n].attempts \in Nat /\ entry[n].attempts <= MaxRestarts
          /\ spawned[n] <= MaxRestarts * restored[n] + entry[n].attempts
      BY <1>7, EntryChanges DEF RestoredPublished, TypeOK, AttemptsPay
    <3>2. CASE n # hb
      BY <1>7, <3>1, <3>2 DEF RestoredPublished, TypeOK, AttemptsPay
    <3>3. CASE n = hb
      <4>1. entry'[n].attempts = 0 /\ restored'[n] = restored[n] + 1
        BY <1>7, <3>3 DEF RestoredPublished, TypeOK, AttemptsPay
      <4>2. /\ MaxRestarts * (restored[n] + 1) = MaxRestarts * restored[n] + MaxRestarts
            /\ MaxRestarts * restored[n] \in Nat /\ MaxRestarts \in Nat
        BY <3>1, OneMoreBudget, WatchdogAssumption
      <4>3. spawned[n] <= MaxRestarts * restored[n] + MaxRestarts
        BY <3>1, <4>2, LimitPays
      <4> QED
        BY <3>1, <4>1, <4>2, <4>3
    <3> QED
      BY <3>2, <3>3
  <2>3. spawned' \in [Modules -> Nat] /\ restored' \in [Modules -> Nat]
    BY <1>7 DEF RestoredPublished, AttemptsPay, TypeOK
  <2> QED
    BY <2>1, <2>2, <2>3 DEF AttemptsPay
<1>8. CASE RestoredRaises
  BY <1>8 DEF RestoredRaises, TypeOK, AttemptsPay
<1>9. CASE CheckBegins
  BY <1>9, WalkKeepsInv DEF CheckBegins
<1>10. CASE CheckPublished
  <2>1. CASE MayRestart(check.module) /\ Restart(check.module, check.todo, check.size)
    <3>1. check.module \in Modules /\ entry[check.module].attempts < MaxRestarts
      BY <2>1 DEF MayRestart, Modules
    <3> QED
      BY <1>10, <2>1, <3>1, RestartKeepsInv DEF CheckPublished
  <2>2. CASE Walk(check.todo, check.size)
    BY <1>10, <2>2, WalkKeepsInv DEF CheckPublished
  <2> QED
    BY <1>10, <2>1, <2>2 DEF CheckPublished
<1>11. CASE CheckRaises
  BY <1>11 DEF CheckRaises, TypeOK, AttemptsPay, Idle
<1>12. CASE Tick
  <2>1. /\ entry' \in [Modules -> Entries]
        /\ \A n \in Modules : entry'[n].attempts = entry[n].attempts
    <3>1. /\ entry \in [Modules -> Entries]
          /\ entry' = [n \in Modules |->
               IF entry[n].age \in {Never, DeadTimeout + 1} THEN entry[n]
               ELSE [entry[n] EXCEPT !.age = @ + 1]]
      BY <1>12 DEF Tick, TypeOK
    <3> QED
      BY <3>1, EntryChanges
  <2> QED
    BY <1>12, <2>1 DEF Tick, TypeOK, AttemptsPay
<1>13. CASE UNCHANGED vars
  BY <1>13 DEF vars, TypeOK, AttemptsPay
<1> QED
  BY <1>1, <1>2, <1>3, <1>4, <1>5, <1>6, <1>7, <1>8, <1>9, <1>10, <1>11, <1>12, <1>13
     DEF Next, CheckStep

(* The types of the watchdog's state, with at most max_restarts attempts   *)
(* in every entry of the registry.                                         *)
THEOREM TypeCorrect == Spec => []TypeOK
<1>1. Inv => TypeOK
  BY DEF Inv
<1> QED
  BY InitInv, NextInv, <1>1, PTL DEF Spec

(* _attempt_restart starts a module at most max_restarts times per         *)
(* recovery, however the two tasks interleave at their publishes, whatever *)
(* raises, and whichever handler takes the heartbeats.                     *)
THEOREM RestartBudgetAlways == Spec => []RestartBudget
<1>1. Inv => RestartBudget
  <2> SUFFICES ASSUME Inv, NEW m \in Modules
               PROVE  spawned[m] <= MaxRestarts * (1 + restored[m])
    BY DEF RestartBudget
  <2>1. /\ spawned[m] \in Nat /\ restored[m] \in Nat
        /\ entry[m].attempts \in Nat /\ entry[m].attempts <= MaxRestarts
        /\ spawned[m] <= MaxRestarts * restored[m] + entry[m].attempts
    BY EntryChanges DEF Inv, TypeOK, AttemptsPay
  <2>2. /\ MaxRestarts * (1 + restored[m]) = MaxRestarts * restored[m] + MaxRestarts
        /\ MaxRestarts * restored[m] \in Nat /\ MaxRestarts \in Nat
    BY <2>1, OneMoreBudget, WatchdogAssumption
  <2>3. spawned[m] <= MaxRestarts * restored[m] + MaxRestarts
    BY <2>1, <2>2, LimitPays
  <2> QED
    BY <2>2, <2>3
<1> QED
  BY InitInv, NextInv, <1>1, PTL DEF Spec

-----------------------------------------------------------------------------
(* What holds of a module that runs: its entry is no older than the        *)
(* heartbeats swallowed since it was last heard of, and one tick.          *)
Unharmed(m) ==
  /\ running[m] > 0
  /\ entry[m].age <= missed[m] + 1
  /\ beat[m] /\ inbox[m] = 0 => entry[m].age <= missed[m]
  /\ missed[m] >= HeartbeatTimeout => m \in silenced
  /\ entry[m].status \in Down => missed[m] >= HeartbeatTimeout
  /\ entry[m].status = "dead" => missed[m] >= DeadTimeout
  /\ check.phase = "degraded" /\ check.module = m => m \in silenced
  /\ spawned[m] > 0 => m \in silenced

LiveInv ==
  /\ inbox \in [Modules -> Nat] /\ stops \in [Modules -> Nat]
  /\ missed \in [Modules -> Nat] /\ beat \in [Modules -> BOOLEAN]
  /\ \A m \in Modules : stops[m] = 0 => Unharmed(m)

LEMMA InitLive == Init => LiveInv
<1> SUFFICES ASSUME Init PROVE LiveInv
  OBVIOUS
<1> QED
  BY WatchdogAssumption DEF Init, LiveInv, Unharmed, NewEntry, Never, Idle, Down

(* An entry past a timeout belongs to a module that was silenced for it.   *)
LEMMA DueIsSilenced ==
  ASSUME Inv, LiveInv, NEW m \in Modules, Unharmed(m)
  PROVE  /\ IsDead(entry[m]) => missed[m] >= DeadTimeout /\ missed[m] >= HeartbeatTimeout
         /\ IsDegraded(entry[m]) => missed[m] >= HeartbeatTimeout
         /\ Due(m) => m \in silenced
<1>1. /\ entry[m].age \in Int /\ missed[m] \in Nat
      /\ entry[m].age <= missed[m] + 1
  BY WatchdogAssumption DEF Inv, LiveInv, TypeOK, Entries, Unharmed, Never
<1>2. /\ IsDead(entry[m]) => missed[m] >= DeadTimeout /\ missed[m] >= HeartbeatTimeout
      /\ IsDegraded(entry[m]) => missed[m] >= HeartbeatTimeout
  BY <1>1, WatchdogAssumption DEF IsDead, IsDegraded
<1> QED
  BY <1>2 DEF Due, Unharmed

(* A restart of a module that was silenced ...                             *)
LEMMA RestartIsForSilenced ==
  ASSUME Inv, NEW n \in Modules, NEW m \in Modules, Unharmed(m),
         UNCHANGED <<running, beat, inbox, heard>>,
         NEW rest, NEW size, Restart(n, rest, size), n = m => m \in silenced
  PROVE  Unharmed(m)'
<1>1. /\ entry \in [Modules -> Entries] /\ spawned \in [Modules -> Nat]
  BY DEF Inv, TypeOK, AttemptsPay
<1>2. entry'[m].age = entry[m].age /\ entry'[m].status = entry[m].status
  BY <1>1 DEF Restart, Entries
<1>3. n # m => spawned'[m] = spawned[m]
  BY <1>1 DEF Restart
<1>4. check'.phase = "restart"
  BY DEF Restart, At
<1> QED
  BY <1>2, <1>3, <1>4 DEF Unharmed, heard

(* ... and an announcement about one that is past its timeout are no harm. *)
LEMMA AnnounceIsForSilenced ==
  ASSUME Inv, LiveInv, NEW n, NEW m \in Modules, Unharmed(m),
         UNCHANGED <<running, beat, inbox, heard>>,
         NEW phase \in Down, NEW rest, NEW size, Announce(phase, n, rest, size),
         n = m => missed[m] >= HeartbeatTimeout,
         n = m /\ phase = "dead" => missed[m] >= DeadTimeout
  PROVE  Unharmed(m)'
<1>1. entry \in [Modules -> Entries]
  BY DEF Inv, TypeOK
<1>2. /\ entry'[m].age = entry[m].age
      /\ n # m => entry'[m].status = entry[m].status
      /\ n = m => entry'[m].status = phase
  BY <1>1 DEF Announce, Entries
<1>3. check'.phase = phase /\ check'.module = n /\ spawned' = spawned
  BY DEF Announce, At
<1> QED
  BY <1>2, <1>3 DEF Unharmed, heard

LEMMA WalkHarmsNone ==
  ASSUME Inv, LiveInv, NEW rest, NEW size, Walk(rest, size),
         UNCHANGED <<running, beat, inbox, heard>>,
         NEW m \in Modules, Unharmed(m)
  PROVE  Unharmed(m)'
<1>1. CASE check' = Idle /\ UNCHANGED <<entry, starting, spawned>>
  BY <1>1 DEF Unharmed, Idle, heard
<1>2. ASSUME NEW i \in DOMAIN rest, Due(rest[i]),
             Visit(rest[i], SubSeq(rest, i + 1, Len(rest)), size)
      PROVE  Unharmed(m)'
  <2> DEFINE n == rest[i]
             left == SubSeq(rest, i + 1, Len(rest))
  <2>0. n = m => m \in silenced
    BY <1>2, DueIsSilenced
  <2>1. CASE IsDead(entry[n]) /\ Announce("dead", n, left, size)
    <3>1. n = m => missed[m] >= HeartbeatTimeout /\ missed[m] >= DeadTimeout
      BY <2>1, DueIsSilenced
    <3> QED
      BY <2>0, <2>1, <3>1, AnnounceIsForSilenced DEF Down
  <2>2. CASE ~IsDead(entry[n]) /\ Announce("degraded", n, left, size)
    <3>1. n = m => missed[m] >= HeartbeatTimeout
      BY <1>2, <2>2, DueIsSilenced DEF Due
    <3> QED
      BY <2>0, <2>2, <3>1, AnnounceIsForSilenced DEF Down
  <2>3. CASE ~IsDead(entry[n]) /\ entry[n].status = "degraded" /\ Restart(n, left, size)
    <3>1. n \in Modules
      BY <1>2, <2>3 DEF Due, MayRestart, Modules
    <3> QED
      BY <2>0, <2>3, <3>1, RestartIsForSilenced
  <2> QED
    BY <1>2, <2>1, <2>2, <2>3 DEF Visit
<1> QED
  BY <1>1, <1>2 DEF Walk

LEMMA NextLive == Inv /\ LiveInv /\ [Next]_vars => LiveInv'
<1> SUFFICES ASSUME Inv, LiveInv, [Next]_vars PROVE LiveInv'
  OBVIOUS
<1> USE DEF aux, tasks, world, history, heard
<1>0. entry \in [Modules -> Entries] /\ running \in [Modules -> Nat]
  BY DEF Inv, TypeOK
<1>1. ASSUME NEW m \in Modules, Beat(m) PROVE LiveInv'
  BY <1>1 DEF Beat, LiveInv, Unharmed
<1>2. ASSUME NEW m \in Modules, Stops(m) PROVE LiveInv'
  BY <1>0, <1>2 DEF Stops, LiveInv, Unharmed
<1>3. ASSUME NEW m \in Modules, ComesUp(m) PROVE LiveInv'
  BY <1>0, <1>3 DEF ComesUp, LiveInv, Unharmed
<1>4. ASSUME NEW m \in Modules, StartFails(m) PROVE LiveInv'
  BY <1>4 DEF StartFails, LiveInv, Unharmed
<1>5. ASSUME NEW m \in Modules, HandleHeartbeat(m) PROVE LiveInv'
  <2>1. /\ \A n \in Modules : entry'[n] = IF n = m THEN Seen(entry[m]) ELSE entry[n]
        /\ \A n \in Modules : missed'[n] = IF n = m THEN 0 ELSE missed[n]
        /\ missed' \in [Modules -> Nat] /\ inbox' \in [Modules -> Nat]
        /\ \A n \in Modules \ {m} : inbox'[n] = inbox[n]
    BY <1>0, <1>5 DEF HandleHeartbeat, LiveInv
  <2>2. /\ Seen(entry[m]).age = 0 /\ Seen(entry[m]).status \notin Down
        /\ Seen(entry[m]).status # "dead"
    BY DEF Seen, Down
  <2>3. ASSUME NEW n \in Modules, stops[n] = 0 PROVE Unharmed(n)'
    <3>1. Unharmed(n)
      BY <2>3 DEF LiveInv
    <3>2. CASE n = m
      BY <1>5, <2>1, <2>2, <3>1, <3>2, WatchdogAssumption DEF HandleHeartbeat, Unharmed
    <3>3. CASE n # m
      BY <1>5, <2>1, <3>1, <3>3 DEF HandleHeartbeat, Unharmed
    <3> QED
      BY <3>2, <3>3
  <2> QED
    BY <1>5, <2>1, <2>3 DEF HandleHeartbeat, LiveInv
<1>6. ASSUME NEW m \in Modules, HandleHealth(m) PROVE LiveInv'
  <2>1. /\ \A n \in Modules : missed'[n] = IF n = m THEN missed[m] + 1 ELSE missed[n]
        /\ missed' \in [Modules -> Nat] /\ inbox' \in [Modules -> Nat]
        /\ \A n \in Modules \ {m} : inbox'[n] = inbox[n]
    BY <1>6 DEF HandleHealth, LiveInv
  <2>2. ASSUME NEW n \in Modules, stops[n] = 0 PROVE Unharmed(n)'
    <3>1. Unharmed(n) /\ missed[n] \in Nat
      BY <2>2 DEF LiveInv
    <3>2. n \in silenced => n \in silenced'
      BY <1>6 DEF HandleHealth
    <3>3. CASE n = m
      <4>1. missed'[n] >= HeartbeatTimeout => n \in silenced'
        BY <1>6, <3>3 DEF HandleHealth
      <4>2. entry[n].age <= missed'[n] /\ missed'[n] >= missed[n] /\ missed'[n] \in Nat
        BY <2>1, <3>1, <3>3 DEF Unharmed
      <4>3. entry[n].age \in Int
        BY <1>0 DEF Entries, Never
      <4> QED
        BY <1>6, <3>1, <3>2, <4>1, <4>2, <4>3, WatchdogAssumption DEF HandleHealth, Unharmed
    <3>4. CASE n # m
      BY <1>6, <2>1, <3>1, <3>2, <3>4 DEF HandleHealth, Unharmed
    <3> QED
      BY <3>3, <3>4
  <2> QED
    BY <1>6, <2>1, <2>2 DEF HandleHealth, LiveInv
<1>7. CASE RestoredPublished
  <2>1. \A n \in Modules : entry'[n].age = entry[n].age /\ entry'[n].status = entry[n].status
    BY <1>0, <1>7 DEF RestoredPublished, Entries
  <2> QED
    BY <1>7, <2>1 DEF RestoredPublished, LiveInv, Unharmed
<1>8. CASE RestoredRaises
  BY <1>8 DEF RestoredRaises, LiveInv, Unharmed
<1>9. CASE CheckBegins
  BY <1>9, WalkHarmsNone DEF CheckBegins, LiveInv
<1>10. CASE CheckPublished
  <2>1. CASE check.phase = "degraded" /\ MayRestart(check.module)
               /\ Restart(check.module, check.todo, check.size)
    <3> SUFFICES ASSUME NEW m \in Modules, Unharmed(m) PROVE Unharmed(m)'
      BY <1>10 DEF CheckPublished, LiveInv
    <3>1. check.module = m => m \in silenced
      BY <2>1 DEF Unharmed
    <3>2. check.module \in Modules
      BY <2>1 DEF MayRestart, Modules
    <3> QED
      BY <1>10, <2>1, <3>1, <3>2, RestartIsForSilenced DEF CheckPublished
  <2>2. CASE Walk(check.todo, check.size)
    BY <1>10, <2>2, WalkHarmsNone DEF CheckPublished, LiveInv
  <2> QED
    BY <1>10, <2>1, <2>2 DEF CheckPublished
<1>11. CASE CheckRaises
  BY <1>11 DEF CheckRaises, LiveInv, Unharmed, Idle
<1>12. CASE Tick
  <2>1. ASSUME NEW m \in Modules, stops[m] = 0 PROVE Unharmed(m)'
    <3>1. /\ Unharmed(m) /\ missed[m] \in Nat
          /\ entry[m].age <= missed[m] /\ running[m] > 0
      BY <1>12, <2>1 DEF Tick, LiveInv, Unharmed
    <3>2. beat'[m] = FALSE /\ entry'[m] \in {entry[m], [entry[m] EXCEPT !.age = @ + 1]}
      BY <1>12 DEF Tick
    <3>3. /\ entry[m].age \in Int
          /\ entry'[m].age \in {entry[m].age, entry[m].age + 1}
          /\ entry'[m].status = entry[m].status
      BY <1>0, <3>2 DEF Entries, Never
    <3>4. entry'[m].age <= missed[m] + 1
      BY <3>1, <3>3
    <3> QED
      BY <1>12, <3>1, <3>2, <3>3, <3>4 DEF Tick, Unharmed
  <2> QED
    BY <1>12, <2>1 DEF Tick, LiveInv
<1>13. CASE UNCHANGED vars
  BY <1>13 DEF vars, LiveInv, Unharmed
<1> QED
  BY <1>1, <1>2, <1>3, <1>4, <1>5, <1>6, <1>7, <1>8, <1>9, <1>10, <1>11, <1>12, <1>13
     DEF Next, CheckStep

(* A module that neither stopped nor hung is declared degraded or dead     *)
(* only when as many of its heartbeats in a row were taken by the          *)
(* subscription to "health.*" as that timeout has ticks, and is started    *)
(* again only if that once happened, for any timeouts and however the two  *)
(* tasks interleave (_check_once, handle_heartbeat and handle_health).     *)
THEOREM OnlySilencedIsDownAlways == Spec => []OnlySilencedIsDown
<1>1. LiveInv => OnlySilencedIsDown
  BY DEF LiveInv, Unharmed, OnlySilencedIsDown
<1> QED
  BY InitInv, NextInv, InitLive, NextLive, <1>1, PTL DEF Spec

=============================================================================
