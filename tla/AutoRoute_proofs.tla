--------------------------- MODULE AutoRoute_proofs ---------------------------
(***************************************************************************)
(* The invariants of AutoRoute, for any minutes, limits, rates and         *)
(* conducts.  Each is inductive together with those before it:             *)
(*   SwitchInv    once the kill switch is tripped, the handlers past their *)
(*                checks pay for the orders that are still sent            *)
(*                (TrippedStopsOrders).                                    *)
(*   Typed        the types of what is traded and of what is on its way.   *)
(*   CallersInv   who calls back, and when.                                *)
(*   QuantityInv  the book, with what is due to it, leads to the broker's  *)
(*                position along the fills on their way.                   *)
(*   RowsInv      what one caller has read back is the book's              *)
(*                (BooksAgree).                                            *)
(*   AuditorInv   what the reconciler read is the table's until a row is   *)
(*                written over it (BreakMeansMissingFill).                 *)
(*   BarsInv      no two bars are in hand, and none chosen for is later.   *)
(*   ClaimInv     one handler gets past the claim of a key.                *)
(*   LeavesInv    leaves count down along the fills on their way.          *)
(*   OrderInv     a decision leads from where the position and the working *)
(*                orders lead to its target (OneOrderPerBar).              *)
(*   ProfitInv    what is realized is the cash of the fills plus what is   *)
(*                open at its average cost (ProfitIsMarkedCash).           *)
(***************************************************************************)
EXTENDS AutoRoute, SequenceTheorems, FiniteSetTheorems, WellFoundedInduction, TLAPS

PastPhases == {"rate", "claim", "register", "submit"}
Phases     == {"idle", "bar", "validate", "callback"} \cup PastPhases

(* What a handler holds; the values of its fields do not matter here.      *)
Jobs(V) == [phase : Phases, bar : V, key : V, now : V]
Shape   == \E V : task \in [Handlers -> Jobs(V)]

Counts == tripped \in BOOLEAN /\ late \in Nat /\ past \in Nat
Paid   == IF tripped THEN late + Cardinality(PastChecks) <= past ELSE late = 0

SwitchInv == Shape /\ Counts /\ Paid

(* Sets of handlers are finite, and lose one with each that leaves.        *)
LEMMA HandlerSets ==
  ASSUME NEW P \in SUBSET Handlers
  PROVE  /\ Cardinality(P) \in Nat
         /\ \A Q \in SUBSET P : Cardinality(Q) \in Nat /\ Cardinality(Q) <= Cardinality(P)
         /\ \A t \in P : Cardinality(P \ {t}) = Cardinality(P) - 1
<1>1. IsFiniteSet(Handlers)
  <2>1. IsFiniteSet({"md"})
    BY FS_Singleton
  <2>2. IsFiniteSet({"md"} \cup {"main"})
    BY <2>1, FS_AddElement
  <2>3. Handlers = {"md"} \cup {"main"}
    BY DEF Handlers
  <2> QED
    BY <2>2, <2>3
<1>2. IsFiniteSet(P)
  BY <1>1, FS_Subset
<1>3. Cardinality(P) \in Nat
  BY <1>2, FS_CardinalityType
<1>4. \A Q \in SUBSET P : Cardinality(Q) \in Nat /\ Cardinality(Q) <= Cardinality(P)
  BY <1>2, FS_Subset, FS_CardinalityType
<1>5. \A t \in P : Cardinality(P \ {t}) = Cardinality(P) - 1
  BY <1>2, FS_RemoveElement
<1> QED
  BY <1>3, <1>4, <1>5

LEMMA IdleJob == \E V : Idle \in Jobs(V)
<1>1. Idle \in Jobs({0, NoKey})
  BY DEF Idle, Jobs, Phases
<1> QED
  BY <1>1

(* One handler is given a job.                                             *)
LEMMA NewJob ==
  ASSUME Shape, NEW t \in Handlers, NEW W, NEW job \in Jobs(W),
         task' = [task EXCEPT ![t] = job]
  PROVE  /\ Shape'
         /\ task'[t] = job
         /\ \A s \in Handlers \ {t} : task'[s] = task[s]
<1>1. PICK V : task \in [Handlers -> Jobs(V)]
  BY DEF Shape
<1>2. /\ task'[t] = job
      /\ \A s \in Handlers \ {t} : task'[s] = task[s]
  BY <1>1
<1>3. \A s \in Handlers : task'[s] \in Jobs(V \cup W)
  <2>1. Jobs(V) \subseteq Jobs(V \cup W) /\ Jobs(W) \subseteq Jobs(V \cup W)
    BY DEF Jobs
  <2> QED
    BY <1>1, <1>2, <2>1
<1>4. task' \in [Handlers -> Jobs(V \cup W)]
  BY <1>1, <1>3
<1> QED
  BY <1>2, <1>4 DEF Shape

LEMMA PastIs ==
  /\ PastChecks  = {s \in Handlers : task[s].phase \in PastPhases}
  /\ PastChecks' = {s \in Handlers : task'[s].phase \in PastPhases}
BY DEF PastChecks, PastPhases

(* A handler moves on without a call of submit_order: it comes past its    *)
(* checks only while the switch is not tripped.                            *)
LEMMA MovesOn ==
  ASSUME SwitchInv, NEW t \in Handlers, NEW W, NEW job \in Jobs(W),
         task' = [task EXCEPT ![t] = job],
         tripped /\ job.phase \in PastPhases => task[t].phase \in PastPhases,
         UNCHANGED <<tripped, late, past>>
  PROVE  SwitchInv'
<1>1. /\ Shape' /\ task'[t] = job
      /\ \A s \in Handlers \ {t} : task'[s] = task[s]
  BY NewJob DEF SwitchInv
<1>2. Counts'
  BY DEF SwitchInv, Counts
<1>3. Paid'
  <2>1. CASE tripped
    <3>1. PastChecks' \subseteq PastChecks
      BY <1>1, <2>1, PastIs
    <3>2. PastChecks \in SUBSET Handlers
      BY DEF PastChecks
    <3>3. /\ Cardinality(PastChecks') <= Cardinality(PastChecks)
          /\ Cardinality(PastChecks') \in Nat /\ Cardinality(PastChecks) \in Nat
      BY <3>1, <3>2, HandlerSets
    <3> QED
      BY <2>1, <3>3 DEF SwitchInv, Paid, Counts
  <2>2. CASE ~tripped
    BY <2>2 DEF SwitchInv, Paid
  <2> QED
    BY <2>1, <2>2
<1> QED
  BY <1>1, <1>2, <1>3 DEF SwitchInv

(* A handler calls submit_order and is past its checks no more.            *)
LEMMA Sends ==
  ASSUME SwitchInv, NEW t \in Handlers, NEW W, NEW job \in Jobs(W),
         CallSubmit(t), task' = [task EXCEPT ![t] = job],
         job.phase \notin PastPhases, UNCHANGED <<tripped, past>>
  PROVE  SwitchInv'
<1>1. /\ Shape' /\ task'[t] = job
      /\ \A s \in Handlers \ {t} : task'[s] = task[s]
  BY NewJob DEF SwitchInv
<1>2. task[t].phase = "submit" /\ late' = IF tripped THEN late + 1 ELSE late
  BY DEF CallSubmit
<1>3. Counts'
  BY <1>2 DEF SwitchInv, Counts
<1>4. Paid'
  <2>1. CASE tripped
    <3>1. t \in PastChecks /\ PastChecks \in SUBSET Handlers
      BY <1>2 DEF PastChecks
    <3>2. PastChecks' = PastChecks \ {t}
      BY <1>1, PastIs
    <3>3. /\ Cardinality(PastChecks') = Cardinality(PastChecks) - 1
          /\ Cardinality(PastChecks) \in Nat
      BY <3>1, <3>2, HandlerSets
    <3> QED
      BY <1>2, <2>1, <3>3 DEF SwitchInv, Paid, Counts
  <2>2. CASE ~tripped
    BY <1>2, <2>2 DEF SwitchInv, Paid
  <2> QED
    BY <2>1, <2>2
<1> QED
  BY <1>1, <1>3, <1>4 DEF SwitchInv

LEMMA Unmoved ==
  ASSUME SwitchInv, UNCHANGED <<task, tripped, late, past>>
  PROVE  SwitchInv'
BY DEF SwitchInv, Shape, Counts, Paid, PastChecks

(* The end of a handler.                                                   *)
LEMMA Finishes ==
  ASSUME SwitchInv, NEW t \in Handlers, Finish(t), UNCHANGED <<tripped, late, past>>
  PROVE  SwitchInv'
<1>1. PICK V : Idle \in Jobs(V)
  BY IdleJob
<1>2. task' = [task EXCEPT ![t] = Idle] /\ Idle.phase = "idle"
  BY DEF Finish, Idle
<1> QED
  BY <1>1, <1>2, MovesOn DEF PastPhases

(* The steps up to the call.                                               *)
LEMMA DecideStep ==
  ASSUME SwitchInv, NEW t \in Handlers, Decide(t)
  PROVE  SwitchInv'
<1>0. PICK V : task \in [Handlers -> Jobs(V)]
  BY DEF SwitchInv, Shape
<1>1. ASSUME OnTarget(t) PROVE SwitchInv'
  <2>0. UNCHANGED <<tripped, late, past>>
    BY <1>1 DEF OnTarget, risk, history
  <2>1. CASE Finish(t)
    BY <2>0, <2>1, Finishes
  <2>2. ASSUME NEW k, task' = [task EXCEPT ![t].phase = "validate", ![t].key = k]
        PROVE  SwitchInv'
    <3> DEFINE job == [task[t] EXCEPT !.phase = "validate", !.key = k]
    <3>1. job \in Jobs(V \cup {k}) /\ job.phase = "validate"
      BY <1>0 DEF Jobs, Phases
    <3>2. task' = [task EXCEPT ![t] = job]
      BY <1>0, <2>2
    <3> HIDE DEF job
    <3> QED
      BY <2>0, <3>1, <3>2, MovesOn DEF PastPhases
  <2> QED
    BY <1>1, <2>1, <2>2 DEF OnTarget
<1>2. ASSUME Validate(t) PROVE SwitchInv'
  <2>0. UNCHANGED <<tripped, late, past>>
    BY <1>2 DEF Validate, risk, history
  <2>1. CASE Finish(t)
    BY <2>0, <2>1, Finishes
  <2>2. CASE /\ ~tripped
             /\ task' = [task EXCEPT ![t].phase = "rate", ![t].now = minute]
    <3> DEFINE job == [task[t] EXCEPT !.phase = "rate", !.now = minute]
    <3>1. job \in Jobs(V \cup {minute})
      BY <1>0 DEF Jobs, Phases, PastPhases
    <3>2. task' = [task EXCEPT ![t] = job]
      BY <1>0, <2>2
    <3> HIDE DEF job
    <3> QED
      BY <2>0, <2>2, <3>1, <3>2, MovesOn
  <2> QED
    BY <1>2, <2>1, <2>2 DEF Validate, PassesChecks
<1>3. ASSUME TryAcquire(t) \/ Claim(t) \/ Register(t) PROVE SwitchInv'
  <2>0. UNCHANGED <<tripped, late, past>> /\ task[t].phase \in PastPhases
    BY <1>3 DEF TryAcquire, Claim, Register, history, PastPhases
  <2>1. CASE Finish(t)
    BY <2>0, <2>1, Finishes
  <2>2. ASSUME NEW p \in PastPhases, task' = [task EXCEPT ![t].phase = p]
        PROVE  SwitchInv'
    <3> DEFINE job == [task[t] EXCEPT !.phase = p]
    <3>1. job \in Jobs(V)
      BY <1>0 DEF Jobs, Phases
    <3>2. task' = [task EXCEPT ![t] = job]
      BY <1>0, <2>2
    <3> HIDE DEF job
    <3> QED
      BY <2>0, <3>1, <3>2, MovesOn
  <2> QED
    BY <1>3, <2>1, <2>2 DEF TryAcquire, Claim, Register, PastPhases
<1> QED
  BY <1>1, <1>2, <1>3 DEF Decide

(* The calls of submit_order, to EMSX or on paper.                         *)
LEMMA SubmitStep ==
  ASSUME SwitchInv, NEW t \in Handlers,
         Submit(t) \/ SubmitFails(t) \/ SubmitUnmarked(t) \/ SubmitPaper(t)
  PROVE  SwitchInv'
<1>0. PICK V : task \in [Handlers -> Jobs(V)]
  BY DEF SwitchInv, Shape
<1>1. CallSubmit(t) /\ UNCHANGED <<tripped, past>>
  BY DEF Submit, SubmitFails, SubmitUnmarked, SubmitPaper, risk
<1>2. CASE Submit(t) \/ SubmitFails(t) \/ SubmitUnmarked(t)
  <2>1. PICK W : Idle \in Jobs(W)
    BY IdleJob
  <2>2. task' = [task EXCEPT ![t] = Idle] /\ Idle.phase = "idle"
    BY <1>2 DEF Submit, SubmitFails, SubmitUnmarked, Finish, Idle
  <2> QED
    BY <1>1, <2>1, <2>2, Sends DEF PastPhases
<1>3. CASE SubmitPaper(t)
  <2> DEFINE job == [task[t] EXCEPT !.phase = "callback"]
  <2>1. job \in Jobs(V) /\ job.phase = "callback"
    BY <1>0 DEF Jobs, Phases
  <2>2. task' = [task EXCEPT ![t] = job]
    BY <1>0, <1>3 DEF SubmitPaper
  <2> HIDE DEF job
  <2> QED
    BY <1>1, <2>1, <2>2, Sends DEF PastPhases
<1> QED
  BY <1>2, <1>3

LEMMA PaperReturnStep ==
  ASSUME SwitchInv, NEW t \in Handlers, PaperReturns(t)
  PROVE  SwitchInv'
BY Finishes DEF PaperReturns, history

(* The callbacks; in example 10 one of them trips the switch.              *)
LEMMA BookStep ==
  ASSUME SwitchInv, NEW t, Book(t)
  PROVE  SwitchInv'
BY Unmoved DEF Book, OnFill, ReadBack, session, risk, history

LEMMA CallbackStep ==
  ASSUME SwitchInv, StageCallback \/ RouteCallback
  PROVE  SwitchInv'
<1>1. ASSUME SubsUpdate \/ StageDone PROVE SwitchInv'
  BY <1>1, Unmoved DEF SubsUpdate, StageDone, session, risk, history
<1>2. ASSUME Count PROVE SwitchInv'
  <2>0. UNCHANGED <<task, late>>
    BY <1>2 DEF Count, session
  <2>1. CASE UNCHANGED <<tripped, past>>
    BY <2>0, <2>1, Unmoved
  <2>2. CASE Trip
    <3>1. PastChecks' = PastChecks /\ Cardinality(PastChecks) \in Nat
      BY <2>0, HandlerSets DEF PastChecks
    <3>2. tripped' = TRUE /\ past' = IF tripped THEN past ELSE Cardinality(PastChecks)
      BY <2>2 DEF Trip
    <3> QED
      BY <2>0, <3>1, <3>2 DEF SwitchInv, Shape, Counts, Paid
  <2> QED
    BY <1>2, <2>1, <2>2 DEF Count
<1> QED
  BY <1>1, <1>2, BookStep DEF StageCallback, RouteCallback

(* The bars that ticks and main close.                                     *)
LEMMA BarStep ==
  ASSUME SwitchInv, StopWaiting \/ \E m \in Minutes : OnTick(m)
  PROVE  SwitchInv'
<1>0. UNCHANGED <<tripped, late, past>>
  BY DEF StopWaiting, OnTick, risk, history
<1>1. CASE UNCHANGED task
  BY <1>0, <1>1, Unmoved
<1>2. ASSUME NEW t \in Handlers,
             task' = [task EXCEPT ![t] = [Idle EXCEPT !.phase = "bar", !.bar = openBar]]
      PROVE  SwitchInv'
  <2> DEFINE job == [Idle EXCEPT !.phase = "bar", !.bar = openBar]
  <2>1. job \in Jobs({0, openBar, NoKey}) /\ job.phase = "bar"
    BY DEF Idle, Jobs, Phases
  <2> HIDE DEF job
  <2> QED
    BY <1>0, <1>2, <2>1, MovesOn DEF PastPhases, job
<1> QED
  BY <1>1, <1>2 DEF StopWaiting, OnTick, Handlers

(* A new process: no handler runs and the switch is armed.                 *)
LEMMA RestartStep ==
  ASSUME SwitchInv, Restart
  PROVE  SwitchInv'
<1>1. PICK V : Idle \in Jobs(V)
  BY IdleJob
<1>2. task' = [t \in Handlers |-> Idle] /\ tripped' = FALSE /\ late' = 0 /\ past' = 0
  BY DEF Restart
<1> QED
  BY <1>1, <1>2 DEF SwitchInv, Shape, Counts, Paid

LEMMA InitSwitch == Init => SwitchInv
<1> SUFFICES ASSUME Init PROVE SwitchInv
  OBVIOUS
<1>1. PICK V : Idle \in Jobs(V)
  BY IdleJob
<1>2. task = [t \in Handlers |-> Idle] /\ tripped = FALSE /\ late = 0 /\ past = 0
  BY DEF Init
<1> QED
  BY <1>1, <1>2 DEF SwitchInv, Shape, Counts, Paid

LEMMA SwitchStep == SwitchInv /\ [Next]_vars => SwitchInv'
<1> SUFFICES ASSUME SwitchInv, [Next]_vars PROVE SwitchInv'
  OBVIOUS
<1>1. ASSUME LocalHandler PROVE SwitchInv'
  BY <1>1, DecideStep, SubmitStep, PaperReturnStep DEF LocalHandler, Handlers
<1>2. ASSUME NEW t \in Handlers, PaperHandler(t) \/ StageHandler(t) \/ RouteHandler(t)
      PROVE  SwitchInv'
  BY <1>2, DecideStep, SubmitStep, PaperReturnStep
     DEF PaperHandler, StageHandler, RouteHandler
<1>3. ASSUME LocalCallback \/ \E t \in Handlers : PaperCallback(t) PROVE SwitchInv'
  BY <1>3, BookStep DEF LocalCallback, PaperCallback
<1>4. ASSUME NEW k, NEW q, NEW price, VenueFills(k, q, price) PROVE SwitchInv'
  BY <1>4, Unmoved DEF VenueFills, session, risk, history
<1>5. ASSUME End \/ Audit \/ UNCHANGED vars PROVE SwitchInv'
  BY <1>5, Unmoved DEF End, Audit, vars, session, risk, history
<1> QED
  BY <1>1, <1>2, <1>3, <1>4, <1>5, CallbackStep, BarStep, RestartStep DEF Next

(* The inductive invariant of the switch: the orders sent since it was     *)
(* tripped and those that may still come are paid for by the handlers that *)
(* were past their checks when it was.                                     *)
THEOREM SwitchInvariant == Spec => []SwitchInv
<1> QED
  BY InitSwitch, SwitchStep, PTL DEF Spec

(* After the trip only handlers past their checks still send an order.     *)
THEOREM TrippedStopsOrdersAlways == Spec => []TrippedStopsOrders
<1>1. SwitchInv => TrippedStopsOrders
  <2> SUFFICES ASSUME SwitchInv PROVE late <= past
    BY DEF TrippedStopsOrders
  <2>1. Cardinality(PastChecks) \in Nat
    BY HandlerSets DEF PastChecks
  <2> QED
    BY <2>1 DEF SwitchInv, Counts, Paid
<1> QED
  BY <1>1, SwitchInvariant, PTL

-----------------------------------------------------------------------------
(* Sums over finite sets.  The fold of the community modules is a          *)
(* recursive function on the subsets of a set; that there is one, and that *)
(* the order of its choices does not matter, is shown by a smallest        *)
(* counterexample.                                                         *)
SumIt(f, S, g) ==
  [s \in SUBSET S |-> IF s = {} THEN 0
                      ELSE LET x == CHOOSE x \in s : TRUE IN f[x] + g[s \ {x}]]
IsSum(f, S, g) == g = SumIt(f, S, g)
Sum(f, S) == MapThenSumSet(LAMBDA x : f[x], S)
First(s) == CHOOSE x \in s : TRUE

LEMMA Least ==
  ASSUME NEW S \in SUBSET Nat, S # {}
  PROVE  \E n \in S : \A m \in S : n <= m
<1> DEFINE R == OpToRel(<, Nat)
<1>1. \E n \in S : \A m \in S : <<m, n>> \notin R
  BY NatLessThanWellFounded, WFMin
<1>2. \A m, n \in Nat : m < n => <<m, n>> \in R
  BY DEF OpToRel
<1> HIDE DEF R
<1>3. PICK n \in S : \A m \in S : <<m, n>> \notin R
  BY <1>1
<1>4. \A m \in S : m \in Nat /\ n \in Nat /\ ~(m < n)
  BY <1>2, <1>3
<1>5. \A m \in S : n <= m
  BY <1>4
<1> QED
  BY <1>3, <1>5

(* Of a set of finite sets, one has no element that is smaller.            *)
LEMMA Smallest ==
  ASSUME NEW S, IsFiniteSet(S), NEW B \in SUBSET SUBSET S, B # {}
  PROVE  \E T \in B : \A U \in SUBSET T : U # T => U \notin B
<1>1. \A T \in SUBSET S : IsFiniteSet(T) /\ Cardinality(T) \in Nat
  BY FS_Subset, FS_CardinalityType
<1> DEFINE N == {Cardinality(T) : T \in B}
<1>2. N \in SUBSET Nat /\ N # {}
  BY <1>1
<1> HIDE DEF N
<1>3. PICK n \in N : \A m \in N : n <= m
  BY <1>2, Least
<1>4. PICK T \in B : n = Cardinality(T)
  BY <1>3 DEF N
<1>5. ASSUME NEW U \in SUBSET T, U # T, U \in B PROVE FALSE
  <2>1. IsFiniteSet(T) /\ Cardinality(U) \in Nat /\ Cardinality(T) \in Nat
    BY <1>1, <1>4, <1>5
  <2>2. Cardinality(U) < Cardinality(T)
    BY <2>1, <1>5, FS_Subset
  <2>3. Cardinality(U) \in N
    BY <1>5 DEF N
  <2> QED
    BY <1>3, <1>4, <2>1, <2>2, <2>3
<1> QED
  BY <1>5

LEMMA SumIs ==
  ASSUME NEW f, NEW S
  PROVE  Sum(f, S) = (CHOOSE g : IsSum(f, S, g))[S]
BY DEF Sum, MapThenSumSet, MapThenFoldSet, IsSum, SumIt

LEMMA SumUnfolds ==
  ASSUME NEW f, NEW S, NEW g, IsSum(f, S, g), NEW s \in SUBSET S
  PROVE  /\ s = {} => g[s] = 0
         /\ s # {} => First(s) \in s /\ g[s] = f[First(s)] + g[s \ {First(s)}]
<1>1. g[s] = SumIt(f, S, g)[s]
  BY DEF IsSum
<1>2. SumIt(f, S, g)[s] = IF s = {} THEN 0 ELSE f[First(s)] + g[s \ {First(s)}]
  BY DEF SumIt, First
<1>3. s # {} => First(s) \in s
  BY DEF First
<1> QED
  BY <1>1, <1>2, <1>3

LEMMA SumUnique ==
  ASSUME NEW f, NEW S, IsFiniteSet(S), NEW T \in SUBSET S,
         NEW g, IsSum(f, S, g), NEW h, IsSum(f, T, h)
  PROVE  \A s \in SUBSET T : g[s] = h[s]
<1> DEFINE B == {s \in SUBSET T : g[s] # h[s]}
<1> SUFFICES ASSUME B # {} PROVE FALSE
  OBVIOUS
<1>1. B \in SUBSET SUBSET S
  OBVIOUS
<1>2. PICK s \in B : \A u \in SUBSET s : u # s => u \notin B
  <2> HIDE DEF B
  <2> QED
    BY <1>1, Smallest
<1>3. s \in SUBSET S /\ s \in SUBSET T /\ g[s] # h[s]
  OBVIOUS
<1>4. s # {}
  BY <1>3, SumUnfolds
<1> DEFINE u == s \ {First(s)}
<1>5. /\ First(s) \in s
      /\ g[s] = f[First(s)] + g[u] /\ h[s] = f[First(s)] + h[u]
  BY <1>3, <1>4, SumUnfolds
<1>6. u \in SUBSET s /\ u # s /\ u \in SUBSET T
  BY <1>3, <1>5
<1> HIDE DEF u
<1>7. g[u] = h[u]
  BY <1>2, <1>6
<1> QED
  BY <1>3, <1>5, <1>7

(* There is one for each finite set.                                       *)
LEMMA SumExists ==
  ASSUME NEW f, NEW S, IsFiniteSet(S)
  PROVE  \A T \in SUBSET S : \E g : IsSum(f, T, g)
<1> DEFINE B == {T \in SUBSET S : ~ \E g : IsSum(f, T, g)}
<1> SUFFICES ASSUME B # {} PROVE FALSE
  OBVIOUS
<1>1. PICK T \in B : \A u \in SUBSET T : u # T => u \notin B
  <2>1. B \in SUBSET SUBSET S
    OBVIOUS
  <2> HIDE DEF B
  <2> QED
    BY <2>1, Smallest
<1>2. T \in SUBSET S /\ ~ \E g : IsSum(f, T, g) /\ IsFiniteSet(T)
  BY FS_Subset
<1> DEFINE G(u) == CHOOSE g : IsSum(f, u, g)
           h == [s \in SUBSET T |-> IF s = {} THEN 0
                                    ELSE f[First(s)] + G(s \ {First(s)})[s \ {First(s)}]]
<1>3. ASSUME NEW u \in SUBSET T, u # T PROVE IsSum(f, u, G(u)) /\ IsFiniteSet(u)
  <2>1. u \notin B /\ u \in SUBSET S
    BY <1>1, <1>3
  <2>2. \E g : IsSum(f, u, g)
    BY <2>1
  <2> HIDE DEF B
  <2> QED
    BY <1>2, <1>3, <2>2, FS_Subset
<1> HIDE DEF G
<1>4. ASSUME NEW s, NEW g, IsSum(f, s, g), s # {}
      PROVE  First(s) \in s /\ g[s] = f[First(s)] + g[s \ {First(s)}]
  BY <1>4, SumUnfolds
<1>5. ASSUME NEW s \in SUBSET T, s # T PROVE h[s] = G(s)[s]
  <2>1. IsSum(f, s, G(s)) /\ IsFiniteSet(s)
    BY <1>3, <1>5
  <2>2. CASE s = {}
    BY <2>1, <2>2, SumUnfolds
  <2>3. CASE s # {}
    <3> DEFINE u == s \ {First(s)}
    <3>1. First(s) \in s /\ G(s)[s] = f[First(s)] + G(s)[u]
      BY <2>1, <2>3, <1>4
    <3>2. h[s] = f[First(s)] + G(u)[u]
      BY <2>3
    <3>3. u \in SUBSET s /\ u \in SUBSET T /\ u # T
      BY <1>5, <3>1
    <3> HIDE DEF u
    <3>4. IsSum(f, u, G(u))
      BY <1>3, <3>3
    <3>5. G(s)[u] = G(u)[u]
      BY <2>1, <3>3, <3>4, SumUnique
    <3> QED
      BY <3>1, <3>2, <3>5
  <2> QED
    BY <2>2, <2>3
<1>6. ASSUME NEW s \in SUBSET T, s # {}
      PROVE  h[s \ {First(s)}] = G(s \ {First(s)})[s \ {First(s)}]
  <2>1. First(s) \in s
    BY <1>6 DEF First
  <2>2. s \ {First(s)} \in SUBSET T /\ s \ {First(s)} # T
    BY <1>6, <2>1
  <2> QED
    BY <1>5, <2>2
<1>7. h = [s \in SUBSET T |-> IF s = {} THEN 0 ELSE f[First(s)] + h[s \ {First(s)}]]
  BY <1>6
<1> HIDE DEF h
<1>8. IsSum(f, T, h)
  BY <1>7 DEF IsSum, SumIt, First
<1> QED
  BY <1>2, <1>8

LEMMA SumFirst ==
  ASSUME NEW f, NEW S, IsFiniteSet(S)
  PROVE  /\ S = {} => Sum(f, S) = 0
         /\ S # {} => First(S) \in S /\ Sum(f, S) = f[First(S)] + Sum(f, S \ {First(S)})
<1> DEFINE g == CHOOSE g : IsSum(f, S, g)
           u == S \ {First(S)}
           h == CHOOSE h : IsSum(f, u, h)
<1>1. IsSum(f, S, g)
  BY SumExists
<1>2. IsSum(f, u, h) /\ u \in SUBSET S
  BY SumExists
<1>3. Sum(f, S) = g[S] /\ Sum(f, u) = h[u]
  BY SumIs
<1> HIDE DEF g, h
<1>4. g[u] = h[u]
  BY <1>1, <1>2, SumUnique
<1>5. /\ S = {} => g[S] = 0
      /\ S # {} => First(S) \in S /\ g[S] = f[First(S)] + g[u]
  BY <1>1, SumUnfolds
<1> QED
  BY <1>3, <1>4, <1>5

LEMMA SumType ==
  ASSUME NEW f, NEW S, IsFiniteSet(S), \A x \in S : f[x] \in Int
  PROVE  \A T \in SUBSET S : Sum(f, T) \in Int
<1> DEFINE B == {T \in SUBSET S : Sum(f, T) \notin Int}
<1> SUFFICES ASSUME B # {} PROVE FALSE
  OBVIOUS
<1>1. PICK T \in B : \A u \in SUBSET T : u # T => u \notin B
  <2>1. B \in SUBSET SUBSET S
    OBVIOUS
  <2> HIDE DEF B
  <2> QED
    BY <2>1, Smallest
<1>2. T \in SUBSET S /\ IsFiniteSet(T) /\ Sum(f, T) \notin Int
  BY FS_Subset
<1>3. T # {}
  <2>1. T = {} => Sum(f, T) = 0
    BY <1>2, SumFirst
  <2> QED
    BY <1>2, <2>1
<1> DEFINE u == T \ {First(T)}
<1>4. First(T) \in T /\ Sum(f, T) = f[First(T)] + Sum(f, u)
  BY <1>2, <1>3, SumFirst
<1>5. u \in SUBSET T /\ u # T /\ u \in SUBSET S
  BY <1>2, <1>4
<1> HIDE DEF u
<1>6. Sum(f, u) \in Int
  BY <1>1, <1>5
<1>7. f[First(T)] \in Int
  BY <1>2, <1>4
<1> QED
  BY <1>2, <1>4, <1>6, <1>7

(* Any element may be taken out.                                           *)
LEMMA SumWithout ==
  ASSUME NEW f, NEW S, IsFiniteSet(S), \A x \in S : f[x] \in Int
  PROVE  \A T \in SUBSET S : \A z \in T : Sum(f, T) = f[z] + Sum(f, T \ {z})
<1> DEFINE Out(T, z) == Sum(f, T) = f[z] + Sum(f, T \ {z})
           B == {T \in SUBSET S : \E z \in T : ~Out(T, z)}
<1> SUFFICES ASSUME B # {} PROVE FALSE
  OBVIOUS
<1>1. PICK T \in B : \A u \in SUBSET T : u # T => u \notin B
  <2>1. B \in SUBSET SUBSET S
    OBVIOUS
  <2> HIDE DEF B
  <2> QED
    BY <2>1, Smallest
<1>2. T \in SUBSET S /\ IsFiniteSet(T)
  BY FS_Subset
<1>3. PICK z \in T : ~Out(T, z)
  OBVIOUS
<1> DEFINE y == First(T)
<1>4. y \in T /\ Out(T, y)
  BY <1>2, <1>3, SumFirst
<1>5. y # z
  BY <1>3, <1>4
<1> HIDE DEF y
<1>6. ASSUME NEW x \in T, NEW w \in T, w # x PROVE Out(T \ {x}, w)
  <2>1. T \ {x} \in SUBSET T /\ T \ {x} # T /\ T \ {x} \in SUBSET S /\ w \in T \ {x}
    BY <1>2, <1>6
  <2>2. T \ {x} \notin B
    BY <1>1, <2>1
  <2> HIDE DEF Out
  <2> QED
    BY <2>1, <2>2
<1>7. (T \ {y}) \ {z} = (T \ {z}) \ {y}
  OBVIOUS
<1> DEFINE r == (T \ {z}) \ {y}
<1>8. /\ Sum(f, T) = f[y] + Sum(f, T \ {y})
      /\ Sum(f, T \ {y}) = f[z] + Sum(f, r)
      /\ Sum(f, T \ {z}) = f[y] + Sum(f, r)
  BY <1>4, <1>5, <1>6, <1>7
<1>9. f[y] \in Int /\ f[z] \in Int /\ Sum(f, r) \in Int
  BY <1>2, <1>4, SumType
<1> HIDE DEF r
<1>10. Sum(f, T) = f[z] + Sum(f, T \ {z})
  BY <1>8, <1>9
<1> QED
  BY <1>3, <1>10

(* Functions that agree on a set have the same sum.                        *)
LEMMA SumAgrees ==
  ASSUME NEW f, NEW h, NEW S, IsFiniteSet(S), \A x \in S : f[x] = h[x]
  PROVE  \A T \in SUBSET S : Sum(f, T) = Sum(h, T)
<1> DEFINE B == {T \in SUBSET S : Sum(f, T) # Sum(h, T)}
<1> SUFFICES ASSUME B # {} PROVE FALSE
  OBVIOUS
<1>1. PICK T \in B : \A u \in SUBSET T : u # T => u \notin B
  <2>1. B \in SUBSET SUBSET S
    OBVIOUS
  <2> HIDE DEF B
  <2> QED
    BY <2>1, Smallest
<1>2. T \in SUBSET S /\ IsFiniteSet(T) /\ Sum(f, T) # Sum(h, T)
  BY FS_Subset
<1>3. T # {}
  <2>1. T = {} => Sum(f, T) = 0 /\ Sum(h, T) = 0
    BY <1>2, SumFirst
  <2> QED
    BY <1>2, <2>1
<1> DEFINE u == T \ {First(T)}
<1>4. /\ First(T) \in T
      /\ Sum(f, T) = f[First(T)] + Sum(f, u) /\ Sum(h, T) = h[First(T)] + Sum(h, u)
  BY <1>2, <1>3, SumFirst
<1>5. u \in SUBSET T /\ u # T /\ u \in SUBSET S
  BY <1>2, <1>4
<1> HIDE DEF u
<1>6. Sum(f, u) = Sum(h, u)
  BY <1>1, <1>5
<1>7. f[First(T)] = h[First(T)]
  BY <1>2, <1>4
<1> QED
  BY <1>2, <1>4, <1>6, <1>7

LEMMA SumAdd ==
  ASSUME NEW f, NEW S, IsFiniteSet(S), NEW z, z \notin S, \A x \in S \cup {z} : f[x] \in Int
  PROVE  /\ Sum(f, S \cup {z}) = Sum(f, S) + f[z]
         /\ Sum(f, S) \in Int /\ IsFiniteSet(S \cup {z})
<1> DEFINE T == S \cup {z}
<1>1. IsFiniteSet(T) /\ z \in T /\ T \ {z} = S
  BY FS_AddElement
<1> HIDE DEF T
<1>2. \A x \in T : f[x] \in Int
  BY DEF T
<1>3. Sum(f, T) = f[z] + Sum(f, S)
  BY <1>1, <1>2, SumWithout
<1>4. Sum(f, S) \in Int /\ f[z] \in Int
  BY <1>1, <1>2, SumType
<1> QED
  BY <1>1, <1>3, <1>4 DEF T

-----------------------------------------------------------------------------
(* The types of what is traded and of what is on its way.                  *)
CallPhases == {"idle", "fill", "pnl", "avg", "qty", "store", "booked"}
Keys == [bar : Minutes \cup {0}, side : {1, -1}, qty : Int]
Rows(V) == [qty : Int, avg : V]
IsRow(r) == r \in Rows({r.avg})
Fills(P, R, prices) ==
  [phase : P, key : Keys, qty : Int, price : prices, leaves : Int, row : R]
IsFill(c) == IsRow(c.row) /\ c \in Fills(CallPhases, {c.row}, {c.price})
News == Fills({"fill"}, {Flat}, conduct.prices)

SessionTyped ==
  /\ conduct \in Conducts
  /\ minute \in Minutes /\ openBar \in Minutes \cup {None}
  /\ chosen \in [Minutes -> Int \cup {None}] /\ sent \in [Minutes -> Nat]
  /\ \A t \in Handlers : /\ task[t].key \in Keys
                         /\ task[t].phase # "idle" => task[t].bar \in Minutes

WorkingTyped ==
  /\ IsFiniteSet(DOMAIN working) /\ DOMAIN working \subseteq Keys
  /\ \A k \in DOMAIN working : working[k] \in Int

CallTyped == DOMAIN call = Threads /\ \A t \in Threads : IsFill(call[t])

VenueTyped ==
  /\ DOMAIN orders \subseteq Keys /\ \A k \in DOMAIN orders : orders[k] \in Int
  /\ news \in Seq(News) /\ broker \in Int

BooksTyped ==
  /\ IsRow(book) /\ IsRow(stored)
  /\ pnl \in [qty : Int, avg : {pnl.avg}, realized : {pnl.realized}]

Typed == SessionTyped /\ WorkingTyped /\ CallTyped /\ VenueTyped /\ BooksTyped

Weighed(f) == [k \in DOMAIN f |-> k.side * f[k]]

NetSum(f) == MapThenSumSet(LAMBDA k : k.side * f[k], DOMAIN f)

LEMMA NetIsSum ==
  ASSUME NEW f
  PROVE  Sum(Weighed(f), DOMAIN f) = NetSum(f)
<1> DEFINE D == DOMAIN f
           It(g) == [s \in SUBSET D |->
              IF s = {} THEN 0
              ELSE LET x == CHOOSE x \in s : TRUE
                   IN  x.side * f[x] + g[s \ {x}]]
<1>1. NetSum(f) = (CHOOSE g : g = It(g))[D]
  BY DEF NetSum, MapThenSumSet, MapThenFoldSet
<1>2. \A g : It(g) = SumIt(Weighed(f), D, g)
  BY DEF SumIt, Weighed
<1> HIDE DEF It
<1>3. (CHOOSE g : g = It(g)) = (CHOOSE g : IsSum(Weighed(f), D, g))
  BY <1>2 DEF IsSum
<1> QED
  BY <1>1, <1>3, SumIs

LEMMA KeyTyped ==
  ASSUME NEW k \in Keys
  PROVE  /\ k.side \in {1, -1} /\ k.qty \in Int /\ k.bar \in Minutes \cup {0}
         /\ \A n \in Int : k.side * n \in Int
BY DEF Keys

LEMMA NetWorkingTyped ==
  ASSUME WorkingTyped
  PROVE  NetWorking \in Int
<1> DEFINE f == Weighed(working)
<1>1. \A k \in DOMAIN working : f[k] = k.side * working[k] /\ k \in Keys /\ working[k] \in Int
  BY DEF Weighed, WorkingTyped
<1> HIDE DEF f
<1>2. \A k \in DOMAIN working : f[k] \in Int
  BY <1>1, KeyTyped
<1>3. Sum(f, DOMAIN working) \in Int
  BY <1>2, SumType DEF WorkingTyped
<1>4. NetWorking = NetSum(working)
  BY DEF NetWorking, NetSum
<1> QED
  BY <1>3, <1>4, NetIsSum DEF f

(* The working book with one entry set.                                    *)
LEMMA UpsertTyped ==
  ASSUME WorkingTyped, NEW k \in Keys, NEW leaves \in Int, working' = Upsert(k, leaves)
  PROVE  /\ WorkingTyped'
         /\ \A j : j # k => /\ j \in DOMAIN working' <=> j \in DOMAIN working
                            /\ j \in DOMAIN working => working'[j] = working[j]
         /\ leaves <= 0 => DOMAIN working' = DOMAIN working \ {k}
         /\ leaves > 0 => DOMAIN working' = DOMAIN working \cup {k} /\ working'[k] = leaves
<1>1. CASE leaves <= 0
  <2>1. working' = [j \in DOMAIN working \ {k} |-> working[j]]
    BY <1>1 DEF Upsert, Restrict
  <2>2. IsFiniteSet(DOMAIN working \ {k})
    BY FS_RemoveElement DEF WorkingTyped
  <2> QED
    BY <1>1, <2>1, <2>2 DEF WorkingTyped
<1>2. CASE leaves > 0
  <2>1. working' = [j \in DOMAIN working \cup {k} |-> IF j = k THEN leaves ELSE working[j]]
    BY <1>2 DEF Upsert
  <2>2. IsFiniteSet(DOMAIN working \cup {k})
    BY FS_AddElement DEF WorkingTyped
  <2> QED
    BY <1>2, <2>1, <2>2 DEF WorkingTyped
<1> QED
  BY <1>1, <1>2

(* One thread's callback moves on.                                         *)
LEMMA NewCall ==
  ASSUME CallTyped, NEW t \in Threads, NEW c, IsFill(c), call' = [call EXCEPT ![t] = c]
  PROVE  /\ CallTyped' /\ call'[t] = c
         /\ \A s \in Threads \ {t} : call'[s] = call[s]
BY DEF CallTyped, IsFill, IsRow

LEMMA CallMoves ==
  ASSUME CallTyped, NEW t \in Threads, NEW p \in CallPhases,
         call' = [call EXCEPT ![t].phase = p]
  PROVE  /\ CallTyped'
         /\ call'[t].phase = p /\ call'[t].key = call[t].key /\ call'[t].qty = call[t].qty
         /\ call'[t].price = call[t].price /\ call'[t].row = call[t].row
         /\ \A s \in Threads \ {t} : call'[s] = call[s]
<1> DEFINE c == [call[t] EXCEPT !.phase = p]
<1>1. IsFill(call[t])
  BY DEF CallTyped
<1>2. /\ c.phase = p /\ c.key = call[t].key /\ c.qty = call[t].qty
      /\ c.price = call[t].price /\ c.row = call[t].row /\ c.leaves = call[t].leaves
      /\ IsFill(c)
  BY <1>1 DEF IsFill, Fills
<1>3. call' = [call EXCEPT ![t] = c]
  BY <1>1 DEF CallTyped
<1> HIDE DEF c
<1> QED
  BY <1>2, <1>3, NewCall

LEMMA CallReads ==
  ASSUME CallTyped, NEW t \in Threads, NEW p \in CallPhases, NEW row, IsRow(row),
         call' = [call EXCEPT ![t].phase = p, ![t].row = row]
  PROVE  /\ CallTyped'
         /\ call'[t].phase = p /\ call'[t].key = call[t].key /\ call'[t].qty = call[t].qty
         /\ call'[t].price = call[t].price /\ call'[t].row = row
         /\ \A s \in Threads \ {t} : call'[s] = call[s]
<1> DEFINE c == [call[t] EXCEPT !.phase = p, !.row = row]
<1>1. IsFill(call[t])
  BY DEF CallTyped
<1>2. /\ c.phase = p /\ c.key = call[t].key /\ c.qty = call[t].qty
      /\ c.price = call[t].price /\ c.row = row /\ c.leaves = call[t].leaves
      /\ IsFill(c)
  BY <1>1 DEF IsFill, Fills, IsRow
<1>3. call' = [call EXCEPT ![t] = c]
  BY <1>1 DEF CallTyped
<1> HIDE DEF c
<1> QED
  BY <1>2, <1>3, NewCall

LEMMA RowsAre ==
  /\ IsRow(Flat) /\ Flat.qty = 0
  /\ NoFill.phase = "idle" /\ NoFill.key = NoKey /\ NoFill.qty = 0 /\ NoFill.row = Flat
  /\ IsFill(NoFill) /\ NoKey \in Keys
BY DEF Flat, NoFill, NoKey, IsRow, Rows, IsFill, Fills, CallPhases, Keys

LEMMA SignedTyped ==
  ASSUME CallTyped, NEW t \in Threads
  PROVE  Signed(t) \in Int /\ Signed(t) = call[t].key.side * call[t].qty
BY KeyTyped DEF CallTyped, IsFill, Fills, Signed

LEMMA BookFillIs ==
  ASSUME NEW row, NEW signed \in Int, NEW price, row.qty \in Int
  PROVE  /\ IsRow(BookFill(row, signed, price))
         /\ BookFill(row, signed, price).qty = row.qty + signed
BY DEF BookFill, IsRow, Rows

(* Both books average alike.                                               *)
LEMMA BooksAlike ==
  ASSUME NEW row, row \in [qty : Int, avg : {row.avg}, realized : {row.realized}],
         NEW signed \in Int, NEW price
  PROVE  /\ PnlFill(row, signed, price).qty = row.qty + signed
         /\ \E avg, realized :
              PnlFill(row, signed, price) \in [qty : Int, avg : {avg}, realized : {realized}]
         /\ PnlFill(row, signed, price).avg
              = BookFill([qty |-> row.qty, avg |-> row.avg], signed, price).avg
BY DEF PnlFill, BookFill, Blend

(* A step of a callback that books a fill.                                 *)
LEMMA BookTyped ==
  ASSUME Typed, NEW t \in Threads, Book(t)
  PROVE  Typed'
<1>0. /\ CallTyped /\ BooksTyped /\ Signed(t) \in Int /\ IsRow(call[t].row)
      /\ UNCHANGED <<session, risk, orders, news, history, conduct>>
      /\ SessionTyped /\ WorkingTyped /\ VenueTyped
  BY SignedTyped DEF Typed, CallTyped, IsFill, Book, OnFill, ReadBack
<1>1. UNCHANGED broker
  BY DEF Book, BookPosition, BookPnl, ReadBack, Store, books
<1>2. SessionTyped' /\ WorkingTyped' /\ VenueTyped'
  BY <1>0, <1>1 DEF session, risk, history, SessionTyped, WorkingTyped, VenueTyped, News
<1>3. CASE OnFill(t, "fill", "pnl") /\ BookPosition(Signed(t), call[t].price)
  <2>1. CallTyped'
    BY <1>0, <1>3, CallMoves DEF OnFill, CallPhases
  <2>2. BooksTyped'
    BY <1>0, <1>3, BookFillIs DEF BookPosition, BooksTyped, IsRow, Rows
  <2> QED
    BY <1>2, <2>1, <2>2 DEF Typed
<1>4. CASE OnFill(t, "pnl", "avg") /\ BookPnl(Signed(t), call[t].price)
  <2>1. CallTyped'
    BY <1>0, <1>4, CallMoves DEF OnFill, CallPhases
  <2>2. BooksTyped'
    <3>1. PICK avg, realized :
            pnl' \in [qty : Int, avg : {avg}, realized : {realized}]
      BY <1>0, <1>4, BooksAlike DEF BookPnl, BooksTyped
    <3> QED
      BY <1>0, <1>4, <3>1 DEF BookPnl, BooksTyped
  <2> QED
    BY <1>2, <2>1, <2>2 DEF Typed
<1>5. CASE ReadBack(t, "avg", "qty", [Flat EXCEPT !.avg = book.avg])
  <2>1. IsRow([Flat EXCEPT !.avg = book.avg])
    BY DEF Flat, IsRow, Rows
  <2>2. CallTyped'
    BY <1>0, <1>5, <2>1, CallReads DEF ReadBack, CallPhases
  <2>3. BooksTyped'
    BY <1>0, <1>5 DEF ReadBack, books, BooksTyped
  <2> QED
    BY <1>2, <2>2, <2>3 DEF Typed
<1>6. CASE ReadBack(t, "qty", "store", [call[t].row EXCEPT !.qty = book.qty])
  <2>1. IsRow([call[t].row EXCEPT !.qty = book.qty])
    BY <1>0 DEF BooksTyped, IsRow, Rows
  <2>2. CallTyped'
    BY <1>0, <1>6, <2>1, CallReads DEF ReadBack, CallPhases
  <2>3. BooksTyped'
    BY <1>0, <1>6 DEF ReadBack, books, BooksTyped
  <2> QED
    BY <1>2, <2>2, <2>3 DEF Typed
<1>7. CASE OnFill(t, "store", "booked") /\ Store(call[t].row)
  <2>1. CallTyped'
    BY <1>0, <1>7, CallMoves DEF OnFill, CallPhases
  <2>2. BooksTyped'
    BY <1>0, <1>7 DEF Store, BooksTyped
  <2> QED
    BY <1>2, <2>1, <2>2 DEF Typed
<1> QED
  BY <1>3, <1>4, <1>5, <1>6, <1>7 DEF Book

TasksTyped ==
  \A t \in Handlers : task[t].key \in Keys /\ (task[t].phase # "idle" => task[t].bar \in Minutes)

LEMMA NewTask ==
  ASSUME Shape, TasksTyped, NEW t \in Handlers, NEW W, NEW job \in Jobs(W),
         task' = [task EXCEPT ![t] = job],
         job.key \in Keys, job.phase # "idle" => job.bar \in Minutes
  PROVE  TasksTyped'
BY NewJob DEF TasksTyped

LEMMA Ends ==
  ASSUME Typed, Shape, NEW t \in Handlers, Finish(t)
  PROVE  /\ TasksTyped' /\ openBar' \in Minutes \cup {None}
         /\ task'[t] = Idle /\ \A s \in Handlers \ {t} : task'[s] = task[s]
<1>1. PICK V : Idle \in Jobs(V)
  BY IdleJob
<1>2. task' = [task EXCEPT ![t] = Idle] /\ Idle.phase = "idle" /\ Idle.key \in Keys
  BY RowsAre DEF Finish, Idle
<1>3. TasksTyped
  BY DEF Typed, SessionTyped, TasksTyped
<1>4. TasksTyped'
  BY <1>1, <1>2, <1>3, NewTask
<1>5. openBar' \in Minutes \cup {None}
  BY DEF Finish, Typed, SessionTyped
<1>6. task'[t] = Idle /\ \A s \in Handlers \ {t} : task'[s] = task[s]
  BY <1>1, <1>2, NewJob
<1> QED
  BY <1>4, <1>5, <1>6

LEMMA SameTrade ==
  ASSUME Typed, UNCHANGED <<books, venue, conduct>>
  PROVE  CallTyped' /\ VenueTyped' /\ BooksTyped'
BY DEF Typed, books, venue, CallTyped, VenueTyped, BooksTyped, News

(* A handler's job gets another phase, and perhaps a clock or a key.       *)
LEMMA JobMoves ==
  ASSUME Shape, NEW t \in Handlers, NEW p \in Phases,
         task' = [task EXCEPT ![t].phase = p]
  PROVE  /\ Shape'
         /\ task'[t].phase = p /\ task'[t].bar = task[t].bar /\ task'[t].key = task[t].key
         /\ \A s \in Handlers \ {t} : task'[s] = task[s]
<1>0. PICK V : task \in [Handlers -> Jobs(V)]
  BY DEF Shape
<1> DEFINE job == [task[t] EXCEPT !.phase = p]
<1>1. task' = [task EXCEPT ![t] = job]
  BY <1>0
<1>2. /\ job.phase = p /\ job.bar = task[t].bar /\ job.key = task[t].key
      /\ job \in Jobs(V)
  BY <1>0 DEF Jobs
<1> HIDE DEF job
<1>3. Shape' /\ task'[t] = job /\ \A s \in Handlers \ {t} : task'[s] = task[s]
  BY ZenonT(60), <1>1, <1>2, NewJob
<1> QED
  BY <1>2, <1>3

LEMMA JobKeyed ==
  ASSUME Shape, NEW t \in Handlers, NEW p \in Phases, NEW k,
         task' = [task EXCEPT ![t].phase = p, ![t].key = k]
  PROVE  /\ Shape'
         /\ task'[t].phase = p /\ task'[t].bar = task[t].bar /\ task'[t].key = k
         /\ \A s \in Handlers \ {t} : task'[s] = task[s]
<1>0. PICK V : task \in [Handlers -> Jobs(V)]
  BY DEF Shape
<1> DEFINE job == [task[t] EXCEPT !.phase = p, !.key = k]
<1>1. task' = [task EXCEPT ![t] = job]
  BY <1>0
<1>2. /\ job.phase = p /\ job.bar = task[t].bar /\ job.key = k
      /\ job \in Jobs(V \cup {k})
  BY <1>0 DEF Jobs
<1> HIDE DEF job
<1>3. Shape' /\ task'[t] = job /\ \A s \in Handlers \ {t} : task'[s] = task[s]
  BY <1>1, <1>2, NewJob
<1> QED
  BY <1>2, <1>3

LEMMA JobTimed ==
  ASSUME Shape, NEW t \in Handlers, NEW p \in Phases, NEW n,
         task' = [task EXCEPT ![t].phase = p, ![t].now = n]
  PROVE  /\ Shape'
         /\ task'[t].phase = p /\ task'[t].bar = task[t].bar /\ task'[t].key = task[t].key
         /\ \A s \in Handlers \ {t} : task'[s] = task[s]
<1>0. PICK V : task \in [Handlers -> Jobs(V)]
  BY DEF Shape
<1> DEFINE job == [task[t] EXCEPT !.phase = p, !.now = n]
<1>1. task' = [task EXCEPT ![t] = job]
  BY <1>0
<1>2. /\ job.phase = p /\ job.bar = task[t].bar /\ job.key = task[t].key
      /\ job \in Jobs(V \cup {n})
  BY <1>0 DEF Jobs
<1>3. PICK W : job \in Jobs(W)
  BY <1>2
<1> HIDE DEF job
<1>4. Shape' /\ task'[t] = job /\ \A s \in Handlers \ {t} : task'[s] = task[s]
  BY <1>1, <1>3, NewJob
<1> QED
  BY <1>2, <1>4

(* The steps of a handler up to the call of submit_order.                  *)
LEMMA OnTargetIs ==
  ASSUME Typed, Shape, NEW t \in Handlers, OnTarget(t)
  PROVE  \E target \in Int, k \in Keys :
           /\ target \in TargetsFor(task[t].bar)
           /\ k.bar = task[t].bar /\ target - book.qty - NetWorking = k.side * k.qty
           /\ k.qty \in Nat
           /\ chosen' = [chosen EXCEPT ![task[t].bar] = target]
           /\ \/ Finish(t) /\ ((conduct.app = "route" /\ tripped) \/ k.qty = 0 \/ k \in claimed)
              \/ /\ k.qty > 0 /\ k \notin claimed /\ UNCHANGED <<openBar, main>>
                 /\ task' = [task EXCEPT ![t].phase = "validate", ![t].key = k]
<1>1. PICK target \in TargetsFor(task[t].bar) :
         LET delta == target - book.qty - NetWorking
             key   == [bar |-> task[t].bar, side |-> IF delta > 0 THEN 1 ELSE -1,
                       qty |-> Magnitude(delta)]
         IN  /\ chosen' = [chosen EXCEPT ![task[t].bar] = target]
             /\ IF (conduct.app = "route" /\ tripped) \/ delta = 0 \/ key \in claimed
                  THEN Finish(t)
                  ELSE /\ task' = [task EXCEPT ![t].phase = "validate", ![t].key = key]
                       /\ UNCHANGED <<openBar, main>>
  BY DEF OnTarget
<1>2. task[t].bar \in Minutes /\ book.qty \in Int /\ NetWorking \in Int
  BY NetWorkingTyped DEF OnTarget, Typed, SessionTyped, BooksTyped, IsRow, Rows
<1>3. target \in Int
  BY <1>2, ConductAssumption DEF TargetsFor, Typed, SessionTyped
<1> DEFINE delta == target - book.qty - NetWorking
           k == [bar |-> task[t].bar, side |-> IF delta > 0 THEN 1 ELSE -1,
                 qty |-> Magnitude(delta)]
<1>4. delta \in Int
  BY <1>2, <1>3
<1>5. /\ k \in Keys /\ k.bar = task[t].bar /\ delta = k.side * k.qty /\ k.qty \in Nat
      /\ k.qty = 0 <=> delta = 0
  <2> HIDE DEF delta
  <2> QED
    BY <1>2, <1>4 DEF Keys, Magnitude
<1>6. /\ chosen' = [chosen EXCEPT ![task[t].bar] = target]
      /\ IF (conduct.app = "route" /\ tripped) \/ delta = 0 \/ k \in claimed
           THEN Finish(t)
           ELSE /\ task' = [task EXCEPT ![t].phase = "validate", ![t].key = k]
                /\ UNCHANGED <<openBar, main>>
  BY <1>1
<1> HIDE DEF k
<1>7. /\ \/ Finish(t) /\ ((conduct.app = "route" /\ tripped) \/ k.qty = 0 \/ k \in claimed)
         \/ /\ k.qty > 0 /\ k \notin claimed /\ UNCHANGED <<openBar, main>>
            /\ task' = [task EXCEPT ![t].phase = "validate", ![t].key = k]
  BY <1>5, <1>6
<1> QED
  BY <1>1, <1>3, <1>5, <1>6, <1>7

LEMMA DecideTyped ==
  ASSUME Typed, Shape, NEW t \in Handlers, Decide(t)
  PROVE  Typed'
<1>0. /\ SessionTyped /\ WorkingTyped /\ TasksTyped /\ task[t].key \in Keys
      /\ task[t].phase # "idle" => task[t].bar \in Minutes
  BY DEF Typed, SessionTyped, TasksTyped
<1>1. UNCHANGED <<books, venue, conduct, minute, sent>>
  BY DEF Decide, OnTarget, Validate, TryAcquire, Claim, Register, history
<1>2. CallTyped' /\ VenueTyped' /\ BooksTyped'
  BY <1>1, SameTrade
<1>3. CASE Finish(t) /\ UNCHANGED <<working, chosen>>
  <2>1. SessionTyped'
    BY <1>0, <1>1, <1>3, Ends DEF SessionTyped, TasksTyped
  <2> QED
    BY <1>0, <1>2, <1>3, <2>1 DEF Typed, WorkingTyped
<1>4. ASSUME NEW p \in Phases, task[t].phase # "idle",
             \/ task' = [task EXCEPT ![t].phase = p]
             \/ task' = [task EXCEPT ![t].phase = p, ![t].now = minute],
             UNCHANGED <<openBar, chosen>>
      PROVE  SessionTyped'
  <2>1. /\ task'[t].bar = task[t].bar /\ task'[t].key = task[t].key
        /\ \A s \in Handlers \ {t} : task'[s] = task[s]
    BY <1>4, JobMoves, JobTimed
  <2> QED
    BY <1>0, <1>1, <1>4, <2>1 DEF SessionTyped
<1>5. CASE OnTarget(t)
  <2>1. PICK target \in Int, k \in Keys :
           /\ chosen' = [chosen EXCEPT ![task[t].bar] = target]
           /\ \/ Finish(t)
              \/ /\ task' = [task EXCEPT ![t].phase = "validate", ![t].key = k]
                 /\ UNCHANGED openBar
    BY <1>5, OnTargetIs
  <2>2. chosen' \in [Minutes -> Int \cup {None}] /\ working' = working /\ task[t].bar \in Minutes
    BY <1>0, <1>5, <2>1 DEF SessionTyped, OnTarget, risk
  <2>3. CASE Finish(t)
    BY <1>0, <1>1, <1>2, <2>2, <2>3, Ends DEF SessionTyped, TasksTyped, WorkingTyped, Typed
  <2>4. CASE task' = [task EXCEPT ![t].phase = "validate", ![t].key = k] /\ UNCHANGED openBar
    <3>1. "validate" \in Phases
      BY DEF Phases
    <3>2. /\ task'[t].bar = task[t].bar /\ task'[t].key = k
          /\ \A s \in Handlers \ {t} : task'[s] = task[s]
      BY ZenonT(60), <2>4, <3>1, JobKeyed
    <3>3. SessionTyped'
      BY <1>0, <1>1, <2>2, <2>4, <3>2 DEF SessionTyped
    <3> QED
      BY <1>0, <1>2, <2>2, <3>3 DEF Typed, WorkingTyped
  <2> QED
    BY <2>1, <2>3, <2>4
<1>6. CASE Validate(t) \/ TryAcquire(t) \/ Claim(t)
  <2>1. UNCHANGED <<working, chosen>> /\ task[t].phase # "idle"
    BY <1>6 DEF Validate, TryAcquire, Claim, risk
  <2>2. \/ Finish(t)
        \/ /\ UNCHANGED openBar
           /\ \E p \in {"rate", "claim", "register"} :
                \/ task' = [task EXCEPT ![t].phase = p]
                \/ task' = [task EXCEPT ![t].phase = p, ![t].now = minute]
    BY <1>6 DEF Validate, TryAcquire, Claim
  <2>3. {"rate", "claim", "register"} \subseteq Phases
    BY DEF Phases, PastPhases
  <2>4. CASE Finish(t)
    BY <1>3, <2>1, <2>4
  <2>5. CASE ~Finish(t)
    <3>1. SessionTyped'
      BY <1>4, <2>1, <2>2, <2>3, <2>5
    <3> QED
      BY <1>0, <1>2, <2>1, <3>1 DEF Typed, WorkingTyped
  <2> QED
    BY <2>4, <2>5
<1>7. CASE Register(t)
  <2>1. SessionTyped'
    <3>1. "submit" \in Phases
      BY DEF Phases, PastPhases
    <3> QED
      BY <1>4, <1>7, <3>1 DEF Register
  <2>2. WorkingTyped'
    BY <1>0, <1>7, UpsertTyped, KeyTyped DEF Register
  <2> QED
    BY <1>2, <2>1, <2>2 DEF Typed
<1> QED
  BY <1>5, <1>6, <1>7 DEF Decide

LEMMA CallSubmitTyped ==
  ASSUME Typed, NEW t \in Handlers, CallSubmit(t)
  PROVE  /\ task[t].bar \in Minutes /\ task[t].key \in Keys
         /\ sent' \in [Minutes -> Nat] /\ sent'[task[t].bar] = sent[task[t].bar] + 1
         /\ \A b \in Minutes \ {task[t].bar} : sent'[b] = sent[b]
BY DEF Typed, SessionTyped, CallSubmit

LEMMA SubmitTyped ==
  ASSUME Typed, Shape, NEW t \in Handlers, Submit(t) \/ SubmitFails(t)
  PROVE  Typed'
<1>1. CallSubmit(t) /\ Finish(t) /\ UNCHANGED <<books, risk, chosen, minute, news, call, conduct>>
  BY DEF Submit, SubmitFails, venue
<1>2. sent' \in [Minutes -> Nat] /\ task[t].key \in Keys /\ TasksTyped' /\ openBar' \in Minutes \cup {None}
  BY <1>1, CallSubmitTyped, Ends
<1>3. SessionTyped' /\ WorkingTyped' /\ CallTyped' /\ BooksTyped'
  BY <1>1, <1>2 DEF Typed, SessionTyped, TasksTyped, WorkingTyped, CallTyped, BooksTyped, books, risk
<1>4. VenueTyped'
  <2>1. CASE orders' = orders
    BY <1>1, <2>1 DEF Typed, VenueTyped, books, News
  <2>2. CASE orders' # orders
    <3> DEFINE k == task[t].key
    <3>1. orders' = [x \in DOMAIN orders \cup {k} |-> IF x = k THEN k.qty ELSE orders[x]]
      BY <2>2 DEF Submit, SubmitFails, venue
    <3>2. k \in Keys /\ k.qty \in Int
      BY <1>2, KeyTyped
    <3> HIDE DEF k
    <3> QED
      BY <1>1, <3>1, <3>2 DEF Typed, VenueTyped, books, News
  <2> QED
    BY <2>1, <2>2
<1> QED
  BY <1>3, <1>4 DEF Typed

LEMMA UnmarkedTyped ==
  ASSUME Typed, Shape, NEW t \in Handlers, SubmitUnmarked(t)
  PROVE  Typed'
<1>1. /\ CallSubmit(t) /\ Finish(t) /\ working' = Upsert(task[t].key, 0)
      /\ UNCHANGED <<books, minute, chosen, venue, conduct>>
  BY DEF SubmitUnmarked
<1>2. sent' \in [Minutes -> Nat] /\ task[t].key \in Keys /\ TasksTyped' /\ openBar' \in Minutes \cup {None}
  BY <1>1, CallSubmitTyped, Ends
<1>3. SessionTyped' /\ CallTyped' /\ BooksTyped'
  BY <1>1, <1>2 DEF Typed, SessionTyped, TasksTyped, CallTyped, BooksTyped, books, venue
<1>4. VenueTyped'
  BY <1>1 DEF Typed, VenueTyped, books, venue, News
<1>5. WorkingTyped'
  <2>1. 0 \in Int /\ WorkingTyped
    BY DEF Typed
  <2> QED
    BY <1>1, <1>2, <2>1, UpsertTyped
<1> QED
  BY <1>3, <1>4, <1>5 DEF Typed

(* A fill on paper is called back on the thread that submits.              *)
LEMMA SubmitPaperIs ==
  ASSUME Typed, Shape, NEW t \in Handlers, SubmitPaper(t)
  PROVE  /\ CallTyped' /\ task[t].key \in Keys
         /\ call'[t].phase = "fill" /\ call'[t].key = task[t].key
         /\ call'[t].qty = task[t].key.qty
         /\ \A s \in Threads \ {t} : call'[s] = call[s]
         /\ Shape' /\ task'[t].phase = "callback"
         /\ task'[t].bar = task[t].bar /\ task'[t].key = task[t].key
         /\ \A s \in Handlers \ {t} : task'[s] = task[s]
<1>1. PICK price \in conduct.prices :
         call' = [call EXCEPT ![t] = [NoFill EXCEPT !.phase = "fill", !.key = task[t].key,
                                                    !.qty = task[t].key.qty, !.price = price]]
  BY DEF SubmitPaper
<1> DEFINE c == [NoFill EXCEPT !.phase = "fill", !.key = task[t].key,
                               !.qty = task[t].key.qty, !.price = price]
<1>2. task[t].key \in Keys /\ task[t].key.qty \in Int /\ t \in Threads
  BY KeyTyped DEF Typed, SessionTyped, Threads
<1>3. /\ c.phase = "fill" /\ c.key = task[t].key /\ c.qty = task[t].key.qty /\ IsFill(c)
  BY <1>2, RowsAre DEF NoFill, IsFill, Fills, CallPhases
<1> HIDE DEF c
<1>4. CallTyped' /\ call'[t] = c /\ \A s \in Threads \ {t} : call'[s] = call[s]
  BY <1>1, <1>2, <1>3, NewCall DEF Typed, c
<1>5. "callback" \in Phases
  BY DEF Phases
<1>6. /\ Shape' /\ task'[t].phase = "callback"
      /\ task'[t].bar = task[t].bar /\ task'[t].key = task[t].key
      /\ \A s \in Handlers \ {t} : task'[s] = task[s]
  BY <1>5, JobMoves DEF SubmitPaper
<1> QED
  BY <1>2, <1>3, <1>4, <1>6

LEMMA SubmitPaperTyped ==
  ASSUME Typed, Shape, NEW t \in Handlers, SubmitPaper(t)
  PROVE  Typed'
<1>1. /\ CallTyped' /\ task'[t].bar = task[t].bar /\ task'[t].key = task[t].key
      /\ \A s \in Handlers \ {t} : task'[s] = task[s]
  BY SubmitPaperIs
<1>2. CallSubmit(t) /\ task[t].phase = "submit"
  BY DEF SubmitPaper, CallSubmit
<1>3. task[t].bar \in Minutes /\ task[t].key \in Keys /\ sent' \in [Minutes -> Nat]
  BY <1>2, CallSubmitTyped
<1>4. SessionTyped' /\ WorkingTyped' /\ BooksTyped'
  BY <1>1, <1>3 DEF SubmitPaper, Typed, SessionTyped, WorkingTyped, BooksTyped, risk
<1>5. VenueTyped'
  <2>1. broker' = broker + task[t].key.side * task[t].key.qty
    BY DEF SubmitPaper
  <2>2. task[t].key.side * task[t].key.qty \in Int /\ broker \in Int
    BY <1>3, KeyTyped DEF Typed, VenueTyped
  <2>3. broker' \in Int
    BY <2>1, <2>2
  <2> QED
    BY <2>3 DEF SubmitPaper, Typed, VenueTyped, News
<1> QED
  BY <1>1, <1>4, <1>5 DEF Typed

LEMMA PaperReturnsTyped ==
  ASSUME Typed, Shape, NEW t \in Handlers, PaperReturns(t)
  PROVE  Typed'
<1>1. /\ Finish(t) /\ call' = [call EXCEPT ![t] = NoFill] /\ working' = Upsert(task[t].key, 0)
      /\ UNCHANGED <<books, minute, chosen, orders, news, sent, conduct>>
      /\ task[t].key \in Keys /\ t \in Threads
  BY DEF PaperReturns, history, Typed, SessionTyped, Threads
<1>2. TasksTyped' /\ openBar' \in Minutes \cup {None}
  BY <1>1, Ends
<1>3. WorkingTyped' /\ CallTyped'
  <2>1. WorkingTyped'
    <3>1. 0 \in Int /\ WorkingTyped
      BY DEF Typed
    <3> QED
      BY <1>1, <3>1, UpsertTyped
  <2>2. CallTyped'
    BY <1>1, NewCall, RowsAre DEF Typed
  <2> QED
    BY <2>1, <2>2
<1>4. SessionTyped' /\ BooksTyped' /\ VenueTyped'
  BY <1>1, <1>2 DEF Typed, SessionTyped, TasksTyped, BooksTyped, VenueTyped, books, News
<1> QED
  BY <1>3, <1>4 DEF Typed

LEMMA VenueFillsTyped ==
  ASSUME Typed, NEW k \in DOMAIN orders, NEW q, NEW price \in conduct.prices,
         VenueFills(k, q, price)
  PROVE  /\ Typed' /\ k \in Keys /\ q \in Int /\ orders[k] \in Int /\ k.side * q \in Int
         /\ broker \in Int
<1>1. k \in Keys /\ orders[k] \in Int /\ broker \in Int /\ news \in Seq(News)
  BY DEF Typed, VenueTyped
<1>2. q \in Int /\ orders[k] - q \in Int
  BY <1>1 DEF VenueFills
<1>3. k.side * q \in Int
  BY <1>1, <1>2, KeyTyped
<1>4. [NoFill EXCEPT !.phase = "fill", !.key = k, !.qty = q, !.price = price,
                     !.leaves = orders[k] - q] \in News
  BY <1>1, <1>2 DEF NoFill, News, Fills
<1>5. news' \in Seq(News) /\ broker' \in Int /\ News' = News
  <2>1. news' \in Seq(News)
    BY <1>1, <1>4, AppendProperties DEF VenueFills
  <2>2. broker' = broker + k.side * q /\ News' = News
    BY DEF VenueFills, News
  <2> QED
    BY <1>1, <1>3, <2>1, <2>2
<1>6. DOMAIN orders' \subseteq Keys /\ \A j \in DOMAIN orders' : orders'[j] \in Int
  BY <1>2 DEF VenueFills, Typed, VenueTyped
<1>7. VenueTyped'
  BY <1>5, <1>6 DEF VenueTyped
<1>8. SessionTyped' /\ WorkingTyped' /\ CallTyped' /\ BooksTyped'
  BY DEF VenueFills, session, risk, history, Typed, SessionTyped, WorkingTyped, CallTyped, BooksTyped
<1> QED
  BY <1>1, <1>2, <1>3, <1>7, <1>8 DEF Typed

LEMMA SubsUpdateTyped ==
  ASSUME Typed, SubsUpdate
  PROVE  /\ Typed' /\ news # <<>> /\ Head(news) \in News /\ Head(news).key \in Keys
         /\ call'["subs"] = Head(news) /\ call'["subs"].phase = "fill"
         /\ Head(news).qty \in Int /\ Head(news).leaves \in Int
         /\ \A t \in Handlers : call'[t] = call[t]
<1>1. news \in Seq(News) /\ news # <<>>
  BY DEF SubsUpdate, Typed, VenueTyped
<1>2. Head(news) \in News /\ Tail(news) \in Seq(News)
  BY <1>1, HeadTailProperties
<1> DEFINE c == Head(news)
<1>3. IsFill(c) /\ c.phase = "fill" /\ c.key \in Keys /\ c.leaves \in Int /\ c.qty \in Int
  BY <1>2, RowsAre DEF News, Fills, IsFill, CallPhases
<1>4. "subs" \in Threads /\ Handlers \subseteq Threads \ {"subs"}
  BY DEF Threads, Handlers
<1> HIDE DEF c
<1>5. call' = [call EXCEPT !["subs"] = c]
  BY DEF SubsUpdate, c
<1>6. CallTyped' /\ call'["subs"] = c /\ \A t \in Handlers : call'[t] = call[t]
  BY <1>3, <1>4, <1>5, NewCall DEF Typed
<1>7. WorkingTyped'
  BY <1>3, UpsertTyped DEF Typed, SubsUpdate, c
<1>8. VenueTyped'
  BY <1>2 DEF SubsUpdate, Typed, VenueTyped, News, books
<1>9. SessionTyped' /\ BooksTyped'
  BY DEF SubsUpdate, session, history, books, Typed, SessionTyped, BooksTyped
<1> QED
  BY <1>1, <1>2, <1>3, <1>6, <1>7, <1>8, <1>9 DEF Typed, c

LEMMA FillDoneTyped ==
  ASSUME Typed, FillDone, UNCHANGED <<books, session, working, orders, news, sent, conduct>>
  PROVE  /\ Typed' /\ call'["subs"] = NoFill /\ \A t \in Handlers : call'[t] = call[t]
<1>1. "subs" \in Threads /\ Handlers \subseteq Threads \ {"subs"} /\ IsFill(NoFill)
  BY RowsAre DEF Threads, Handlers
<1>2. call' = [call EXCEPT !["subs"] = NoFill]
  BY DEF FillDone
<1>3. CallTyped' /\ call'["subs"] = NoFill /\ \A t \in Handlers : call'[t] = call[t]
  BY <1>1, <1>2, NewCall DEF Typed
<1>4. SessionTyped' /\ WorkingTyped' /\ VenueTyped' /\ BooksTyped'
  BY DEF books, session, Typed, SessionTyped, WorkingTyped, VenueTyped, BooksTyped, News
<1> QED
  BY <1>3, <1>4 DEF Typed

(* A bar is closed and handed to a handler.                                *)
LEMMA NewBar ==
  ASSUME Shape, NEW t \in Handlers,
         task' = [task EXCEPT ![t] = [Idle EXCEPT !.phase = "bar", !.bar = openBar]]
  PROVE  /\ Shape'
         /\ task'[t].phase = "bar" /\ task'[t].bar = openBar /\ task'[t].key = NoKey
         /\ \A s \in Handlers \ {t} : task'[s] = task[s]
<1> DEFINE job == [Idle EXCEPT !.phase = "bar", !.bar = openBar]
<1>1. job.phase = "bar" /\ job.bar = openBar /\ job.key = NoKey /\ job \in Jobs({0, openBar, NoKey})
  BY DEF Idle, Jobs, Phases
<1>2. PICK W : job \in Jobs(W)
  BY <1>1
<1> HIDE DEF job
<1>3. Shape' /\ task'[t] = job /\ \A s \in Handlers \ {t} : task'[s] = task[s]
  BY <1>2, NewJob DEF job
<1> QED
  BY <1>1, <1>3

LEMMA BarTyped ==
  ASSUME Typed, Shape, StopWaiting \/ \E m \in Minutes : OnTick(m)
  PROVE  Typed'
<1>1. UNCHANGED <<books, chosen, risk, venue, history, conduct>>
  BY DEF StopWaiting, OnTick
<1>2. CallTyped' /\ VenueTyped' /\ BooksTyped' /\ WorkingTyped'
  BY <1>1, SameTrade DEF Typed, WorkingTyped, risk
<1>3. TasksTyped /\ minute' \in Minutes /\ openBar' \in Minutes \cup {None}
  BY DEF StopWaiting, OnTick, Typed, SessionTyped, TasksTyped
<1>4. TasksTyped'
  <2>1. CASE UNCHANGED task
    BY <1>3, <2>1 DEF TasksTyped
  <2>2. ASSUME NEW t \in Handlers, openBar # None,
               task' = [task EXCEPT ![t] = [Idle EXCEPT !.phase = "bar", !.bar = openBar]]
        PROVE  TasksTyped'
    <3>1. openBar \in Minutes
      BY <2>2 DEF Typed, SessionTyped
    <3>2. /\ task'[t].bar = openBar /\ task'[t].key = NoKey
          /\ \A s \in Handlers \ {t} : task'[s] = task[s]
      BY <2>2, NewBar
    <3> QED
      BY <1>3, <3>1, <3>2, RowsAre DEF TasksTyped
  <2> QED
    BY <2>1, <2>2 DEF StopWaiting, OnTick, Handlers
<1>5. SessionTyped'
  BY <1>1, <1>3, <1>4 DEF Typed, SessionTyped, TasksTyped, history
<1> QED
  BY <1>2, <1>5 DEF Typed

LEMMA FreshTyped ==
  ASSUME task' = [t \in Handlers |-> Idle], call' = NoCall, working' = Empty, news' = <<>>
  PROVE  /\ TasksTyped' /\ CallTyped' /\ WorkingTyped' /\ news' \in Seq(News')
         /\ \A t \in Handlers : task'[t] = Idle
         /\ \A t \in Threads : call'[t] = NoFill
         /\ DOMAIN working' = {}
<1>1. TasksTyped' /\ \A t \in Handlers : task'[t] = Idle
  BY RowsAre DEF TasksTyped, Idle
<1>2. CallTyped' /\ \A t \in Threads : call'[t] = NoFill
  BY RowsAre DEF CallTyped, NoCall
<1>3. WorkingTyped' /\ DOMAIN working' = {}
  BY FS_EmptySet DEF WorkingTyped, Empty
<1>4. news' \in Seq(News')
  OBVIOUS
<1> QED
  BY <1>1, <1>2, <1>3, <1>4

LEMMA RestartTyped ==
  ASSUME Typed, Restart
  PROVE  Typed'
<1>1. /\ TasksTyped' /\ CallTyped' /\ WorkingTyped' /\ news' \in Seq(News')
  BY FreshTyped DEF Restart
<1>2. BooksTyped'
  BY DEF Restart, WarmRestart, NoPnl, Whole, Typed, BooksTyped
<1>3. SessionTyped' /\ VenueTyped'
  BY <1>1 DEF Restart, WarmRestart, Typed, SessionTyped, TasksTyped, VenueTyped
<1> QED
  BY <1>1, <1>2, <1>3 DEF Typed

LEMMA OtherTyped ==
  ASSUME Typed, End \/ Audit \/ UNCHANGED vars
  PROVE  Typed'
<1>1. UNCHANGED <<minute, openBar, chosen, task, working, call, orders, news, sent, conduct,
                  book, stored, pnl, broker>>
  BY DEF End, Audit, vars, session, risk, venue, history, books, WriteStatement,
         StartReconciler, Compare, StopReconciler
<1> QED
  BY <1>1 DEF Typed, SessionTyped, WorkingTyped, CallTyped, VenueTyped, BooksTyped, News

LEMMA InitTyped == Init => Typed
<1> SUFFICES ASSUME Init PROVE Typed
  OBVIOUS
<1>1. TasksTyped
  BY RowsAre DEF Init, TasksTyped, Idle
<1>2. CallTyped
  BY RowsAre DEF Init, CallTyped, NoCall
<1>3. WorkingTyped
  BY FS_EmptySet DEF Init, WorkingTyped, Empty
<1>4. BooksTyped
  BY RowsAre DEF Init, PortfolioInit, BooksTyped, NoPnl, Whole
<1>5. VenueTyped
  BY DEF Init, PortfolioInit, VenueTyped, Empty
<1>6. 1 \in Minutes
  BY SessionAssumption DEF Minutes
<1>7. SessionTyped
  BY <1>1, <1>6 DEF Init, SessionTyped, TasksTyped
<1> QED
  BY <1>2, <1>3, <1>4, <1>5, <1>7 DEF Typed

LEMMA TypedStep == Typed /\ SwitchInv /\ [Next]_vars => Typed'
<1> SUFFICES ASSUME Typed, SwitchInv, [Next]_vars PROVE Typed'
  OBVIOUS
<1>0. Shape /\ "md" \in Handlers /\ "subs" \in Threads /\ Handlers \subseteq Threads
  BY DEF SwitchInv, Handlers, Threads
<1>1. ASSUME NEW t \in Handlers, LocalHandler \/ PaperHandler(t) \/ StageHandler(t) \/ RouteHandler(t)
      PROVE  Typed'
  BY <1>0, <1>1, DecideTyped, SubmitTyped, UnmarkedTyped, SubmitPaperTyped, PaperReturnsTyped
     DEF LocalHandler, PaperHandler, StageHandler, RouteHandler
<1>2. ASSUME NEW t \in Handlers, LocalCallback \/ PaperCallback(t) PROVE Typed'
  BY <1>0, <1>2, BookTyped DEF LocalCallback, PaperCallback
<1>3. ASSUME StageCallback \/ RouteCallback PROVE Typed'
  <2>1. CASE SubsUpdate
    BY <2>1, SubsUpdateTyped
  <2>2. CASE Book("subs")
    BY <1>0, <2>2, BookTyped
  <2>3. CASE StageDone \/ Count
    BY <2>3, FillDoneTyped DEF StageDone, Count, risk, history
  <2> QED
    BY <1>3, <2>1, <2>2, <2>3 DEF StageCallback, RouteCallback
<1>4. ASSUME NEW k \in DOMAIN orders, NEW q, NEW price \in conduct.prices, VenueFills(k, q, price)
      PROVE  Typed'
  BY <1>4, VenueFillsTyped
<1> QED
  BY <1>0, <1>1, <1>2, <1>3, <1>4, BarTyped, RestartTyped, OtherTyped DEF Next

LEMMA TypedInvariant == Spec => []Typed
<1> QED
  BY InitTyped, TypedStep, SwitchInvariant, PTL DEF Spec

-----------------------------------------------------------------------------
(* Who calls back: one thread, or on paper both handlers, each while it is *)
(* in submit_order; and while the first process lives it can place the     *)
(* events of every order EMSX has.                                         *)
Callers ==
  CASE conduct.app = "local" -> {"md"}
    [] conduct.app = "paper" -> Handlers
    [] OTHER -> {"subs"}

CallersInv ==
  /\ \A t \in Threads \ Callers : call[t].phase = "idle"
  /\ \A t \in Handlers : call[t].phase # "idle" => task[t].phase = "callback"
  /\ conduct.app = "local" \/ main = "wait" => task["main"].phase = "idle"
  /\ ~ended => known = DOMAIN orders
  /\ ~Running => ended

LEMMA HandlerMoves ==
  ASSUME Typed, Shape, NEW t \in Handlers,
         Decide(t) \/ Submit(t) \/ SubmitFails(t) \/ SubmitUnmarked(t)
  PROVE  /\ task[t].phase \in {"bar", "validate", "rate", "claim", "register", "submit"}
         /\ \A s \in Handlers \ {t} : task'[s] = task[s]
         /\ Running /\ Running' /\ (main' = main \/ (t = "main" /\ main' = "close"))
         /\ UNCHANGED <<call, news, books, conduct, ended>>
         /\ Decide(t) => UNCHANGED <<known, orders>>
<1>1. /\ task[t].phase \in {"bar", "validate", "rate", "claim", "register", "submit"}
      /\ Running /\ UNCHANGED <<call, news, books, conduct, ended>>
      /\ Decide(t) => UNCHANGED <<known, orders>>
  BY DEF Decide, OnTarget, Validate, TryAcquire, Claim, Register, Submit, SubmitFails,
         SubmitUnmarked, CallSubmit, venue, history
<1>2. (Finish(t) \/ UNCHANGED main) /\ \A s \in Handlers \ {t} : task'[s] = task[s]
  <2>1. CASE Finish(t)
    BY <2>1, Ends
  <2>2. ASSUME NEW p \in Phases, NEW k, UNCHANGED main,
               \/ task' = [task EXCEPT ![t].phase = p]
               \/ task' = [task EXCEPT ![t].phase = p, ![t].key = k]
               \/ task' = [task EXCEPT ![t].phase = p, ![t].now = minute]
        PROVE  UNCHANGED main /\ \A s \in Handlers \ {t} : task'[s] = task[s]
    BY <2>2, JobMoves, JobKeyed, JobTimed
  <2>3. {"validate", "rate", "claim", "register", "submit"} \subseteq Phases
    BY DEF Phases, PastPhases
  <2>4. CASE OnTarget(t)
    <3>1. \/ Finish(t)
          \/ UNCHANGED main /\ \E k : task' = [task EXCEPT ![t].phase = "validate", ![t].key = k]
      BY <2>4, OnTargetIs
    <3> QED
      BY <2>1, <2>2, <2>3, <3>1
  <2>5. CASE Validate(t)
    BY <2>1, <2>2, <2>3, <2>5 DEF Validate
  <2>6. CASE TryAcquire(t) \/ Claim(t) \/ Register(t)
    BY <2>1, <2>2, <2>3, <2>6 DEF TryAcquire, Claim, Register
  <2>7. CASE Submit(t) \/ SubmitFails(t) \/ SubmitUnmarked(t)
    BY <2>1, <2>7 DEF Submit, SubmitFails, SubmitUnmarked
  <2> QED
    BY <2>4, <2>5, <2>6, <2>7 DEF Decide
<1> QED
  BY <1>1, <1>2 DEF Running, Finish

LEMMA HandlerCallers ==
  ASSUME Typed, Shape, CallersInv, NEW t \in Handlers,
         Decide(t) \/ Submit(t) \/ SubmitFails(t) \/ SubmitUnmarked(t),
         t = "md" \/ conduct.app # "local"
  PROVE  CallersInv'
<1>1. /\ task[t].phase # "callback" /\ call[t].phase = "idle"
      /\ \A s \in Handlers \ {t} : task'[s] = task[s]
      /\ Running' /\ UNCHANGED <<call, conduct, ended>>
      /\ main' = "wait" => main = "wait"
  BY HandlerMoves DEF CallersInv
<1>2. ~ended' => known' = DOMAIN orders'
  <2>1. CASE Decide(t)
    BY <1>1, <2>1, HandlerMoves DEF CallersInv
  <2>2. CASE Submit(t)
    BY <1>1, <2>2 DEF CallersInv, Submit
  <2>3. CASE SubmitFails(t)
    BY <1>1, <2>3 DEF CallersInv, SubmitFails, venue
  <2>4. CASE SubmitUnmarked(t)
    BY <1>1, <2>4 DEF CallersInv, SubmitUnmarked, venue
  <2> QED
    BY <2>1, <2>2, <2>3, <2>4
<1>3. \A s \in Handlers : call'[s].phase # "idle" => task'[s].phase = "callback"
  BY <1>1 DEF CallersInv
<1>4. conduct.app = "local" \/ main' = "wait" => "main" \in Handlers \ {t}
  <2>1. (main' = main \/ (t = "main" /\ main' = "close")) /\ task[t].phase # "idle"
    BY HandlerMoves
  <2> QED
    BY <2>1 DEF Handlers, CallersInv
<1>5. Callers' = Callers
  BY <1>1 DEF Callers
<1> QED
  BY <1>1, <1>2, <1>3, <1>4, <1>5 DEF CallersInv

LEMMA PaperCallers ==
  ASSUME Typed, Shape, CallersInv, NEW t \in Handlers, SubmitPaper(t) \/ PaperReturns(t),
         \/ conduct.app = "paper"
         \/ conduct.app = "local" /\ t = "md"
  PROVE  CallersInv'
<1>0. /\ UNCHANGED <<conduct, ended, orders, known>> /\ Running
      /\ t \in Threads /\ t \in Callers /\ Callers' = Callers
  BY DEF SubmitPaper, PaperReturns, history, CallSubmit, Threads, Callers
<1>1. Running'
  BY <1>0 DEF SubmitPaper, PaperReturns, Finish, Running
<1>2. /\ \A s \in Threads \ {t} : call'[s] = call[s]
      /\ \A s \in Handlers \ {t} : task'[s] = task[s]
      /\ call'[t].phase # "idle" => task'[t].phase = "callback"
  <2>1. CASE SubmitPaper(t)
    BY <2>1, SubmitPaperIs
  <2>2. CASE PaperReturns(t)
    <3>1. call' = [call EXCEPT ![t] = NoFill] /\ Finish(t)
      BY <2>2 DEF PaperReturns
    <3>2. call'[t] = NoFill /\ \A s \in Threads \ {t} : call'[s] = call[s]
      BY <1>0, <3>1, RowsAre, NewCall DEF Typed
    <3> QED
      BY <3>1, <3>2, Ends, RowsAre
  <2> QED
    BY <2>1, <2>2
<1>3. conduct.app = "local" \/ main' = "wait" => task'["main"].phase = "idle"
  <2>1. t = "main" => task[t].phase # "idle" /\ conduct.app # "local"
    BY DEF SubmitPaper, PaperReturns, CallSubmit
  <2>2. t = "main" => main # "wait" /\ main' # "wait"
    BY <2>1 DEF CallersInv, SubmitPaper, PaperReturns, Finish
  <2>3. t = "md" => task'["main"] = task["main"] /\ (main' = "wait" => main = "wait")
    BY <1>2 DEF Handlers, SubmitPaper, PaperReturns, Finish
  <2> QED
    BY <1>0, <2>1, <2>2, <2>3 DEF CallersInv, Handlers
<1>4. Handlers \subseteq Threads
  BY DEF Threads
<1> QED
  BY <1>0, <1>1, <1>2, <1>3, <1>4 DEF CallersInv

LEMMA BookMoves ==
  ASSUME Typed, NEW t \in Threads, Book(t)
  PROVE  /\ call[t].phase # "idle" /\ Running
         /\ call'[t].key = call[t].key /\ call'[t].qty = call[t].qty
         /\ call'[t].price = call[t].price /\ Signed(t)' = Signed(t)
         /\ call'[t].phase \in CallPhases \ {"idle"}
         /\ \A s \in Threads \ {t} : call'[s] = call[s]
         /\ UNCHANGED <<session, risk, orders, news, history, conduct>>
<1>1. call[t].phase # "idle" /\ Running /\ UNCHANGED <<session, risk, orders, news, history, conduct>>
  BY DEF Book, OnFill, ReadBack
<1>2. CallTyped /\ IsRow([Flat EXCEPT !.avg = book.avg]) /\ IsRow([call[t].row EXCEPT !.qty = book.qty])
  <2>1. CallTyped /\ IsRow(call[t].row) /\ book.qty \in Int
    BY DEF Typed, CallTyped, IsFill, BooksTyped, IsRow, Rows
  <2> QED
    BY <2>1 DEF Flat, IsRow, Rows
<1>3. {"pnl", "avg", "qty", "store", "booked"} \subseteq CallPhases \ {"idle"}
  BY DEF CallPhases
<1> DEFINE Moved ==
      /\ call'[t].key = call[t].key /\ call'[t].qty = call[t].qty
      /\ call'[t].price = call[t].price
      /\ call'[t].phase \in CallPhases \ {"idle"}
      /\ \A s \in Threads \ {t} : call'[s] = call[s]
<1>4. Moved
  <2>1. ASSUME NEW p \in {"pnl", "avg", "booked"}, call' = [call EXCEPT ![t].phase = p] PROVE Moved
    BY <1>2, <1>3, <2>1, CallMoves
  <2>2. ASSUME NEW p \in {"qty", "store"}, NEW row, IsRow(row),
               call' = [call EXCEPT ![t].phase = p, ![t].row = row]
        PROVE  Moved
    BY <1>2, <1>3, <2>2, CallReads
  <2>3. CASE ReadBack(t, "avg", "qty", [Flat EXCEPT !.avg = book.avg])
    BY <1>2, <2>2, <2>3 DEF ReadBack
  <2>4. CASE ReadBack(t, "qty", "store", [call[t].row EXCEPT !.qty = book.qty])
    BY <1>2, <2>2, <2>4 DEF ReadBack
  <2>5. CASE OnFill(t, "fill", "pnl") \/ OnFill(t, "pnl", "avg") \/ OnFill(t, "store", "booked")
    BY <2>1, <2>5 DEF OnFill
  <2> QED
    BY <2>3, <2>4, <2>5 DEF Book
<1> QED
  BY <1>1, <1>4 DEF Signed

LEMMA BookCallers ==
  ASSUME Typed, CallersInv, NEW t \in Threads, Book(t), t \in Callers
  PROVE  CallersInv'
<1>1. /\ call[t].phase # "idle" /\ \A s \in Threads \ {t} : call'[s] = call[s]
      /\ UNCHANGED <<session, risk, orders, news, history, conduct>>
  BY BookMoves
<1>2. Callers' = Callers /\ Running' = Running /\ main' = main /\ Handlers \subseteq Threads
      /\ task' = task /\ known' = known /\ ended' = ended
  BY <1>1 DEF Callers, Running, session, history, Threads
<1> QED
  BY <1>1, <1>2 DEF CallersInv

LEMMA SubsCallers ==
  ASSUME Typed, CallersInv, conduct.app \in {"stage", "route"},
         \/ SubsUpdate
         \/ FillDone /\ UNCHANGED <<books, session, working, orders, news, sent, ended, conduct>>
  PROVE  CallersInv'
<1>1. Callers = {"subs"} /\ Callers' = Callers /\ Threads \ {"subs"} = Handlers
  BY DEF Callers, SubsUpdate, Threads, Handlers
<1>2. \A t \in Handlers : call'[t] = call[t]
  BY SubsUpdateTyped, FillDoneTyped
<1>3. UNCHANGED <<main, task, known, orders, ended, conduct>>
  BY DEF SubsUpdate, session, history
<1> QED
  BY <1>1, <1>2, <1>3 DEF CallersInv, Running

LEMMA BarCallers ==
  ASSUME Typed, Shape, CallersInv, StopWaiting \/ \E m \in Minutes : OnTick(m)
  PROVE  CallersInv'
<1>1. /\ UNCHANGED <<known, orders, call, ended, conduct>> /\ Running /\ Running'
  BY DEF StopWaiting, OnTick, venue, history, Running
<1>2. \/ UNCHANGED task
      \/ \E t \in Handlers :
           /\ task[t].phase # "callback" /\ (main' = "wait" => t = "md")
           /\ (conduct.app = "local" => t = "md")
           /\ task' = [task EXCEPT ![t] = [Idle EXCEPT !.phase = "bar", !.bar = openBar]]
  <2>1. CASE StopWaiting
    <3>1. ~Alone => main = "wait"
      BY <2>1 DEF StopWaiting
    <3> QED
      BY <2>1, <3>1 DEF StopWaiting, Alone, Handlers, CallersInv
  <2>2. CASE \E m \in Minutes : OnTick(m)
    BY <2>2 DEF OnTick, Handlers
  <2> QED
    BY <2>1, <2>2
<1>3. Callers' = Callers /\ "main" # "md"
  BY <1>1 DEF Callers
<1>4. CASE UNCHANGED task
  BY <1>1, <1>3, <1>4 DEF CallersInv, StopWaiting, OnTick
<1>5. ASSUME NEW t \in Handlers, task[t].phase # "callback", main' = "wait" => t = "md",
             conduct.app = "local" => t = "md",
             task' = [task EXCEPT ![t] = [Idle EXCEPT !.phase = "bar", !.bar = openBar]]
      PROVE  CallersInv'
  <2>1. \A s \in Handlers \ {t} : task'[s] = task[s]
    BY <1>5, NewBar
  <2>2. /\ call[t].phase = "idle"
        /\ conduct.app = "local" \/ main' = "wait" => "main" \in Handlers \ {t}
    BY <1>5 DEF CallersInv, Handlers
  <2>3. main' = "wait" => main = "wait"
    BY DEF StopWaiting, OnTick
  <2> QED
    BY <1>1, <1>3, <1>5, <2>1, <2>2, <2>3 DEF CallersInv
<1> QED
  BY <1>2, <1>4, <1>5

LEMMA CallersStep == CallersInv /\ Typed /\ SwitchInv /\ [Next]_vars => CallersInv'
<1> SUFFICES ASSUME CallersInv, Typed, SwitchInv, [Next]_vars PROVE CallersInv'
  OBVIOUS
<1>0. Shape /\ "md" \in Handlers /\ "subs" \in Threads /\ Handlers \subseteq Threads
  BY DEF SwitchInv, Handlers, Threads
<1>1. CASE LocalHandler
  BY <1>0, <1>1, HandlerCallers, PaperCallers DEF LocalHandler
<1>2. ASSUME NEW t \in Handlers, PaperHandler(t) \/ StageHandler(t) \/ RouteHandler(t)
      PROVE  CallersInv'
  BY <1>0, <1>2, HandlerCallers, PaperCallers DEF PaperHandler, StageHandler, RouteHandler
<1>3. ASSUME NEW t \in Handlers, LocalCallback \/ PaperCallback(t) PROVE CallersInv'
  BY <1>0, <1>3, BookCallers DEF LocalCallback, PaperCallback, Callers
<1>4. ASSUME StageCallback \/ RouteCallback PROVE CallersInv'
  <2>1. conduct.app \in {"stage", "route"} /\ "subs" \in Callers
    BY <1>4 DEF StageCallback, RouteCallback, Callers
  <2>2. CASE Book("subs")
    BY <1>0, <2>1, <2>2, BookCallers
  <2>3. CASE StageDone \/ Count
    <3>1. FillDone /\ UNCHANGED <<books, session, working, orders, news, sent, ended, conduct>>
      BY <2>3 DEF StageDone, Count, risk, history
    <3> QED
      BY <2>1, <3>1, SubsCallers
  <2> QED
    BY <1>4, <2>1, <2>2, <2>3, SubsCallers DEF StageCallback, RouteCallback
<1>5. ASSUME NEW k, NEW q, NEW price, VenueFills(k, q, price) PROVE CallersInv'
  BY <1>5 DEF VenueFills, CallersInv, Callers, Running, session, history
<1>6. CASE End
  BY <1>6 DEF End, CallersInv, Callers, Running, venue
<1>7. CASE Audit \/ UNCHANGED vars
  BY <1>7 DEF Audit, vars, CallersInv, Callers, Running, session, venue, history
<1>8. CASE Restart
  <2>1. (\A t \in Handlers : task'[t] = Idle) /\ \A t \in Threads : call'[t] = NoFill
    BY <1>8, FreshTyped DEF Restart
  <2>2. ended /\ UNCHANGED <<ended, conduct>>
    BY <1>8 DEF Restart, CallersInv, Running
  <2> QED
    BY <1>0, <2>1, <2>2, RowsAre DEF CallersInv, Callers, Idle, Handlers
<1> QED
  BY <1>0, <1>1, <1>2, <1>3, <1>4, <1>5, <1>6, <1>7, <1>8, BarCallers DEF Next

LEMMA InitCallers == Init => CallersInv
<1> SUFFICES ASSUME Init PROVE CallersInv
  OBVIOUS
<1>1. /\ \A t \in Threads : call[t].phase = "idle"
      /\ \A t \in Handlers : task[t].phase = "idle"
  BY RowsAre DEF Init, NoCall, Idle
<1> QED
  BY <1>1 DEF Init, CallersInv, Empty, Running, Handlers, Threads

LEMMA CallersInvariant == Spec => []CallersInv
<1> QED
  BY InitCallers, CallersStep, TypedInvariant, SwitchInvariant, PTL DEF Spec

-----------------------------------------------------------------------------
(* What the fills on their way lead to.  A fill is on its way to the first *)
(* book until phase "pnl", and to the second while it is there.            *)
Due(t)  == IF call[t].phase = "fill" THEN Signed(t) ELSE 0
Half(t) == IF call[t].phase = "pnl" THEN Signed(t) ELSE 0
DueAll  == Due("md") + Due("main") + Due("subs")
HalfAll == Half("md") + Half("main") + Half("subs")

(* A path from one position to another through the fills of a sequence.    *)
Change(c) == c.key.side * c.qty
IsChanges(s) == \A i \in 1..Len(s) : Change(s[i]) \in Int
IsPath(h, s, last) ==
  /\ h \in [0..Len(s) -> Int] /\ h[Len(s)] = last
  /\ \A i \in 1..Len(s) : h[i] = h[i - 1] + Change(s[i])

QuantityInv ==
  ~ended => /\ book.qty = pnl.qty + HalfAll
            /\ \E h : IsPath(h, news, broker) /\ h[0] = book.qty + DueAll

LEMMA DuesTyped ==
  ASSUME CallTyped
  PROVE  \A t \in Threads : Due(t) \in Int /\ Half(t) \in Int /\ Signed(t) \in Int
BY SignedTyped DEF Due, Half

LEMMA DuesChange ==
  ASSUME CallTyped, CallTyped', NEW t \in Threads, \A s \in Threads \ {t} : call'[s] = call[s]
  PROVE  /\ DueAll' = DueAll - Due(t) + Due(t)' /\ HalfAll' = HalfAll - Half(t) + Half(t)'
         /\ DueAll \in Int /\ HalfAll \in Int /\ DueAll' \in Int /\ HalfAll' \in Int
         /\ Due(t) \in Int /\ Due(t)' \in Int /\ Half(t) \in Int /\ Half(t)' \in Int
<1>1. \A s \in Threads : Due(s) \in Int /\ Half(s) \in Int
  BY DuesTyped
<1>2. \A s \in Threads : Due(s)' \in Int /\ Half(s)' \in Int
  <2>1. \A s \in Threads : call'[s].key \in Keys /\ call'[s].qty \in Int
    BY DEF CallTyped, IsFill, Fills
  <2>2. \A s \in Threads : Signed(s)' \in Int
    BY <2>1, KeyTyped DEF Signed
  <2> QED
    BY <2>2 DEF Due, Half
<1>3. \A s \in Threads \ {t} : Due(s)' = Due(s) /\ Half(s)' = Half(s)
  BY DEF Due, Half, Signed
<1>4. Threads = {"md", "main", "subs"}
  BY DEF Threads, Handlers
<1> QED
  BY <1>1, <1>2, <1>3, <1>4 DEF DueAll, HalfAll

(* The path goes on, loses its first fill, or starts and ends elsewhere.   *)
LEMMA PathGoesOn ==
  ASSUME NEW S, NEW s \in Seq(S), NEW c \in S, NEW h, NEW last, IsPath(h, s, last),
         Change(c) \in Int
  PROVE  \E g : IsPath(g, Append(s, c), last + Change(c)) /\ g[0] = h[0]
<1> DEFINE n == Len(s)
           d == Change(c)
           g == [i \in 0..(n + 1) |-> IF i <= n THEN h[i] ELSE last + d]
<1>1. /\ n \in Nat /\ Len(Append(s, c)) = n + 1
      /\ \A i \in 1..n : Append(s, c)[i] = s[i]
      /\ Append(s, c)[n + 1] = c
  BY AppendProperties, LenProperties
<1>2. h \in [0..n -> Int] /\ h[n] = last /\ d \in Int /\ last \in Int
  BY <1>1 DEF IsPath
<1>3. \A i \in 1..n : h[i] = h[i - 1] + Change(s[i])
  BY DEF IsPath
<1> HIDE DEF n, d
<1>4. g \in [0..(n + 1) -> Int] /\ g[n + 1] = last + d /\ g[0] = h[0]
  BY <1>1, <1>2
<1>5. ASSUME NEW i \in 1..(n + 1)
      PROVE  g[i] = g[i - 1] + Change(Append(s, c)[i])
  <2>1. CASE i \in 1..n
    BY <1>1, <1>2, <1>3, <2>1
  <2>2. CASE i = n + 1
    BY <1>1, <1>2, <2>2 DEF d
  <2> QED
    BY <1>1, <2>1, <2>2
<1> HIDE DEF g
<1>6. IsPath(g, Append(s, c), last + d)
  BY <1>1, <1>4, <1>5 DEF IsPath
<1> QED
  BY <1>4, <1>6 DEF d

LEMMA PathLosesFirst ==
  ASSUME NEW S, NEW s \in Seq(S), s # <<>>, NEW h, NEW last, IsPath(h, s, last)
  PROVE  \E g : /\ IsPath(g, Tail(s), last)
                /\ g[0] = h[0] + Change(Head(s)) /\ h[0] \in Int
<1> DEFINE n == Len(s)
           g == [i \in 0..(n - 1) |-> h[i + 1]]
<1>1. /\ n \in Nat /\ n # 0 /\ Len(Tail(s)) = n - 1 /\ Head(s) = s[1]
      /\ \A i \in 1..(n - 1) : Tail(s)[i] = s[i + 1]
  BY HeadTailProperties, LenProperties, EmptySeq
<1>2. h \in [0..n -> Int] /\ h[n] = last
  BY DEF IsPath
<1>3. \A i \in 1..n : h[i] = h[i - 1] + Change(s[i])
  BY DEF IsPath
<1> HIDE DEF n
<1>4. g \in [0..(n - 1) -> Int] /\ g[n - 1] = last /\ g[0] = h[1]
  BY <1>1, <1>2
<1>5. ASSUME NEW i \in 1..(n - 1)
      PROVE  g[i] = g[i - 1] + Change(Tail(s)[i])
  <2>1. i + 1 \in 1..n /\ (i + 1) - 1 = i /\ (i - 1) + 1 = i
    BY <1>1
  <2>2. h[i + 1] = h[i] + Change(s[i + 1])
    BY <1>3, <2>1
  <2>3. g[i] = h[i + 1] /\ g[i - 1] = h[i]
    BY <1>1, <2>1
  <2> QED
    BY <1>1, <2>2, <2>3
<1>6. h[1] = h[0] + Change(Head(s)) /\ h[0] \in Int
  BY <1>1, <1>2, <1>3
<1> HIDE DEF g
<1> QED
  BY <1>1, <1>4, <1>5, <1>6 DEF IsPath

Shifted(h, s, d) == [i \in 0..Len(s) |-> h[i] + d]

LEMMA PathMoves ==
  ASSUME NEW S, NEW s \in Seq(S), NEW h, NEW last, IsPath(h, s, last), NEW d \in Int,
         IsChanges(s)
  PROVE  /\ IsPath(Shifted(h, s, d), s, last + d)
         /\ Shifted(h, s, d)[0] = h[0] + d /\ h[0] \in Int
<1> DEFINE n == Len(s)
           g == Shifted(h, s, d)
<1>1. n \in Nat
  BY LenProperties
<1>2. h \in [0..n -> Int] /\ h[n] = last
  BY DEF IsPath
<1>3. \A i \in 1..n : h[i] = h[i - 1] + Change(s[i])
  BY DEF IsPath
<1>4. \A i \in 1..n : Change(s[i]) \in Int
  BY DEF IsChanges
<1>5. /\ g \in [0..n -> Int] /\ g[n] = last + d /\ g[0] = h[0] + d /\ h[0] \in Int
      /\ \A i \in 0..n : g[i] = h[i] + d
  BY <1>1, <1>2 DEF Shifted
<1> HIDE DEF n, g
<1>6. ASSUME NEW i \in 1..n PROVE g[i] = g[i - 1] + Change(s[i])
  <2>1. /\ h[i] = h[i - 1] + Change(s[i]) /\ Change(s[i]) \in Int
        /\ i - 1 \in 0..n /\ h[i - 1] \in Int
    BY <1>1, <1>2, <1>3, <1>4
  <2>2. PICK x \in Int : x = Change(s[i])
    BY <2>1
  <2> QED
    BY <1>1, <1>5, <2>1, <2>2
<1> QED
  BY <1>5, <1>6 DEF IsPath, n, g

LEMMA QuantityStays ==
  ASSUME QuantityInv, UNCHANGED <<news, broker, DueAll, HalfAll>>,
         ~ended' => ~ended /\ UNCHANGED <<book, pnl>>
  PROVE  QuantityInv'
BY DEF QuantityInv

LEMMA SameDues ==
  ASSUME UNCHANGED call
  PROVE  UNCHANGED <<DueAll, HalfAll>>
BY DEF DueAll, HalfAll, Due, Half, Signed

LEMMA PaperQuantity ==
  ASSUME Typed, Shape, CallersInv, QuantityInv, NEW t \in Handlers,
         SubmitPaper(t) \/ PaperReturns(t)
  PROVE  QuantityInv'
<1>0. t \in Threads /\ CallTyped
  BY DEF Threads, Typed
<1>1. CASE SubmitPaper(t)
  <2> DEFINE d == task[t].key.side * task[t].key.qty
  <2>1. /\ call'[t].phase = "fill" /\ Signed(t)' = d /\ d \in Int /\ CallTyped'
        /\ \A s \in Threads \ {t} : call'[s] = call[s]
    BY <1>1, SubmitPaperIs, KeyTyped DEF Signed
  <2>2. call[t].phase = "idle" /\ UNCHANGED <<book, pnl, news, ended>> /\ broker' = broker + d
    BY <1>1 DEF SubmitPaper, CallSubmit, CallersInv
  <2> HIDE DEF d
  <2>3. DueAll' = DueAll + d /\ HalfAll' = HalfAll /\ DueAll \in Int
    BY <1>0, <2>1, <2>2, DuesChange DEF Due, Half
  <2>4. CASE ~ended
    <3>1. PICK h : IsPath(h, news, broker) /\ h[0] = book.qty + DueAll
      BY <2>4 DEF QuantityInv
    <3>2. news \in Seq(News) /\ book.qty \in Int
      BY DEF Typed, VenueTyped, BooksTyped, IsRow, Rows
    <3>3. \A i \in 1..Len(news) : news[i] \in News
      BY <3>2, ElementOfSeq
    <3>4. IsChanges(news)
      BY <3>3, KeyTyped DEF News, Fills, Change, IsChanges
    <3>5. PICK g : IsPath(g, news, broker') /\ g[0] = h[0] + d
      <4>1. d \in Int /\ news \in Seq(News) /\ IsPath(h, news, broker) /\ broker' = broker + d
        BY <2>1, <2>2, <3>1, <3>2
      <4>2. IsPath(Shifted(h, news, d), news, broker + d) /\ Shifted(h, news, d)[0] = h[0] + d
        BY <3>4, <4>1, PathMoves
      <4> QED
        BY <4>1, <4>2
    <3>6. g[0] = book.qty + (DueAll + d)
      BY <2>1, <2>3, <3>1, <3>2, <3>5
    <3> QED
      BY <2>2, <2>3, <2>4, <3>5, <3>6 DEF QuantityInv
  <2> QED
    BY <2>2, <2>4 DEF QuantityInv
<1>2. CASE PaperReturns(t)
  <2>1. /\ call' = [call EXCEPT ![t] = NoFill] /\ call[t].phase = "booked"
        /\ UNCHANGED <<books, news, ended>>
    BY <1>2 DEF PaperReturns, history
  <2>2. CallTyped' /\ call'[t] = NoFill /\ \A s \in Threads \ {t} : call'[s] = call[s]
    BY <1>0, <2>1, NewCall, RowsAre
  <2>3. DueAll' = DueAll /\ HalfAll' = HalfAll
    BY <1>0, <2>1, <2>2, DuesChange, RowsAre DEF Due, Half
  <2> QED
    BY <2>1, <2>3, QuantityStays DEF books
<1> QED
  BY <1>1, <1>2

LEMMA BookQuantity ==
  ASSUME Typed, QuantityInv, NEW t \in Threads, Book(t)
  PROVE  QuantityInv'
<1>0. /\ UNCHANGED <<news, ended>> /\ CallTyped /\ CallTyped' /\ Signed(t)' = Signed(t)
      /\ Signed(t) \in Int /\ book.qty \in Int /\ pnl.qty \in Int
      /\ \A s \in Threads \ {t} : call'[s] = call[s]
      /\ pnl \in [qty : Int, avg : {pnl.avg}, realized : {pnl.realized}]
  BY BookMoves, BookTyped, SignedTyped DEF Typed, history, BooksTyped, IsRow, Rows
<1>1. /\ DueAll' = DueAll - Due(t) + Due(t)' /\ HalfAll' = HalfAll - Half(t) + Half(t)'
      /\ DueAll \in Int /\ HalfAll \in Int
  BY <1>0, DuesChange
<1>2. CASE OnFill(t, "fill", "pnl") /\ BookPosition(Signed(t), call[t].price)
  <2>1. call[t].phase = "fill" /\ call'[t].phase = "pnl"
    BY <1>0, <1>2, CallMoves DEF OnFill, CallPhases
  <2>2. UNCHANGED <<pnl, broker>> /\ book'.qty = book.qty + Signed(t)
    BY <1>0, <1>2, BookFillIs DEF BookPosition
  <2>3. Due(t) = Signed(t) /\ Due(t)' = 0 /\ Half(t) = 0 /\ Half(t)' = Signed(t)
    BY <1>0, <2>1 DEF Due, Half
  <2>4. DueAll' = DueAll - Signed(t) /\ HalfAll' = HalfAll + Signed(t)
    BY <1>0, <1>1, <2>3
  <2>5. book'.qty + DueAll' = book.qty + DueAll
    BY <1>0, <1>1, <2>2, <2>4
  <2>6. book.qty = pnl.qty + HalfAll => book'.qty = pnl'.qty + HalfAll'
    BY <1>0, <1>1, <2>2, <2>4
  <2> QED
    BY <1>0, <2>2, <2>5, <2>6 DEF QuantityInv
<1>3. CASE OnFill(t, "pnl", "avg") /\ BookPnl(Signed(t), call[t].price)
  <2>1. call[t].phase = "pnl" /\ call'[t].phase = "avg"
    BY <1>0, <1>3, CallMoves DEF OnFill, CallPhases
  <2>2. UNCHANGED <<book, broker>> /\ pnl'.qty = pnl.qty + Signed(t)
    BY <1>0, <1>3, BooksAlike DEF BookPnl
  <2>3. Due(t) = 0 /\ Due(t)' = 0 /\ Half(t) = Signed(t) /\ Half(t)' = 0
    BY <1>0, <2>1 DEF Due, Half
  <2>4. DueAll' = DueAll /\ HalfAll' = HalfAll - Signed(t)
    BY <1>0, <1>1, <2>3
  <2>5. book.qty = pnl.qty + HalfAll => book'.qty = pnl'.qty + HalfAll'
    BY <1>0, <1>1, <2>2, <2>4
  <2> QED
    BY <1>0, <2>2, <2>4, <2>5 DEF QuantityInv
<1>4. CASE \/ ReadBack(t, "avg", "qty", [Flat EXCEPT !.avg = book.avg])
           \/ ReadBack(t, "qty", "store", [call[t].row EXCEPT !.qty = book.qty])
           \/ OnFill(t, "store", "booked") /\ Store(call[t].row)
  <2>1. /\ call[t].phase \notin {"fill", "pnl"} /\ UNCHANGED <<book, pnl, broker>>
    BY <1>4 DEF ReadBack, OnFill, Store, books
  <2>2. call'[t].phase \notin {"fill", "pnl"}
    BY <1>0, <1>4 DEF ReadBack, OnFill, CallTyped, IsFill, Fills
  <2>3. DueAll' = DueAll /\ HalfAll' = HalfAll
    BY <1>1, <2>1, <2>2 DEF Due, Half
  <2> QED
    BY <1>0, <2>1, <2>3, QuantityStays
<1> QED
  BY <1>2, <1>3, <1>4 DEF Book

LEMMA VenueQuantity ==
  ASSUME Typed, CallersInv, QuantityInv, NEW k \in DOMAIN orders, NEW q,
         NEW price \in conduct.prices, VenueFills(k, q, price)
  PROVE  QuantityInv'
<1>0. /\ UNCHANGED <<book, pnl, call, ended, known>> /\ broker' = broker + k.side * q
      /\ k.side * q \in Int /\ news \in Seq(News)
      /\ k \in Keys /\ q \in Int /\ orders[k] - q \in Int
  BY VenueFillsTyped DEF VenueFills, history, session, Typed, VenueTyped
<1>1. CASE ~ended
  <2> DEFINE c == [NoFill EXCEPT !.phase = "fill", !.key = k, !.qty = q, !.price = price,
                                 !.leaves = orders[k] - q]
  <2>1. k \in known
    BY <1>1 DEF CallersInv
  <2>2. news' = Append(news, c) /\ c.key = k /\ c.qty = q
    BY <2>1 DEF VenueFills, NoFill
  <2>3. c \in News
    BY <1>0 DEF NoFill, News, Fills
  <2> HIDE DEF c
  <2>4. PICK h : IsPath(h, news, broker) /\ h[0] = book.qty + DueAll
    BY <1>1 DEF QuantityInv
  <2>5. \E g : IsPath(g, Append(news, c), broker + k.side * q) /\ g[0] = h[0]
    <3>1. \E g : IsPath(g, Append(news, c), broker + Change(c)) /\ g[0] = h[0]
      BY <1>0, <2>2, <2>3, <2>4, PathGoesOn DEF Change
    <3> QED
      BY <2>2, <3>1 DEF Change
  <2> QED
    BY <1>0, <1>1, <2>2, <2>4, <2>5, SameDues DEF QuantityInv
<1> QED
  BY <1>0, <1>1 DEF QuantityInv

LEMMA UpdateQuantity ==
  ASSUME Typed, QuantityInv, SubsUpdate
  PROVE  QuantityInv'
<1>0. /\ UNCHANGED <<book, pnl, broker, ended>> /\ news' = Tail(news)
      /\ call["subs"].phase = "idle" /\ CallTyped
  BY DEF SubsUpdate, history, books, Typed
<1>1. /\ news # <<>> /\ call'["subs"].phase = "fill" /\ call'["subs"] = Head(news) /\ CallTyped'
      /\ \A t \in Handlers : call'[t] = call[t]
  BY SubsUpdateTyped DEF Typed
<1>2. "subs" \in Threads /\ Threads \ {"subs"} = Handlers
  BY DEF Threads, Handlers
<1> DEFINE d == Change(Head(news))
<1>3. Signed("subs")' = d /\ Due("subs")' = d /\ Due("subs") = 0 /\ Half("subs") = 0 /\ Half("subs")' = 0
  BY <1>0, <1>1 DEF Signed, Due, Half, Change
<1>4. DueAll' = DueAll + d /\ HalfAll' = HalfAll /\ DueAll \in Int /\ d \in Int
  <2>1. /\ DueAll' = DueAll - Due("subs") + Due("subs")'
        /\ HalfAll' = HalfAll - Half("subs") + Half("subs")'
        /\ DueAll \in Int /\ HalfAll \in Int /\ Due("subs")' \in Int
    BY <1>0, <1>1, <1>2, DuesChange
  <2> HIDE DEF d
  <2> QED
    BY <1>3, <2>1
<1> HIDE DEF d
<1>5. CASE ~ended
  <2>1. PICK h : IsPath(h, news, broker) /\ h[0] = book.qty + DueAll
    BY <1>5 DEF QuantityInv
  <2>2. news \in Seq(News) /\ book.qty \in Int
    BY DEF Typed, VenueTyped, BooksTyped, IsRow, Rows
  <2>3. PICK g : IsPath(g, Tail(news), broker) /\ g[0] = h[0] + d
    BY <1>1, <2>1, <2>2, PathLosesFirst DEF d
  <2>4. g[0] = book.qty + (DueAll + d)
    BY <1>4, <2>1, <2>2, <2>3
  <2> QED
    BY <1>0, <1>4, <1>5, <2>3, <2>4 DEF QuantityInv
<1> QED
  BY <1>0, <1>5 DEF QuantityInv

LEMMA DoneQuantity ==
  ASSUME Typed, QuantityInv, FillDone,
         UNCHANGED <<books, session, working, orders, news, sent, ended, conduct>>
  PROVE  QuantityInv'
<1>1. /\ call["subs"].phase = "booked" /\ CallTyped /\ CallTyped' /\ call'["subs"] = NoFill
      /\ \A t \in Handlers : call'[t] = call[t]
  BY FillDoneTyped DEF FillDone, Typed
<1>2. "subs" \in Threads /\ Threads \ {"subs"} = Handlers
  BY DEF Threads, Handlers
<1>3. DueAll' = DueAll /\ HalfAll' = HalfAll
  BY <1>1, <1>2, DuesChange, RowsAre DEF Due, Half
<1> QED
  BY <1>3, QuantityStays DEF books

LEMMA QuantityStep == QuantityInv /\ CallersInv /\ Typed /\ SwitchInv /\ [Next]_vars => QuantityInv'
<1> SUFFICES ASSUME QuantityInv, CallersInv, Typed, SwitchInv, [Next]_vars PROVE QuantityInv'
  OBVIOUS
<1>0. Shape /\ "md" \in Handlers /\ "subs" \in Threads /\ Handlers \subseteq Threads
  BY DEF SwitchInv, Handlers, Threads
<1>1. ASSUME NEW t \in Handlers, Decide(t) \/ Submit(t) \/ SubmitFails(t) \/ SubmitUnmarked(t)
      PROVE  QuantityInv'
  BY <1>0, <1>1, HandlerMoves, SameDues, QuantityStays DEF books
<1>2. ASSUME NEW t \in Handlers, LocalHandler \/ PaperHandler(t) \/ StageHandler(t) \/ RouteHandler(t)
      PROVE  QuantityInv'
  BY <1>0, <1>1, <1>2, PaperQuantity DEF LocalHandler, PaperHandler, StageHandler, RouteHandler
<1>3. ASSUME NEW t \in Handlers, LocalCallback \/ PaperCallback(t) PROVE QuantityInv'
  BY <1>0, <1>3, BookQuantity DEF LocalCallback, PaperCallback
<1>4. ASSUME StageCallback \/ RouteCallback PROVE QuantityInv'
  <2>1. CASE Book("subs")
    BY <1>0, <2>1, BookQuantity
  <2>2. CASE StageDone \/ Count
    <3>1. FillDone /\ UNCHANGED <<books, session, working, orders, news, sent, ended, conduct>>
      BY <2>2 DEF StageDone, Count, risk, history
    <3> QED
      BY <3>1, DoneQuantity
  <2> QED
    BY <1>4, <2>1, <2>2, UpdateQuantity DEF StageCallback, RouteCallback
<1>5. ASSUME NEW k \in DOMAIN orders, NEW q, NEW price \in conduct.prices, VenueFills(k, q, price)
      PROVE  QuantityInv'
  BY <1>5, VenueQuantity
<1>6. CASE StopWaiting \/ (\E m \in Minutes : OnTick(m)) \/ Audit \/ UNCHANGED vars
  <2>1. UNCHANGED <<book, pnl, broker, news, call, ended>>
    BY <1>6 DEF StopWaiting, OnTick, Audit, vars, venue, history, books, WriteStatement,
                StartReconciler, Compare, StopReconciler
  <2> QED
    BY <2>1, SameDues, QuantityStays
<1>7. CASE End \/ Restart
  <2>1. ended'
    BY <1>7 DEF End, Restart, CallersInv, Running
  <2> QED
    BY <2>1 DEF QuantityInv
<1> QED
  BY <1>0, <1>2, <1>3, <1>4, <1>5, <1>6, <1>7 DEF Next

LEMMA InitQuantity == Init => QuantityInv
<1> SUFFICES ASSUME Init PROVE QuantityInv
  OBVIOUS
<1>1. \A t \in Threads : call[t].phase = "idle"
  BY RowsAre DEF Init, NoCall
<1>2. DueAll = 0 /\ HalfAll = 0
  BY <1>1 DEF DueAll, HalfAll, Due, Half, Threads, Handlers
<1>3. book.qty = 0 /\ pnl.qty = 0 /\ broker = 0 /\ news = <<>>
  BY DEF Init, PortfolioInit, Flat, NoPnl
<1>4. IsPath([i \in 0..0 |-> 0], news, broker)
  BY <1>3 DEF IsPath
<1> QED
  BY <1>2, <1>3, <1>4 DEF QuantityInv

LEMMA QuantityInvariant == Spec => []QuantityInv
<1> QED
  BY InitQuantity, QuantityStep, CallersInvariant, TypedInvariant, SwitchInvariant, PTL DEF Spec

-----------------------------------------------------------------------------
(* With one thread that calls back, what it has read back is the book's,   *)
(* and the profit's average cost is the book's but for the fill in hand.   *)
Caller == IF conduct.app = "local" THEN "md" ELSE "subs"

RowsInv ==
  conduct.app # "paper" =>
    LET c == call[Caller] IN
    /\ c.phase \in {"idle", "fill", "booked"} => stored = book
    /\ c.phase = "qty" => c.row.avg = book.avg
    /\ c.phase = "store" => c.row = book
    /\ ~ended => IF c.phase = "pnl"
                   THEN book = BookFill([qty |-> pnl.qty, avg |-> pnl.avg], Signed(Caller), c.price)
                   ELSE pnl.avg = book.avg

LEMMA RowsStay ==
  ASSUME RowsInv, UNCHANGED <<call, book, pnl, stored, conduct>>, ended => ended'
  PROVE  RowsInv'
BY DEF RowsInv, Caller, Signed

(* The caller's step, between two phases in which the rows are the same.   *)
LEMMA CallerRests ==
  ASSUME RowsInv, UNCHANGED <<book, pnl, stored, ended, conduct>>,
         conduct.app # "paper" => /\ call[Caller].phase \in {"idle", "booked"}
                                  /\ call'[Caller].phase \in {"idle", "fill"}
  PROVE  RowsInv'
BY DEF RowsInv, Caller, Signed

LEMMA CallerIs ==
  ASSUME CallersInv, conduct.app # "paper"
  PROVE  /\ Caller \in Threads /\ Callers = {Caller}
         /\ Caller' = IF conduct'.app = "local" THEN "md" ELSE "subs"
         /\ \A t \in Threads \ {Caller} : call[t].phase = "idle"
BY DEF CallersInv, Caller, Callers, Threads, Handlers

LEMMA BookRows ==
  ASSUME Typed, CallersInv, QuantityInv, RowsInv, NEW t \in Threads, Book(t), t \in Callers
  PROVE  RowsInv'
<1> SUFFICES ASSUME conduct.app # "paper" PROVE RowsInv'
  <2>1. conduct' = conduct
    BY BookMoves
  <2> QED
    BY <2>1 DEF RowsInv
<1>0. /\ t = Caller /\ Caller' = t /\ ended' = ended /\ conduct' = conduct
      /\ \A s \in Threads \ {t} : call[s].phase = "idle"
      /\ call'[t].price = call[t].price /\ Signed(t)' = Signed(t) /\ Signed(t) \in Int
      /\ CallTyped /\ BooksTyped /\ IsRow(call[t].row)
  BY CallerIs, BookMoves, SignedTyped DEF history, Typed, Caller, CallTyped, IsFill
<1>1. CASE OnFill(t, "fill", "pnl") /\ BookPosition(Signed(t), call[t].price)
  <2>1. call[t].phase = "fill" /\ call'[t].phase = "pnl" /\ pnl' = pnl
    BY <1>0, <1>1, CallMoves DEF OnFill, CallPhases, BookPosition
  <2>2. book' = BookFill(book, Signed(t), call[t].price)
    BY <1>1 DEF BookPosition
  <2>3. ~ended => book = [qty |-> pnl.qty, avg |-> pnl.avg]
    <3>1. HalfAll = 0
      BY <1>0, <2>1 DEF HalfAll, Half, Threads, Handlers
    <3>2. ~ended => book.qty = pnl.qty /\ pnl.avg = book.avg
      BY <1>0, <2>1, <3>1 DEF QuantityInv, RowsInv, BooksTyped
    <3> QED
      BY <1>0, <3>2 DEF BooksTyped, IsRow, Rows
  <2>4. ~ended' => book' = BookFill([qty |-> pnl'.qty, avg |-> pnl'.avg], Signed(t)', call'[t].price)
    BY <1>0, <2>1, <2>2, <2>3
  <2> QED
    BY <1>0, <2>1, <2>4 DEF RowsInv
<1>2. CASE OnFill(t, "pnl", "avg") /\ BookPnl(Signed(t), call[t].price)
  <2>1. call[t].phase = "pnl" /\ call'[t].phase = "avg" /\ book' = book
    BY <1>0, <1>2, CallMoves DEF OnFill, CallPhases, BookPnl
  <2>2. ~ended => pnl'.avg = book.avg
    <3>1. pnl'.avg = BookFill([qty |-> pnl.qty, avg |-> pnl.avg], Signed(t), call[t].price).avg
      BY <1>0, <1>2, BooksAlike DEF BookPnl, BooksTyped
    <3> QED
      BY <1>0, <2>1, <3>1 DEF RowsInv
  <2> QED
    BY <1>0, <2>1, <2>2 DEF RowsInv
<1>3. CASE ReadBack(t, "avg", "qty", [Flat EXCEPT !.avg = book.avg])
  <2> DEFINE row == [Flat EXCEPT !.avg = book.avg]
  <2>1. IsRow(row) /\ row.avg = book.avg
    BY DEF Flat, IsRow, Rows
  <2> HIDE DEF row
  <2>2. /\ call[t].phase = "avg" /\ UNCHANGED <<book, pnl, stored>>
        /\ call' = [call EXCEPT ![t].phase = "qty", ![t].row = row]
    BY <1>3 DEF ReadBack, books, row
  <2>3. call'[t].phase = "qty" /\ call'[t].row = row
    BY <1>0, <2>2 DEF CallTyped, IsFill, Fills
  <2> QED
    BY <1>0, <2>1, <2>2, <2>3 DEF RowsInv
<1>4. CASE ReadBack(t, "qty", "store", [call[t].row EXCEPT !.qty = book.qty])
  <2> DEFINE row == [call[t].row EXCEPT !.qty = book.qty]
  <2>1. /\ call[t].phase = "qty" /\ UNCHANGED <<book, pnl, stored>>
        /\ call' = [call EXCEPT ![t].phase = "store", ![t].row = row]
    BY <1>4 DEF ReadBack, books
  <2>2. call[t].row.avg = book.avg
    BY <1>0, <2>1 DEF RowsInv
  <2>3. IsRow(row) /\ row = book
    BY <1>0, <2>2 DEF BooksTyped, IsRow, Rows
  <2> HIDE DEF row
  <2>4. call'[t].phase = "store" /\ call'[t].row = row
    BY <1>0, <2>1 DEF CallTyped, IsFill, Fills
  <2> QED
    BY <1>0, <2>1, <2>3, <2>4 DEF RowsInv
<1>5. CASE OnFill(t, "store", "booked") /\ Store(call[t].row)
  <2>1. call[t].phase = "store" /\ call'[t].phase = "booked"
    BY <1>0, <1>5, CallMoves DEF OnFill, CallPhases
  <2>2. UNCHANGED <<book, pnl>> /\ stored' = call[t].row
    BY <1>5 DEF Store
  <2> QED
    BY <1>0, <2>1, <2>2 DEF RowsInv
<1> QED
  BY <1>1, <1>2, <1>3, <1>4, <1>5 DEF Book

LEMMA PaperRows ==
  ASSUME Typed, Shape, CallersInv, RowsInv, NEW t \in Handlers, SubmitPaper(t) \/ PaperReturns(t),
         conduct.app # "paper" => t = "md" /\ conduct.app = "local"
  PROVE  RowsInv'
<1>1. /\ UNCHANGED <<book, pnl, stored, ended, conduct>>
  BY DEF SubmitPaper, PaperReturns, books, history
<1>2. ASSUME conduct.app # "paper"
      PROVE  /\ call[Caller].phase \in {"idle", "booked"}
             /\ call'[Caller].phase \in {"idle", "fill"}
  <2>0. t = Caller /\ t \in Threads
    BY <1>2 DEF Caller, Threads
  <2>1. CASE SubmitPaper(t)
    <3>1. call[t].phase = "idle"
      BY <2>1 DEF SubmitPaper, CallSubmit, CallersInv
    <3> QED
      BY <2>0, <2>1, <3>1, SubmitPaperIs
  <2>2. CASE PaperReturns(t)
    <3>1. call' = [call EXCEPT ![t] = NoFill] /\ call[t].phase = "booked"
      BY <2>2 DEF PaperReturns
    <3> QED
      BY <2>0, <3>1, NewCall, RowsAre DEF Typed
  <2> QED
    BY <2>1, <2>2
<1> QED
  BY <1>1, <1>2, CallerRests

LEMMA SubsRows ==
  ASSUME Typed, RowsInv, conduct.app \in {"stage", "route"},
         \/ SubsUpdate
         \/ FillDone /\ UNCHANGED <<books, session, working, orders, news, sent, ended, conduct>>
  PROVE  RowsInv'
<1>1. /\ UNCHANGED <<book, pnl, stored, ended, conduct>> /\ Caller = "subs"
      /\ call["subs"].phase \in {"idle", "booked"}
  BY DEF SubsUpdate, FillDone, books, history, Caller
<1>2. call'["subs"].phase \in {"idle", "fill"}
  BY SubsUpdateTyped, FillDoneTyped, RowsAre
<1> QED
  BY <1>1, <1>2, CallerRests

LEMMA RowsStep ==
  RowsInv /\ QuantityInv /\ CallersInv /\ Typed /\ SwitchInv /\ [Next]_vars => RowsInv'
<1> SUFFICES ASSUME RowsInv, QuantityInv, CallersInv, Typed, SwitchInv, [Next]_vars PROVE RowsInv'
  OBVIOUS
<1>0. Shape /\ "md" \in Handlers /\ "subs" \in Threads /\ Handlers \subseteq Threads
  BY DEF SwitchInv, Handlers, Threads
<1>1. ASSUME NEW t \in Handlers, Decide(t) \/ Submit(t) \/ SubmitFails(t) \/ SubmitUnmarked(t)
      PROVE  RowsInv'
  BY <1>0, <1>1, HandlerMoves, RowsStay DEF books
<1>2. ASSUME NEW t \in Handlers, LocalHandler \/ PaperHandler(t) \/ StageHandler(t) \/ RouteHandler(t)
      PROVE  RowsInv'
  BY <1>0, <1>1, <1>2, PaperRows DEF LocalHandler, PaperHandler, StageHandler, RouteHandler
<1>3. ASSUME NEW t \in Handlers, LocalCallback \/ PaperCallback(t) PROVE RowsInv'
  BY <1>0, <1>3, BookRows DEF LocalCallback, PaperCallback, Callers
<1>4. ASSUME StageCallback \/ RouteCallback PROVE RowsInv'
  <2>1. conduct.app \in {"stage", "route"} /\ "subs" \in Callers
    BY <1>4 DEF StageCallback, RouteCallback, Callers
  <2>2. CASE Book("subs")
    BY <1>0, <2>1, <2>2, BookRows
  <2>3. CASE StageDone \/ Count
    <3>1. FillDone /\ UNCHANGED <<books, session, working, orders, news, sent, ended, conduct>>
      BY <2>3 DEF StageDone, Count, risk, history
    <3> QED
      BY <2>1, <3>1, SubsRows
  <2> QED
    BY <1>4, <2>1, <2>2, <2>3, SubsRows DEF StageCallback, RouteCallback
<1>5. ASSUME NEW k, NEW q, NEW price, VenueFills(k, q, price) PROVE RowsInv'
  BY <1>5, RowsStay DEF VenueFills, history
<1>6. CASE StopWaiting \/ (\E m \in Minutes : OnTick(m)) \/ Audit \/ End \/ UNCHANGED vars
  BY <1>6, RowsStay DEF StopWaiting, OnTick, Audit, End, vars, venue, history, books,
                        WriteStatement, StartReconciler, Compare, StopReconciler
<1>7. CASE Restart
  <2>1. ended' /\ stored' = book' /\ \A t \in Threads : call'[t].phase = "idle"
    BY <1>7, FreshTyped, RowsAre DEF Restart, WarmRestart, CallersInv, Running
  <2> QED
    BY <2>1 DEF RowsInv, Caller, Threads, Handlers
<1> QED
  BY <1>0, <1>2, <1>3, <1>4, <1>5, <1>6, <1>7 DEF Next

LEMMA InitRows == Init => RowsInv
<1> SUFFICES ASSUME Init PROVE RowsInv
  OBVIOUS
<1>1. \A t \in Threads : call[t].phase = "idle"
  BY RowsAre DEF Init, NoCall
<1>2. book = Flat /\ stored = Flat /\ pnl.avg = Flat.avg
  BY DEF Init, PortfolioInit, NoPnl, Flat
<1> QED
  BY <1>1, <1>2 DEF RowsInv, Caller, Threads, Handlers

LEMMA RowsInvariant == Spec => []RowsInv
<1> QED
  BY InitRows, RowsStep, QuantityInvariant, CallersInvariant, TypedInvariant, SwitchInvariant,
     PTL DEF Spec

(* When nothing is on its way, the books of the first process agree with   *)
(* each other, with the table and with the broker.                         *)
THEOREM BooksAgreeAlways == Spec => []BooksAgree
<1>1. RowsInv /\ QuantityInv /\ CallersInv /\ Typed => BooksAgree
  <2> SUFFICES ASSUME RowsInv, QuantityInv, CallersInv, Typed,
                      \A t \in Threads : call[t].phase \in {"idle", "booked"}
               PROVE  /\ conduct.app # "paper" => stored = book
                      /\ ~ended => book.qty = pnl.qty
                      /\ ~ended /\ conduct.app # "paper" => book.avg = pnl.avg
                      /\ ~ended /\ news = <<>> => book.qty = broker
    BY DEF BooksAgree
  <2>1. conduct.app # "paper" => stored = book /\ (~ended => book.avg = pnl.avg)
    BY CallerIs DEF RowsInv
  <2>2. DueAll = 0 /\ HalfAll = 0
    BY DEF DueAll, HalfAll, Due, Half, Threads, Handlers
  <2>3. book.qty \in Int /\ pnl.qty \in Int
    BY DEF Typed, BooksTyped, IsRow, Rows
  <2>4. ~ended => book.qty = pnl.qty
    BY <2>2, <2>3 DEF QuantityInv
  <2>5. ~ended /\ news = <<>> => book.qty = broker
    <3>1. ~ended => \E h : IsPath(h, news, broker) /\ h[0] = book.qty
      BY <2>2, <2>3 DEF QuantityInv
    <3> QED
      BY <3>1 DEF IsPath
  <2> QED
    BY <2>1, <2>4, <2>5
<1> QED
  BY <1>1, RowsInvariant, QuantityInvariant, CallersInvariant, TypedInvariant, PTL

-----------------------------------------------------------------------------
(* The reconciler knows the table as it was when it started; a row that is *)
(* written later leaves a mark.                                            *)
AuditorInv ==
  /\ auditor \in [on : BOOLEAN, qty : Int, says : {"nothing", "ok", "break"}, overtaken : BOOLEAN,
                 current : BOOLEAN]
  /\ auditor.says = "break" => auditor.on
  /\ auditor.on /\ ~auditor.overtaken => auditor.qty = stored.qty
  /\ BreakMeansMissingFill

LEMMA AuditorRests ==
  ASSUME AuditorInv, UNCHANGED <<auditor, stored, conduct>>, ended => ended',
         auditor.says = "break" /\ auditor.current /\ ~ended /\ conduct.app # "paper" /\ news' = <<>>
           /\ (\A t \in Threads : call'[t].phase \in {"idle", "booked"})
           => news = <<>> /\ \A t \in Threads : call[t].phase \in {"idle", "booked"}
  PROVE  AuditorInv'
BY DEF AuditorInv, BreakMeansMissingFill

LEMMA AuditStep ==
  ASSUME AuditorInv, CallersInv, Typed, RowsInv, QuantityInv, Audit
  PROVE  AuditorInv'
<1>0. UNCHANGED <<stored, news, call, ended, conduct>>
  BY DEF Audit, venue, history, WriteStatement, StartReconciler, Compare, StopReconciler
<1>1. CASE StartReconciler
  <2>1. stored.qty \in Int
    BY DEF Typed, BooksTyped, IsRow, Rows
  <2> QED
    BY <1>0, <1>1, <2>1 DEF StartReconciler, AuditorInv, BreakMeansMissingFill
<1>2. CASE Compare
  <2>1. /\ auditor.on
        /\ auditor' = [auditor EXCEPT !.says = IF statement = auditor.qty THEN "ok" ELSE "break",
                                      !.current = (statement = broker)]
    BY <1>2 DEF Compare
  <2>2. /\ auditor'.on = auditor.on /\ auditor'.overtaken = auditor.overtaken
        /\ auditor'.qty = auditor.qty
        /\ auditor'.says = "break" /\ auditor'.current => broker # auditor.qty
        /\ auditor' \in [on : BOOLEAN, qty : Int, says : {"nothing", "ok", "break"}, overtaken : BOOLEAN,
                        current : BOOLEAN]
    BY <2>1 DEF AuditorInv
  <2>3. ASSUME broker # auditor.qty, ~auditor.overtaken, ~ended, conduct.app # "paper", news = <<>>,
               \A t \in Threads : call[t].phase \in {"idle", "booked"}
        PROVE  FALSE
    <3>1. auditor.qty = stored.qty
      BY <2>1, <2>3 DEF AuditorInv
    <3>2. stored = book
      BY <2>3, CallerIs DEF RowsInv
    <3>3. DueAll = 0 /\ book.qty \in Int
      BY <2>3 DEF DueAll, Due, Threads, Handlers, Typed, BooksTyped, IsRow, Rows
    <3>4. \E h : IsPath(h, news, broker) /\ h[0] = book.qty
      BY <2>3, <3>3 DEF QuantityInv
    <3> QED
      BY <2>3, <3>1, <3>2, <3>4 DEF IsPath
  <2>4. BreakMeansMissingFill'
    BY <1>0, <2>2, <2>3 DEF BreakMeansMissingFill
  <2> QED
    BY <1>0, <2>1, <2>2, <2>4 DEF AuditorInv
<1>3. CASE StopReconciler
  BY <1>0, <1>3 DEF StopReconciler, AuditorInv, BreakMeansMissingFill
<1>4. CASE WriteStatement
  BY <1>0, <1>4 DEF WriteStatement, AuditorInv, BreakMeansMissingFill
<1> QED
  BY <1>1, <1>2, <1>3, <1>4 DEF Audit

LEMMA BookAuditor ==
  ASSUME AuditorInv, Typed, NEW t \in Threads, Book(t)
  PROVE  AuditorInv'
<1>0. UNCHANGED <<news, ended, conduct>>
  BY BookMoves DEF history
<1>1. CASE OnFill(t, "store", "booked") /\ Store(call[t].row)
  <2>1. auditor' = [auditor EXCEPT !.overtaken = auditor.on]
    BY <1>1 DEF Store
  <2>2. /\ auditor'.on = auditor.on /\ auditor'.overtaken = auditor.on
        /\ auditor'.qty = auditor.qty /\ auditor'.says = auditor.says
        /\ auditor'.current = auditor.current
        /\ auditor' \in [on : BOOLEAN, qty : Int, says : {"nothing", "ok", "break"}, overtaken : BOOLEAN,
                        current : BOOLEAN]
    BY <2>1 DEF AuditorInv
  <2> QED
    BY <2>2 DEF AuditorInv, BreakMeansMissingFill
<1>2. CASE ~(OnFill(t, "store", "booked") /\ Store(call[t].row))
  <2>1. /\ UNCHANGED <<auditor, stored>> /\ call[t].phase # "store"
        /\ call'[t].phase \notin {"idle", "booked"}
    BY <1>2 DEF Book, OnFill, ReadBack, BookPosition, BookPnl, books, Typed, CallTyped, IsFill, Fills
  <2> QED
    BY <1>0, <2>1, AuditorRests
<1> QED
  BY <1>1, <1>2

LEMMA AuditorStep ==
  /\ AuditorInv /\ RowsInv /\ QuantityInv /\ CallersInv /\ Typed /\ SwitchInv
  /\ [Next]_vars
  => AuditorInv'
<1> SUFFICES ASSUME AuditorInv, RowsInv, QuantityInv, CallersInv, Typed, SwitchInv, [Next]_vars
             PROVE  AuditorInv'
  OBVIOUS
<1>0. Shape /\ "md" \in Handlers /\ "subs" \in Threads /\ Handlers \subseteq Threads
  BY DEF SwitchInv, Handlers, Threads
<1>1. ASSUME NEW t \in Handlers, Decide(t) \/ Submit(t) \/ SubmitFails(t) \/ SubmitUnmarked(t)
      PROVE  AuditorInv'
  BY <1>0, <1>1, HandlerMoves, AuditorRests DEF books
<1>2. ASSUME NEW t \in Handlers, SubmitPaper(t) \/ PaperReturns(t) PROVE AuditorInv'
  <2>1. UNCHANGED <<auditor, stored, news, ended, conduct>>
    BY <1>2 DEF SubmitPaper, PaperReturns, books, history
  <2>2. CASE SubmitPaper(t)
    <3>1. call'[t].phase = "fill" /\ t \in Threads
      BY <1>0, <2>2, SubmitPaperIs
    <3> QED
      BY <2>1, <3>1, AuditorRests
  <2>3. CASE PaperReturns(t)
    <3>1. call[t].phase = "booked" /\ call' = [call EXCEPT ![t] = NoFill] /\ t \in Threads
      BY <1>0, <2>3 DEF PaperReturns
    <3>2. \A s \in Threads \ {t} : call'[s] = call[s]
      BY <3>1, NewCall, RowsAre DEF Typed
    <3> QED
      BY <2>1, <3>1, <3>2, AuditorRests
  <2> QED
    BY <1>2, <2>2, <2>3
<1>3. ASSUME NEW t \in Handlers, LocalHandler \/ PaperHandler(t) \/ StageHandler(t) \/ RouteHandler(t)
      PROVE  AuditorInv'
  BY <1>0, <1>1, <1>2, <1>3 DEF LocalHandler, PaperHandler, StageHandler, RouteHandler
<1>4. ASSUME NEW t \in Handlers, LocalCallback \/ PaperCallback(t) PROVE AuditorInv'
  BY <1>0, <1>4, BookAuditor DEF LocalCallback, PaperCallback
<1>5. ASSUME StageCallback \/ RouteCallback PROVE AuditorInv'
  <2>1. CASE Book("subs")
    BY <1>0, <2>1, BookAuditor
  <2>2. CASE SubsUpdate
    <3>1. call'["subs"].phase = "fill" /\ UNCHANGED <<auditor, stored, ended, conduct>>
      BY <2>2, SubsUpdateTyped DEF SubsUpdate, books, history
    <3> QED
      BY <1>0, <3>1, AuditorRests
  <2>3. CASE StageDone \/ Count
    <3>1. FillDone /\ UNCHANGED <<books, session, working, orders, news, sent, ended, conduct>>
      BY <2>3 DEF StageDone, Count, risk, history
    <3>2. call["subs"].phase = "booked" /\ \A t \in Handlers : call'[t] = call[t]
      BY <3>1, FillDoneTyped DEF FillDone
    <3>3. \A t \in Threads : t = "subs" \/ t \in Handlers
      BY DEF Threads
    <3> QED
      BY <3>1, <3>2, <3>3, AuditorRests DEF books
  <2> QED
    BY <1>5, <2>1, <2>2, <2>3 DEF StageCallback, RouteCallback
<1>6. ASSUME NEW k \in DOMAIN orders, NEW q, NEW price \in conduct.prices, VenueFills(k, q, price)
      PROVE  AuditorInv'
  <2>1. UNCHANGED <<auditor, stored, call, ended, conduct>>
    BY <1>6 DEF VenueFills, history
  <2>2. ~ended => news' # <<>>
    <3>1. news \in Seq(News)
      BY DEF Typed, VenueTyped
    <3> QED
      BY <1>6, <3>1 DEF VenueFills, CallersInv
  <2> QED
    BY <2>1, <2>2, AuditorRests
<1>7. CASE StopWaiting \/ (\E m \in Minutes : OnTick(m)) \/ End \/ UNCHANGED vars
  <2>1. UNCHANGED <<auditor, stored, news, call, conduct>> /\ (ended => ended')
    BY <1>7 DEF StopWaiting, OnTick, End, vars, venue, history, books
  <2> QED
    BY <2>1, AuditorRests
<1>8. CASE Restart
  <2>1. ended /\ UNCHANGED <<auditor, stored, ended, conduct>>
    BY <1>8 DEF Restart, WarmRestart, CallersInv, Running
  <2> QED
    BY <2>1, AuditorRests
<1> QED
  BY <1>0, <1>3, <1>4, <1>5, <1>6, <1>7, <1>8, AuditStep DEF Next

LEMMA InitAuditor == Init => AuditorInv
BY DEF Init, PortfolioInit, AuditorInv, BreakMeansMissingFill

(* A break against a current statement means a row written after the       *)
(* reconciler started, or a fill the table lacks.                          *)
THEOREM BreakMeansMissingFillAlways == Spec => []BreakMeansMissingFill
<1>1. AuditorInv => BreakMeansMissingFill
  BY DEF AuditorInv
<1> QED
  BY <1>1, InitAuditor, AuditorStep, RowsInvariant, QuantityInvariant, CallersInvariant,
     TypedInvariant, SwitchInvariant, PTL DEF Spec

-----------------------------------------------------------------------------
(* The steps of a handler once more, for what they do to bars and keys.    *)
LEMMA Advances ==
  ASSUME Typed, Shape, NEW t \in Handlers, Validate(t) \/ TryAcquire(t) \/ Claim(t)
  PROVE  /\ UNCHANGED <<chosen, working, known, sent, call, news, orders, books, conduct, ended, minute>>
         /\ \A s \in Handlers \ {t} : task'[s] = task[s]
         /\ \/ Finish(t) /\ UNCHANGED claimed
            \/ /\ UNCHANGED openBar /\ task'[t].bar = task[t].bar /\ task'[t].key = task[t].key
               /\ \/ /\ task[t].phase \in {"validate", "rate"} /\ task'[t].phase \in {"rate", "claim"}
                     /\ UNCHANGED claimed
                  \/ /\ task[t].phase = "claim" /\ task'[t].phase = "register"
                     /\ task[t].key \notin claimed /\ claimed' = claimed \cup {task[t].key}
<1>0. {"rate", "claim", "register"} \subseteq Phases
  BY DEF Phases, PastPhases
<1>1. /\ UNCHANGED <<chosen, working, known, sent, call, news, orders, books, conduct, ended, minute>>
  BY DEF Validate, TryAcquire, Claim, risk, venue, history
<1>2. CASE Finish(t) /\ UNCHANGED claimed
  BY <1>1, <1>2, Ends
<1>3. CASE Validate(t) /\ ~Finish(t)
  <2>1. /\ task' = [task EXCEPT ![t].phase = "rate", ![t].now = minute]
        /\ UNCHANGED <<openBar, claimed>> /\ task[t].phase = "validate"
    BY <1>3 DEF Validate, risk
  <2>2. /\ task'[t].phase = "rate" /\ task'[t].bar = task[t].bar /\ task'[t].key = task[t].key
        /\ \A s \in Handlers \ {t} : task'[s] = task[s]
    BY <1>0, <2>1, JobTimed
  <2> QED
    BY <1>1, <2>1, <2>2
<1>4. CASE TryAcquire(t) /\ ~Finish(t)
  <2>1. /\ task' = [task EXCEPT ![t].phase = "claim"]
        /\ UNCHANGED <<openBar, claimed>> /\ task[t].phase = "rate"
    BY <1>4 DEF TryAcquire
  <2>2. /\ task'[t].phase = "claim" /\ task'[t].bar = task[t].bar /\ task'[t].key = task[t].key
        /\ \A s \in Handlers \ {t} : task'[s] = task[s]
    BY <1>0, <2>1, JobMoves
  <2> QED
    BY <1>1, <2>1, <2>2
<1>5. CASE Claim(t) /\ task[t].key \notin claimed
  <2>1. /\ task' = [task EXCEPT ![t].phase = "register"]
        /\ UNCHANGED openBar /\ task[t].phase = "claim"
        /\ claimed' = claimed \cup {task[t].key}
    BY <1>5 DEF Claim
  <2>2. /\ task'[t].phase = "register" /\ task'[t].bar = task[t].bar /\ task'[t].key = task[t].key
        /\ \A s \in Handlers \ {t} : task'[s] = task[s]
    BY <1>0, <2>1, JobMoves
  <2> QED
    BY <1>1, <1>5, <2>1, <2>2
<1>6. Finish(t) => UNCHANGED claimed \/ (Claim(t) /\ task[t].key \notin claimed)
  BY DEF Validate, TryAcquire, Claim, risk
<1>7. Claim(t) => task[t].key \notin claimed \/ (Finish(t) /\ UNCHANGED claimed)
  BY DEF Claim
<1> QED
  BY <1>2, <1>3, <1>4, <1>5, <1>6, <1>7

LEMMA Registers ==
  ASSUME Typed, Shape, NEW t \in Handlers, Register(t)
  PROVE  /\ UNCHANGED <<chosen, claimed, known, sent, call, news, orders, books, conduct, ended,
                        minute, openBar>>
         /\ task[t].phase = "register" /\ task'[t].phase = "submit"
         /\ task'[t].bar = task[t].bar /\ task'[t].key = task[t].key
         /\ \A s \in Handlers \ {t} : task'[s] = task[s]
         /\ task[t].key \in Keys /\ task[t].key.qty \in Int
         /\ working' = Upsert(task[t].key, task[t].key.qty)
<1>1. "submit" \in Phases
  BY DEF Phases, PastPhases
<1>2. task' = [task EXCEPT ![t].phase = "submit"]
  BY DEF Register
<1>3. /\ task'[t].phase = "submit" /\ task'[t].bar = task[t].bar /\ task'[t].key = task[t].key
      /\ \A s \in Handlers \ {t} : task'[s] = task[s]
  BY <1>1, <1>2, JobMoves
<1>4. task[t].key \in Keys /\ task[t].key.qty \in Int
  BY KeyTyped DEF Typed, SessionTyped
<1> QED
  BY <1>3, <1>4 DEF Register, venue, history

LEMMA Targets ==
  ASSUME Typed, Shape, NEW t \in Handlers, OnTarget(t)
  PROVE  /\ UNCHANGED <<working, claimed, known, sent, call, news, orders, books, conduct, ended, minute>>
         /\ \A s \in Handlers \ {t} : task'[s] = task[s]
         /\ task[t].phase = "bar" /\ task[t].bar \in Minutes
         /\ \E target \in Int, k \in Keys :
              /\ target \in TargetsFor(task[t].bar)
              /\ k.bar = task[t].bar /\ target - book.qty - NetWorking = k.side * k.qty
              /\ chosen'[task[t].bar] = target
              /\ \A b \in Minutes \ {task[t].bar} : chosen'[b] = chosen[b]
              /\ \/ Finish(t)
                 \/ /\ k.qty > 0 /\ UNCHANGED openBar
                    /\ task'[t].phase = "validate" /\ task'[t].bar = task[t].bar /\ task'[t].key = k
<1>1. /\ UNCHANGED <<working, claimed, known, sent, call, news, orders, books, conduct, ended, minute>>
      /\ task[t].phase = "bar" /\ task[t].bar \in Minutes
  BY DEF OnTarget, risk, venue, history, Typed, SessionTyped
<1>2. PICK target \in Int, k \in Keys :
           /\ target \in TargetsFor(task[t].bar)
           /\ k.bar = task[t].bar /\ target - book.qty - NetWorking = k.side * k.qty
           /\ chosen' = [chosen EXCEPT ![task[t].bar] = target]
           /\ \/ Finish(t)
              \/ /\ k.qty > 0 /\ UNCHANGED openBar
                 /\ task' = [task EXCEPT ![t].phase = "validate", ![t].key = k]
  BY OnTargetIs
<1>3. chosen'[task[t].bar] = target /\ \A b \in Minutes \ {task[t].bar} : chosen'[b] = chosen[b]
  BY <1>1, <1>2 DEF Typed, SessionTyped
<1>4. CASE Finish(t)
  BY <1>1, <1>2, <1>3, <1>4, Ends
<1>5. CASE /\ k.qty > 0 /\ UNCHANGED openBar
           /\ task' = [task EXCEPT ![t].phase = "validate", ![t].key = k]
  <2>1. "validate" \in Phases
    BY DEF Phases
  <2>2. /\ task'[t].phase = "validate" /\ task'[t].bar = task[t].bar /\ task'[t].key = k
        /\ \A s \in Handlers \ {t} : task'[s] = task[s]
    BY ZenonT(60), <1>5, <2>1, JobKeyed
  <2> QED
    BY <1>1, <1>2, <1>3, <1>5, <2>2
<1> QED
  BY <1>2, <1>4, <1>5

(* submit_order is called, to EMSX or on paper.                            *)
LEMMA Submits ==
  ASSUME Typed, Shape, NEW t \in Handlers, Submit(t) \/ SubmitFails(t) \/ SubmitPaper(t)
  PROVE  /\ UNCHANGED <<chosen, working, claimed, news, conduct, ended, minute, book>>
         /\ task[t].phase = "submit" /\ task[t].bar \in Minutes /\ task[t].key \in Keys
         /\ sent'[task[t].bar] = sent[task[t].bar] + 1
         /\ \A b \in Minutes \ {task[t].bar} : sent'[b] = sent[b]
         /\ \A s \in Handlers \ {t} : task'[s] = task[s]
         /\ \/ Finish(t) /\ UNCHANGED call
            \/ /\ task'[t].phase = "callback" /\ task'[t].bar = task[t].bar /\ task'[t].key = task[t].key
               /\ UNCHANGED <<openBar, known, orders>> /\ SubmitPaper(t)
<1>1. /\ UNCHANGED <<chosen, working, claimed, news, conduct, ended, minute, book>>
      /\ CallSubmit(t) /\ task[t].phase = "submit"
  BY DEF Submit, SubmitFails, SubmitPaper, CallSubmit, risk, venue, books
<1>2. /\ task[t].bar \in Minutes /\ task[t].key \in Keys
      /\ sent'[task[t].bar] = sent[task[t].bar] + 1
      /\ \A b \in Minutes \ {task[t].bar} : sent'[b] = sent[b]
  BY <1>1, CallSubmitTyped
<1>3. CASE Submit(t) \/ SubmitFails(t)
  <2>1. Finish(t) /\ UNCHANGED call
    BY <1>3 DEF Submit, SubmitFails, venue
  <2> QED
    BY <1>1, <1>2, <2>1, Ends
<1>4. CASE SubmitPaper(t)
  <2>1. UNCHANGED <<openBar, known, orders>>
    BY <1>4 DEF SubmitPaper
  <2> QED
    BY <1>1, <1>2, <1>4, <2>1, SubmitPaperIs
<1> QED
  BY <1>3, <1>4

LEMMA Unmarks ==
  ASSUME Typed, Shape, NEW t \in Handlers, SubmitUnmarked(t)
  PROVE  /\ UNCHANGED <<books, chosen, claimed, known, orders, news, call, ended, conduct, minute>>
         /\ task[t].phase = "submit" /\ Finish(t)
         /\ task[t].bar \in Minutes /\ task[t].key \in Keys
         /\ sent'[task[t].bar] = sent[task[t].bar] + 1
         /\ \A b \in Minutes \ {task[t].bar} : sent'[b] = sent[b]
         /\ task'[t] = Idle /\ \A s \in Handlers \ {t} : task'[s] = task[s]
         /\ \E n \in Nat : n = 0 /\ working' = Upsert(task[t].key, n)
<1>1. /\ UNCHANGED <<books, chosen, claimed, known, orders, news, call, ended, conduct, minute>>
      /\ CallSubmit(t) /\ task[t].phase = "submit" /\ Finish(t)
      /\ working' = Upsert(task[t].key, 0) /\ 0 \in Nat
  BY DEF SubmitUnmarked, CallSubmit, venue
<1>2. /\ task[t].bar \in Minutes /\ task[t].key \in Keys
      /\ sent'[task[t].bar] = sent[task[t].bar] + 1
      /\ \A b \in Minutes \ {task[t].bar} : sent'[b] = sent[b]
  BY <1>1, CallSubmitTyped
<1>3. task'[t] = Idle /\ \A s \in Handlers \ {t} : task'[s] = task[s]
  BY <1>1, Ends
<1>4. \E n \in Nat : n = 0 /\ working' = Upsert(task[t].key, n)
  BY <1>1
<1> QED
  BY <1>1, <1>2, <1>3, <1>4

LEMMA Returns ==
  ASSUME Typed, Shape, NEW t \in Handlers, PaperReturns(t)
  PROVE  /\ UNCHANGED <<books, chosen, claimed, known, orders, news, sent, ended, conduct, minute>>
         /\ task[t].phase = "callback" /\ call[t].phase = "booked" /\ Finish(t)
         /\ call'[t] = NoFill /\ \A s \in Threads \ {t} : call'[s] = call[s]
         /\ \A s \in Handlers \ {t} : task'[s] = task[s]
         /\ working' = Upsert(task[t].key, 0) /\ task[t].key \in Keys
<1>1. t \in Threads /\ call' = [call EXCEPT ![t] = NoFill] /\ Finish(t)
  BY DEF PaperReturns, Threads
<1>2. call'[t] = NoFill /\ \A s \in Threads \ {t} : call'[s] = call[s]
  BY <1>1, NewCall, RowsAre DEF Typed
<1> QED
  BY <1>1, <1>2, Ends DEF PaperReturns, history, Typed, SessionTyped

-----------------------------------------------------------------------------
(* NetWorking when one entry of the working book is set.                   *)
At(f, k) == IF k \in DOMAIN f THEN f[k] ELSE 0
IsBookOf(f) == /\ IsFiniteSet(DOMAIN f) /\ DOMAIN f \subseteq Keys
               /\ \A k \in DOMAIN f : f[k] \in Int
NetOf(f) == Sum(Weighed(f), DOMAIN f)

LEMMA NetIsNet == NetWorking = NetOf(working) /\ NetWorking' = NetOf(working')
<1>1. \A f : NetOf(f) = NetSum(f)
  BY NetIsSum DEF NetOf
<1>2. NetWorking = NetSum(working)
  BY DEF NetWorking, NetSum
<1>3. NetWorking' = NetSum(working')
  BY DEF NetWorking, NetSum, MapThenSumSet, MapThenFoldSet
<1> QED
  BY <1>1, <1>2, <1>3

LEMMA NetApart ==
  ASSUME NEW f, IsBookOf(f), NEW k \in Keys
  PROVE  /\ NetOf(f) = Sum(Weighed(f), DOMAIN f \ {k}) + k.side * At(f, k)
         /\ Sum(Weighed(f), DOMAIN f \ {k}) \in Int /\ k.side * At(f, k) \in Int
<1> DEFINE g == Weighed(f)
           R == DOMAIN f \ {k}
<1>1. \A j \in DOMAIN f : g[j] = j.side * f[j] /\ g[j] \in Int
  BY KeyTyped DEF Weighed, IsBookOf
<1>2. IsFiniteSet(R) /\ k \notin R /\ R \subseteq DOMAIN f
  BY FS_RemoveElement DEF IsBookOf
<1>3. At(f, k) \in Int /\ k.side * At(f, k) \in Int
  BY KeyTyped DEF At, IsBookOf
<1> HIDE DEF g
<1>4. Sum(g, R) \in Int
  BY <1>1, <1>2, SumType
<1>5. CASE k \in DOMAIN f
  <2>1. R \cup {k} = DOMAIN f /\ g[k] = k.side * At(f, k)
    BY <1>1, <1>5 DEF At
  <2> HIDE DEF R
  <2>2. Sum(g, DOMAIN f) = Sum(g, R) + g[k]
    BY <1>1, <1>2, <2>1, SumAdd
  <2> QED
    BY <1>3, <1>4, <2>1, <2>2 DEF NetOf, R, g
<1>6. CASE k \notin DOMAIN f
  <2>1. R = DOMAIN f /\ At(f, k) = 0 /\ k.side \in {1, -1}
    BY <1>6 DEF At, Keys
  <2>2. k.side * At(f, k) = 0
    BY <2>1
  <2> QED
    BY <1>3, <1>4, <2>1 DEF NetOf, g
<1> QED
  BY <1>5, <1>6

LEMMA NetChanges ==
  ASSUME NEW f, IsBookOf(f), NEW g, IsBookOf(g), NEW k \in Keys,
         \A j : j # k => /\ j \in DOMAIN g <=> j \in DOMAIN f
                         /\ j \in DOMAIN f => g[j] = f[j]
  PROVE  /\ NetOf(g) = NetOf(f) - k.side * At(f, k) + k.side * At(g, k)
         /\ NetOf(f) \in Int /\ NetOf(g) \in Int
         /\ k.side * At(f, k) \in Int /\ k.side * At(g, k) \in Int
<1> DEFINE R == DOMAIN f \ {k}
<1>1. R = DOMAIN g \ {k} /\ \A j \in R : Weighed(f)[j] = Weighed(g)[j]
  BY DEF Weighed
<1>2. IsFiniteSet(R)
  BY FS_RemoveElement DEF IsBookOf
<1> HIDE DEF R
<1>3. Sum(Weighed(f), R) = Sum(Weighed(g), R)
  BY <1>1, <1>2, SumAgrees
<1>4. /\ NetOf(f) = Sum(Weighed(f), R) + k.side * At(f, k)
      /\ NetOf(g) = Sum(Weighed(g), R) + k.side * At(g, k)
      /\ Sum(Weighed(f), R) \in Int /\ k.side * At(f, k) \in Int /\ k.side * At(g, k) \in Int
  BY <1>1, NetApart DEF R
<1> QED
  BY <1>3, <1>4

LEMMA UpsertNet ==
  ASSUME WorkingTyped, NEW k \in Keys, NEW leaves \in Nat, working' = Upsert(k, leaves)
  PROVE  /\ NetWorking' = NetWorking - k.side * At(working, k) + k.side * leaves
         /\ At(working', k) = leaves /\ \A j : j # k => At(working', j) = At(working, j)
         /\ NetWorking \in Int /\ NetWorking' \in Int
         /\ k.side * At(working, k) \in Int /\ k.side * leaves \in Int
<1>1. /\ WorkingTyped'
      /\ \A j : j # k => /\ j \in DOMAIN working' <=> j \in DOMAIN working
                         /\ j \in DOMAIN working => working'[j] = working[j]
      /\ leaves <= 0 => DOMAIN working' = DOMAIN working \ {k}
      /\ leaves > 0 => DOMAIN working' = DOMAIN working \cup {k} /\ working'[k] = leaves
  <2>1. leaves \in Int
    OBVIOUS
  <2> QED
    BY <2>1, UpsertTyped
<1>2. IsBookOf(working) /\ IsBookOf(working')
  BY <1>1 DEF WorkingTyped, IsBookOf
<1>3. At(working', k) = leaves
  BY <1>1 DEF At
<1>4. \A j : j # k => At(working', j) = At(working, j)
  BY <1>1 DEF At
<1>5. /\ NetOf(working') = NetOf(working) - k.side * At(working, k) + k.side * At(working', k)
      /\ NetOf(working) \in Int /\ NetOf(working') \in Int
      /\ k.side * At(working, k) \in Int /\ k.side * At(working', k) \in Int
  BY <1>1, <1>2, NetChanges
<1> QED
  BY <1>3, <1>4, <1>5, NetIsNet

-----------------------------------------------------------------------------
(* Which bars are in hand while the first process lives and main handles   *)
(* its bar before md closes the next: never two different ones, never one  *)
(* later than the open bar, and no target has been chosen for a later one. *)
Active(t) == task[t].phase # "idle"

Bars ==
  /\ \A t \in Handlers : Active(t) => /\ task[t].bar <= minute
                                      /\ openBar # None => task[t].bar <= openBar
  /\ openBar # None => openBar <= minute
  /\ Active("md") /\ openBar # None => openBar = task["md"].bar
  /\ Active("md") /\ Active("main") => task["md"].bar = task["main"].bar
  /\ \A b \in Minutes : chosen[b] # None =>
       /\ b <= minute /\ (openBar # None => b <= openBar)
       /\ \A t \in Handlers : Active(t) => b <= task[t].bar

BarsInv == conduct.spaced /\ ~ended => Bars

(* A step that takes up no bar.                                            *)
LEMMA BarsFollow ==
  ASSUME Typed, Typed', BarsInv, UNCHANGED <<minute, conduct>>, ended => ended',
         openBar' = openBar \/ (openBar' = minute /\ ~Active("md")'),
         \A t \in Handlers : Active(t)' => Active(t) /\ task'[t].bar = task[t].bar,
         \A b \in Minutes : chosen'[b] # None =>
            chosen[b] # None \/ \E t \in Handlers : Active(t) /\ b = task[t].bar
  PROVE  BarsInv'
<1> SUFFICES ASSUME Bars PROVE Bars'
  BY DEF BarsInv
<1>0. /\ Handlers = {"md", "main"} /\ minute \in Int
      /\ \A b \in Minutes : b \in Int
      /\ \A t \in Handlers : Active(t) => task[t].bar \in Int
      /\ openBar # None => openBar \in Int
  BY DEF Handlers, Typed, SessionTyped, Minutes, Active
<1>1. \A b \in Minutes : chosen'[b] # None =>
        /\ b <= minute /\ (openBar # None => b <= openBar)
        /\ \A t \in Handlers : Active(t) => b <= task[t].bar
  BY <1>0 DEF Bars
<1>2. \A t \in Handlers : Active(t)' => /\ task'[t].bar <= minute
                                        /\ openBar # None => task'[t].bar <= openBar
  BY DEF Bars
<1>3. Active("md")' /\ Active("main")' => task'["md"].bar = task'["main"].bar
  BY <1>0 DEF Bars
<1>4. openBar' # None => openBar' <= minute
  BY <1>0 DEF Bars
<1>5. Active("md")' /\ openBar' # None => openBar' = task'["md"].bar
  BY <1>0 DEF Bars
<1> QED
  BY <1>0, <1>1, <1>2, <1>3, <1>4, <1>5 DEF Bars

LEMMA IdleIsNotActive == Idle.phase = "idle"
BY DEF Idle

(* What the end of a handler means for the open bar.                       *)
LEMMA FinishOpens ==
  ASSUME Typed, Shape, NEW t \in Handlers, Finish(t)
  PROVE  /\ openBar' = openBar \/ (openBar' = minute /\ ~Active("md")')
         /\ ~Active(t)' /\ \A s \in Handlers \ {t} : task'[s] = task[s]
BY Ends, IdleIsNotActive DEF Finish, Active

LEMMA HandlerBars ==
  ASSUME Typed, Typed', Shape, BarsInv, NEW t \in Handlers,
         \/ Decide(t) \/ Submit(t) \/ SubmitFails(t) \/ SubmitUnmarked(t)
         \/ SubmitPaper(t) \/ PaperReturns(t)
  PROVE  BarsInv'
<1>1. CASE Finish(t) /\ UNCHANGED <<minute, conduct, ended, chosen>>
  BY <1>1, FinishOpens, BarsFollow DEF Active
<1>2. CASE /\ task[t].phase # "idle" /\ task'[t].bar = task[t].bar
           /\ \A s \in Handlers \ {t} : task'[s] = task[s]
           /\ UNCHANGED <<minute, conduct, ended, chosen, openBar>>
  BY <1>2, BarsFollow DEF Active
<1>3. CASE Validate(t) \/ TryAcquire(t) \/ Claim(t)
  BY <1>1, <1>2, <1>3, Advances
<1>4. CASE Register(t)
  BY <1>2, <1>4, Registers
<1>5. CASE Submit(t) \/ SubmitFails(t) \/ SubmitPaper(t)
  BY <1>1, <1>2, <1>5, Submits
<1>6. CASE PaperReturns(t)
  BY <1>1, <1>6, Returns
<1>7. CASE OnTarget(t)
  <2>1. /\ UNCHANGED <<conduct, ended, minute>> /\ task[t].phase # "idle"
        /\ \A s \in Handlers \ {t} : task'[s] = task[s]
        /\ \A b \in Minutes \ {task[t].bar} : chosen'[b] = chosen[b]
        /\ Finish(t) \/ (UNCHANGED openBar /\ task'[t].bar = task[t].bar)
    BY <1>7, Targets
  <2>2. CASE Finish(t)
    BY <2>1, <2>2, FinishOpens, BarsFollow DEF Active
  <2>3. CASE UNCHANGED openBar /\ task'[t].bar = task[t].bar
    BY <2>1, <2>3, BarsFollow DEF Active
  <2> QED
    BY <2>1, <2>2, <2>3
<1>8. CASE SubmitUnmarked(t)
  BY <1>1, <1>8, Unmarks
<1> QED
  BY <1>3, <1>4, <1>5, <1>6, <1>7, <1>8 DEF Decide

LEMMA TickBars ==
  ASSUME Typed, Typed', Shape, BarsInv, NEW m \in Minutes, OnTick(m)
  PROVE  BarsInv'
<1> SUFFICES ASSUME Bars, conduct.spaced PROVE Bars'
  BY DEF BarsInv, OnTick, history
<1>0. /\ Handlers = {"md", "main"} /\ minute \in Int /\ m \in Int /\ None \notin Int
      /\ \A b \in Minutes : b \in Int
      /\ \A t \in Handlers : Active(t) => task[t].bar \in Int
      /\ openBar # None => openBar \in Int
  BY ConductAssumption DEF Handlers, Typed, SessionTyped, Minutes, Active
<1>1. /\ chosen' = chosen /\ minute' = m /\ minute <= m /\ ~Active("md")
  BY <1>0 DEF OnTick, Active
<1>2. CASE openBar # None /\ openBar < m
  <2>1. /\ task["main"] = Idle /\ openBar' = openBar
        /\ task' = [task EXCEPT !["md"] = [Idle EXCEPT !.phase = "bar", !.bar = openBar]]
    BY <1>2 DEF OnTick
  <2>2. task'["md"].bar = openBar /\ task'["main"] = task["main"]
    BY <1>0, <2>1, NewBar
  <2>3. ~Active("main")'
    BY <2>1, <2>2, IdleIsNotActive DEF Active
  <2>4. \A b \in Minutes : chosen'[b] # None => b <= openBar
    BY <1>1, <1>2 DEF Bars
  <2> QED
    BY <1>0, <1>1, <1>2, <2>1, <2>2, <2>3, <2>4 DEF Bars
<1>3. CASE ~(openBar # None /\ openBar < m)
  <2>1. /\ UNCHANGED task /\ openBar' = IF openBar = None THEN m ELSE openBar
    BY <1>3 DEF OnTick
  <2>2. ~Active("md")' /\ (Active("main")' <=> Active("main"))
    BY <1>1, <2>1 DEF Active
  <2>3. /\ Active("main") => task["main"].bar <= minute
        /\ \A b \in Minutes : chosen'[b] # None =>
             b <= minute /\ (Active("main") => b <= task["main"].bar)
    BY <1>0, <1>1 DEF Bars
  <2>4. CASE openBar = None
    BY <1>0, <1>1, <2>1, <2>2, <2>3, <2>4 DEF Bars
  <2>5. CASE openBar # None
    <3>1. /\ Active("main") => task["main"].bar <= openBar
          /\ openBar <= minute /\ \A b \in Minutes : chosen'[b] # None => b <= openBar
      BY <1>0, <1>1, <2>5 DEF Bars
    <3> QED
      BY <1>0, <1>1, <2>1, <2>2, <2>3, <2>5, <3>1 DEF Bars
  <2> QED
    BY <2>4, <2>5
<1> QED
  BY <1>2, <1>3

LEMMA FlushBars ==
  ASSUME Typed, Typed', Shape, BarsInv, StopWaiting
  PROVE  BarsInv'
<1>1. /\ UNCHANGED <<minute, conduct, ended, chosen>>
  BY DEF StopWaiting, history
<1>2. CASE UNCHANGED <<openBar, task>>
  BY <1>1, <1>2, BarsFollow DEF Active
<1>3. CASE ~UNCHANGED <<openBar, task>>
  <2>1. /\ openBar # None /\ openBar' = None
        /\ task' = [task EXCEPT !["main"] = [Idle EXCEPT !.phase = "bar", !.bar = openBar]]
    BY <1>3 DEF StopWaiting
  <2>2. task'["main"].bar = openBar /\ task'["md"] = task["md"] /\ Handlers = {"md", "main"}
    BY <2>1, NewBar DEF Handlers
  <2>3. Active("md")' <=> Active("md")
    BY <2>2 DEF Active
  <2> SUFFICES ASSUME Bars PROVE Bars'
    BY <1>1 DEF BarsInv
  <2> QED
    BY <1>1, <2>1, <2>2, <2>3 DEF Bars
<1> QED
  BY <1>2, <1>3

LEMMA BarsStep == BarsInv /\ CallersInv /\ Typed /\ Typed' /\ SwitchInv /\ [Next]_vars => BarsInv'
<1> SUFFICES ASSUME BarsInv, CallersInv, Typed, Typed', SwitchInv, [Next]_vars PROVE BarsInv'
  OBVIOUS
<1>0. Shape /\ "md" \in Handlers
  BY DEF SwitchInv, Handlers
<1>1. CASE LocalHandler \/ \E t \in Handlers : PaperHandler(t) \/ StageHandler(t) \/ RouteHandler(t)
  BY <1>0, <1>1, HandlerBars DEF LocalHandler, PaperHandler, StageHandler, RouteHandler
<1>2. CASE \/ LocalCallback \/ \E t \in Handlers : PaperCallback(t)
           \/ StageCallback \/ RouteCallback \/ Audit \/ UNCHANGED vars
           \/ \E k \in DOMAIN orders, q \in 1..conduct.maxQty, price \in conduct.prices :
                VenueFills(k, q, price)
  <2>1. UNCHANGED <<task, minute, openBar, chosen, conduct, ended>>
    BY <1>2 DEF LocalCallback, PaperCallback, StageCallback, RouteCallback, Audit, vars,
                VenueFills, Book, OnFill, ReadBack, SubsUpdate, StageDone, Count, session, history
  <2> QED
    BY <2>1, BarsFollow DEF Active
<1>3. CASE End \/ Restart
  <2>1. ended'
    BY <1>3 DEF End, Restart, CallersInv, Running
  <2> QED
    BY <2>1 DEF BarsInv
<1> QED
  BY <1>0, <1>1, <1>2, <1>3, TickBars, FlushBars DEF Next

LEMMA InitBars == Init => BarsInv
BY IdleIsNotActive DEF Init, BarsInv, Bars, Active, Handlers, Minutes

LEMMA BarsInvariant == Spec => []BarsInv
<1> QED
  BY InitBars, BarsStep, CallersInvariant, TypedInvariant, SwitchInvariant, PTL DEF Spec

-----------------------------------------------------------------------------
(* What a key stands for while the first process lives: only one handler   *)
(* gets past its claim, registers it and shows it to EMSX.                 *)
Held    == {"register", "submit", "callback"}
Decided == {"validate", "rate", "claim"} \cup Held

KeysClaimed ==
  /\ DOMAIN working \cup known \subseteq claimed
  /\ \A i \in 1..Len(news) : news[i].key \in known

Hold(t) ==
  LET k == task[t].key
      p == task[t].phase
  IN  /\ p \in Decided => k.qty > 0 /\ k.bar = task[t].bar
      /\ p \in Held => k \in claimed /\ k \notin known
      /\ p = "register" => k \notin DOMAIN working
      /\ p \in {"submit", "callback"} => k \in DOMAIN working /\ working[k] = k.qty
      /\ p = "callback" => call[t].phase # "idle" /\ call[t].key = k /\ call[t].qty = k.qty

HeldApart ==
  \A t, s \in Handlers :
    t # s /\ task[t].phase \in Held /\ task[s].phase \in Held => task[t].key # task[s].key

ClaimInv == ~ended => KeysClaimed /\ (\A t \in Handlers : Hold(t)) /\ HeldApart

(* A step leaves a key alone.                                              *)
LeavesAlone(k) ==
  /\ k \in DOMAIN working' <=> k \in DOMAIN working
  /\ k \in DOMAIN working => working'[k] = working[k]
  /\ k \in known' => k \in known

LEMMA HoldStays ==
  ASSUME NEW t \in Handlers, Hold(t), task'[t] = task[t], claimed \subseteq claimed',
         task[t].phase \in Held => LeavesAlone(task[t].key),
         \/ call'[t] = call[t]
         \/ /\ call[t].phase # "idle" => call'[t].phase # "idle"
            /\ call'[t].key = call[t].key /\ call'[t].qty = call[t].qty
  PROVE  Hold(t)'
BY DEF Hold, Held, LeavesAlone

(* One handler moves, over its own key.                                    *)
LEMMA ClaimMoves ==
  ASSUME ClaimInv, ~ended, NEW t \in Handlers, KeysClaimed', Hold(t)',
         claimed \subseteq claimed',
         \A s \in Handlers \ {t} : task'[s] = task[s] /\ call'[s] = call[s],
         \A k : LeavesAlone(k) \/ (task[t].phase \in Held /\ k = task[t].key),
         task'[t].phase \in Held =>
            \/ task[t].phase \in Held /\ task'[t].key = task[t].key
            \/ task'[t].key \notin claimed
  PROVE  ClaimInv'
<1>1. ASSUME NEW s \in Handlers \ {t} PROVE Hold(s)'
  <2>1. task[s].phase \in Held => LeavesAlone(task[s].key)
    BY DEF ClaimInv, HeldApart
  <2> QED
    BY <2>1, HoldStays DEF ClaimInv
<1>2. HeldApart'
  <2>1. \A s \in Handlers \ {t} :
          /\ task'[s] = task[s]
          /\ task[s].phase \in Held => task[s].key \in claimed
    BY DEF ClaimInv, Hold
  <2>2. ASSUME NEW s \in Handlers \ {t}, task'[t].phase \in Held, task'[s].phase \in Held
        PROVE  task'[t].key # task'[s].key
    BY <2>1, <2>2 DEF ClaimInv, HeldApart
  <2>3. ASSUME NEW r \in Handlers \ {t}, NEW s \in Handlers \ {t}, r # s,
               task'[r].phase \in Held, task'[s].phase \in Held
        PROVE  task'[r].key # task'[s].key
    BY <2>1, <2>3 DEF ClaimInv, HeldApart
  <2> QED
    BY <2>2, <2>3 DEF HeldApart
<1> QED
  BY <1>1, <1>2 DEF ClaimInv

(* No handler moves, and no key that one holds is touched.                 *)
LEMMA ClaimStays ==
  ASSUME ClaimInv, UNCHANGED <<task, claimed>>, ended => ended', ClaimInv => KeysClaimed' \/ ended',
         \A t \in Handlers :
           /\ task[t].phase \in Held /\ ~ended => LeavesAlone(task[t].key)
           /\ \/ call'[t] = call[t]
              \/ /\ call[t].phase # "idle" => call'[t].phase # "idle"
                 /\ call'[t].key = call[t].key /\ call'[t].qty = call[t].qty
  PROVE  ClaimInv'
<1> SUFFICES ASSUME ~ended, ~ended' PROVE KeysClaimed' /\ (\A t \in Handlers : Hold(t)') /\ HeldApart'
  BY DEF ClaimInv
<1>1. ASSUME NEW t \in Handlers PROVE Hold(t)'
  BY HoldStays DEF ClaimInv
<1>2. HeldApart'
  BY DEF ClaimInv, HeldApart
<1> QED
  BY <1>1, <1>2

LEMMA FreeHolds ==
  ASSUME NEW t \in Handlers,
         task'[t].phase \notin Decided
           \/ (task'[t].phase \notin Held /\ task'[t].key.qty > 0 /\ task'[t].key.bar = task'[t].bar)
  PROVE  Hold(t)'
BY DEF Hold, Decided, Held

LEMMA IdleIsFree == Idle.phase \notin Decided /\ Idle.phase \notin Held
BY DEF Idle, Decided, Held

(* A process that ended is not the first any more.                         *)
LEMMA EndedStays == ended /\ [Next]_vars => ended'
BY ZenonT(60) DEF Next, vars, LocalHandler, LocalCallback, PaperHandler, PaperCallback, StageHandler,
       RouteHandler, StageCallback, RouteCallback, Decide, OnTarget, Validate, TryAcquire,
       Claim, Register, Submit, SubmitFails, SubmitUnmarked, SubmitPaper, PaperReturns, Book,
       OnFill, ReadBack,
       SubsUpdate, StageDone, Count, VenueFills, OnTick, StopWaiting, End, Restart, Audit,
       CallSubmit, history

LEMMA DecideClaims ==
  ASSUME Typed, Shape, CallersInv, ClaimInv, ~ended, NEW t \in Handlers, Decide(t)
  PROVE  ClaimInv'
<1>0. Hold(t) /\ KeysClaimed /\ call' = call /\ Handlers \subseteq Threads
  BY HandlerMoves DEF ClaimInv, Threads
<1>1. CASE Validate(t) \/ TryAcquire(t) \/ Claim(t)
  <2>1. /\ UNCHANGED <<working, known, news>> /\ claimed \subseteq claimed'
        /\ \A s \in Handlers \ {t} : task'[s] = task[s]
    BY <1>1, Advances
  <2>2. KeysClaimed' /\ \A k : LeavesAlone(k)
    BY <1>0, <2>1 DEF KeysClaimed, LeavesAlone
  <2>3. CASE Finish(t)
    <3>1. task'[t] = Idle
      BY <2>3, Ends
    <3> QED
      BY <1>0, <2>1, <2>2, <3>1, IdleIsFree, FreeHolds, ClaimMoves
  <2>4. CASE /\ task'[t].bar = task[t].bar /\ task'[t].key = task[t].key
             /\ task[t].phase \in {"validate", "rate"} /\ task'[t].phase \in {"rate", "claim"}
    <3>1. task'[t].phase \notin Held /\ task[t].phase \in Decided
      BY <2>4 DEF Held, Decided
    <3>2. task'[t].key.qty > 0 /\ task'[t].key.bar = task'[t].bar
      BY <1>0, <2>4, <3>1 DEF Hold
    <3> QED
      BY <1>0, <2>1, <2>2, <3>1, <3>2, FreeHolds, ClaimMoves
  <2>5. CASE /\ task'[t].bar = task[t].bar /\ task'[t].key = task[t].key
             /\ task[t].phase = "claim" /\ task'[t].phase = "register"
             /\ task[t].key \notin claimed /\ claimed' = claimed \cup {task[t].key}
    <3>1. task'[t].key.qty > 0 /\ task'[t].key.bar = task'[t].bar
      BY <1>0, <2>5 DEF Hold, Decided
    <3>2. /\ task'[t].key \in claimed' /\ task'[t].key \notin known'
          /\ task'[t].key \notin DOMAIN working'
      BY <1>0, <2>1, <2>5 DEF KeysClaimed
    <3>3. Hold(t)'
      BY <2>5, <3>1, <3>2 DEF Hold
    <3> QED
      BY <1>0, <2>1, <2>2, <2>5, <3>3, ClaimMoves
  <2> QED
    BY <1>1, <2>3, <2>4, <2>5, Advances
<1>2. CASE Register(t)
  <2> DEFINE k == task[t].key
  <2>1. /\ UNCHANGED <<claimed, known, news>>
        /\ task[t].phase = "register" /\ task'[t].phase = "submit"
        /\ task'[t].bar = task[t].bar /\ task'[t].key = k
        /\ \A s \in Handlers \ {t} : task'[s] = task[s]
        /\ k \in Keys /\ k.qty \in Int /\ working' = Upsert(k, k.qty)
    BY <1>2, Registers
  <2>2. k.qty > 0 /\ k.bar = task[t].bar /\ k \in claimed /\ k \notin known
    BY <1>0, <2>1 DEF Hold, Decided, Held
  <2> HIDE DEF k
  <2>3. /\ \A j : j # k => /\ j \in DOMAIN working' <=> j \in DOMAIN working
                           /\ j \in DOMAIN working => working'[j] = working[j]
        /\ DOMAIN working' = DOMAIN working \cup {k} /\ working'[k] = k.qty
    BY <2>1, <2>2, UpsertTyped DEF Typed
  <2>4. KeysClaimed' /\ \A j : j # k => LeavesAlone(j)
    BY <1>0, <2>1, <2>2, <2>3 DEF KeysClaimed, LeavesAlone
  <2>5. Hold(t)'
    BY <2>1, <2>2, <2>3 DEF Hold
  <2>6. task[t].phase \in Held
    BY <2>1 DEF Held
  <2> QED
    BY <1>0, <2>1, <2>4, <2>5, <2>6, ClaimMoves DEF k
<1>3. CASE OnTarget(t)
  <2>1. /\ UNCHANGED <<working, claimed, known, news>>
        /\ \A s \in Handlers \ {t} : task'[s] = task[s]
        /\ \/ Finish(t)
           \/ \E k \in Keys : /\ k.qty > 0 /\ k.bar = task[t].bar
                              /\ task'[t].phase = "validate" /\ task'[t].bar = task[t].bar
                              /\ task'[t].key = k
    BY <1>3, Targets
  <2>2. KeysClaimed' /\ \A k : LeavesAlone(k)
    BY <1>0, <2>1 DEF KeysClaimed, LeavesAlone
  <2>3. task'[t].phase \notin Held /\ Hold(t)'
    <3>1. CASE Finish(t)
      BY <3>1, Ends, IdleIsFree, FreeHolds
    <3>2. CASE ~Finish(t)
      BY <2>1, <3>2, FreeHolds DEF Held
    <3> QED
      BY <3>1, <3>2
  <2> QED
    BY <1>0, <2>1, <2>2, <2>3, ClaimMoves
<1> QED
  BY <1>1, <1>2, <1>3 DEF Decide

LEMMA SubmitClaims ==
  ASSUME Typed, Shape, CallersInv, ClaimInv, ~ended, NEW t \in Handlers,
         Submit(t) \/ SubmitFails(t) \/ SubmitPaper(t)
  PROVE  ClaimInv'
<1> DEFINE k == task[t].key
<1>0. Hold(t) /\ KeysClaimed /\ Handlers \subseteq Threads
  BY DEF ClaimInv, Threads
<1>1. /\ UNCHANGED <<working, claimed, news>> /\ task[t].phase = "submit" /\ k \in Keys
      /\ \A s \in Handlers \ {t} : task'[s] = task[s]
      /\ \/ Finish(t) /\ UNCHANGED call
         \/ /\ task'[t].phase = "callback" /\ task'[t].bar = task[t].bar /\ task'[t].key = k
            /\ UNCHANGED <<openBar, known, orders>> /\ SubmitPaper(t)
  BY Submits
<1>2. known' = known \/ known' = known \cup {k}
  BY DEF Submit, SubmitFails, SubmitPaper
<1>3. task[t].phase \in Held /\ k \in claimed /\ k.qty > 0 /\ k.bar = task[t].bar
      /\ k \notin known /\ k \in DOMAIN working /\ working[k] = k.qty
  BY <1>0, <1>1 DEF Held, Decided, Hold
<1>4. KeysClaimed' /\ \A j : j # k => LeavesAlone(j)
  BY <1>0, <1>1, <1>2, <1>3 DEF KeysClaimed, LeavesAlone
<1> HIDE DEF k
<1>5. CASE Finish(t) /\ UNCHANGED call
  <2>1. task'[t] = Idle
    BY <1>5, Ends
  <2>2. Hold(t)' /\ task'[t].phase \notin Held
    BY <2>1, IdleIsFree, FreeHolds
  <2> QED
    BY <1>0, <1>1, <1>3, <1>4, <1>5, <2>2, ClaimMoves DEF k
<1>6. CASE /\ task'[t].phase = "callback" /\ task'[t].bar = task[t].bar /\ task'[t].key = k
           /\ UNCHANGED known /\ SubmitPaper(t)
  <2>1. /\ call'[t].phase = "fill" /\ call'[t].key = k /\ call'[t].qty = k.qty
        /\ \A s \in Threads \ {t} : call'[s] = call[s]
    BY <1>6, SubmitPaperIs DEF k
  <2>2. Hold(t)'
    BY <1>1, <1>3, <1>6, <2>1 DEF Hold
  <2> QED
    BY <1>0, <1>1, <1>3, <1>4, <1>6, <2>1, <2>2, ClaimMoves DEF k
<1> QED
  BY <1>1, <1>5, <1>6

(* A key leaves the working book and nothing else changes.                 *)
LEMMA KeyLeaves ==
  ASSUME Typed, NEW k \in Keys, NEW n \in Nat, n = 0, working' = Upsert(k, n)
  PROVE  /\ \A j : j # k => /\ j \in DOMAIN working' <=> j \in DOMAIN working
                            /\ j \in DOMAIN working => working'[j] = working[j]
         /\ DOMAIN working' = DOMAIN working \ {k}
<1>1. WorkingTyped /\ n \in Int /\ n <= 0
  BY DEF Typed
<1> QED
  BY <1>1, UpsertTyped

LEMMA UnmarkedClaims ==
  ASSUME Typed, Shape, CallersInv, ClaimInv, ~ended, NEW t \in Handlers, SubmitUnmarked(t)
  PROVE  ClaimInv'
<1> DEFINE k == task[t].key
<1>1. /\ UNCHANGED <<claimed, known, news, call>> /\ task[t].phase = "submit"
      /\ task'[t] = Idle /\ \A s \in Handlers \ {t} : task'[s] = task[s]
      /\ k \in Keys /\ \E n \in Nat : n = 0 /\ working' = Upsert(k, n)
  BY Unmarks
<1> HIDE DEF k
<1>2. /\ \A j : j # k => /\ j \in DOMAIN working' <=> j \in DOMAIN working
                         /\ j \in DOMAIN working => working'[j] = working[j]
      /\ DOMAIN working' = DOMAIN working \ {k}
  BY <1>1, KeyLeaves
<1>3. KeysClaimed' /\ \A j : j # k => LeavesAlone(j)
  BY <1>1, <1>2 DEF KeysClaimed, LeavesAlone, ClaimInv
<1>4. task[t].phase \in Held /\ Handlers \subseteq Threads
  BY <1>1 DEF Held, Threads
<1>5. Hold(t)' /\ task'[t].phase \notin Held
  BY <1>1, IdleIsFree, FreeHolds
<1> QED
  BY <1>1, <1>3, <1>4, <1>5, ClaimMoves DEF k

LEMMA ReturnClaims ==
  ASSUME Typed, Shape, CallersInv, ClaimInv, ~ended, NEW t \in Handlers, PaperReturns(t)
  PROVE  ClaimInv'
<1> DEFINE k == task[t].key
<1>1. /\ UNCHANGED <<claimed, known, news>> /\ task[t].phase = "callback" /\ Finish(t)
      /\ \A s \in Threads \ {t} : call'[s] = call[s]
      /\ \A s \in Handlers \ {t} : task'[s] = task[s]
      /\ working' = Upsert(k, 0) /\ k \in Keys
  BY Returns
<1> HIDE DEF k
<1>2. /\ \A j : j # k => /\ j \in DOMAIN working' <=> j \in DOMAIN working
                         /\ j \in DOMAIN working => working'[j] = working[j]
      /\ DOMAIN working' = DOMAIN working \ {k}
  <2>1. PICK leaves \in Int : leaves = 0
    OBVIOUS
  <2>2. WorkingTyped /\ k \in Keys /\ working' = Upsert(k, leaves) /\ leaves <= 0
    BY <1>1, <2>1 DEF Typed
  <2> QED
    BY <2>2, UpsertTyped
<1>3. KeysClaimed' /\ \A j : j # k => LeavesAlone(j)
  BY <1>1, <1>2 DEF KeysClaimed, LeavesAlone, ClaimInv
<1>4. task[t].phase \in Held /\ Handlers \subseteq Threads
  BY <1>1 DEF Held, Threads
<1>5. task'[t] = Idle
  BY <1>1, Ends
<1>6. Hold(t)' /\ task'[t].phase \notin Held
  BY <1>5, IdleIsFree, FreeHolds
<1> QED
  BY <1>1, <1>3, <1>4, <1>6, ClaimMoves DEF k

LEMMA UpdateClaims ==
  ASSUME Typed, CallersInv, ClaimInv, ~ended, SubsUpdate
  PROVE  ClaimInv'
<1> DEFINE k == Head(news).key
           leaves == Head(news).leaves
<1>1. /\ UNCHANGED <<task, claimed, known, ended>> /\ news' = Tail(news)
      /\ working' = Upsert(k, leaves) /\ KeysClaimed
  BY DEF SubsUpdate, session, history, ClaimInv
<1>2. /\ news \in Seq(News) /\ news # <<>> /\ k \in Keys /\ leaves \in Int
      /\ \A t \in Handlers : call'[t] = call[t]
  BY SubsUpdateTyped DEF Typed, VenueTyped
<1>3. /\ Len(news) \in Nat /\ Len(news) # 0 /\ Len(Tail(news)) = Len(news) - 1 /\ Head(news) = news[1]
      /\ \A i \in 1..(Len(news) - 1) : Tail(news)[i] = news[i + 1]
  BY <1>2, HeadTailProperties, LenProperties, EmptySeq
<1>4. k \in known
  BY <1>1, <1>3 DEF KeysClaimed
<1> HIDE DEF k, leaves
<1>5. \A j : j # k => /\ j \in DOMAIN working' <=> j \in DOMAIN working
                      /\ j \in DOMAIN working => working'[j] = working[j]
  BY <1>1, <1>2, UpsertTyped DEF Typed
<1>6. \A j : j # k => LeavesAlone(j)
  BY <1>1, <1>5 DEF LeavesAlone
<1>7. KeysClaimed'
  <2>1. \A i \in 1..Len(news') : news'[i].key \in known
    <3>1. ASSUME NEW i \in 1..Len(news') PROVE news'[i] = news[i + 1] /\ i + 1 \in 1..Len(news)
      BY <1>1, <1>3, <3>1
    <3> QED
      BY <1>1, <3>1 DEF KeysClaimed
  <2>2. DOMAIN working' \subseteq claimed
    BY <1>1, <1>4, <1>5 DEF KeysClaimed
  <2> QED
    BY <1>1, <2>1, <2>2 DEF KeysClaimed
<1>8. \A t \in Handlers : task[t].phase \in Held => LeavesAlone(task[t].key)
  BY <1>4, <1>6 DEF ClaimInv, Hold
<1> QED
  BY <1>1, <1>2, <1>7, <1>8, ClaimStays

LEMMA VenueClaims ==
  ASSUME Typed, CallersInv, ClaimInv, ~ended, NEW k \in DOMAIN orders, NEW q,
         NEW price \in conduct.prices, VenueFills(k, q, price)
  PROVE  ClaimInv'
<1>1. /\ UNCHANGED <<task, claimed, known, working, call, ended>> /\ k \in known /\ KeysClaimed
  BY DEF VenueFills, session, risk, history, CallersInv, ClaimInv
<1> DEFINE c == [NoFill EXCEPT !.phase = "fill", !.key = k, !.qty = q, !.price = price,
                               !.leaves = orders[k] - q]
<1>2. news' = Append(news, c) /\ c.key = k
  BY <1>1 DEF VenueFills, NoFill
<1> HIDE DEF c
<1>3. news \in Seq(News)
  BY DEF Typed, VenueTyped
<1>4. /\ Len(news) \in Nat /\ Len(news') = Len(news) + 1 /\ news'[Len(news) + 1] = c
      /\ \A i \in 1..Len(news) : news'[i] = news[i]
  <2>1. news \in Seq(News \cup {c}) /\ c \in News \cup {c}
    BY <1>3
  <2> QED
    BY <1>2, <2>1, AppendProperties, LenProperties
<1>5. KeysClaimed'
  <2>1. ASSUME NEW i \in 1..Len(news') PROVE news'[i].key \in known
    <3>1. i \in 1..Len(news) \/ i = Len(news) + 1
      BY <1>4
    <3> QED
      BY <1>1, <1>2, <1>4, <3>1 DEF KeysClaimed
  <2> QED
    BY <1>1, <2>1 DEF KeysClaimed
<1> QED
  BY <1>1, <1>5, ClaimStays DEF LeavesAlone

LEMMA BarClaims ==
  ASSUME Typed, Shape, CallersInv, ClaimInv, ~ended, StopWaiting \/ \E m \in Minutes : OnTick(m)
  PROVE  ClaimInv'
<1>1. /\ UNCHANGED <<working, known, claimed, news, call, ended>> /\ KeysClaimed
  BY DEF StopWaiting, OnTick, risk, venue, history, ClaimInv
<1>2. KeysClaimed' /\ \A k : LeavesAlone(k)
  BY <1>1 DEF KeysClaimed, LeavesAlone
<1>3. CASE UNCHANGED task
  BY <1>1, <1>2, <1>3, ClaimStays
<1>4. CASE ~UNCHANGED task
  <2>1. PICK t \in Handlers : task' = [task EXCEPT ![t] = [Idle EXCEPT !.phase = "bar", !.bar = openBar]]
    BY <1>4 DEF StopWaiting, OnTick, Handlers
  <2>2. task'[t].phase = "bar" /\ \A s \in Handlers \ {t} : task'[s] = task[s]
    BY <2>1, NewBar
  <2>3. task'[t].phase \notin Decided /\ task'[t].phase \notin Held
    BY <2>2 DEF Decided, Held
  <2> QED
    BY <1>1, <1>2, <2>2, <2>3, FreeHolds, ClaimMoves
<1> QED
  BY <1>3, <1>4

LEMMA ClaimStep == ClaimInv /\ CallersInv /\ Typed /\ SwitchInv /\ [Next]_vars => ClaimInv'
<1> SUFFICES ASSUME ClaimInv, CallersInv, Typed, SwitchInv, [Next]_vars PROVE ClaimInv'
  OBVIOUS
<1>0. Shape /\ "md" \in Handlers /\ "subs" \in Threads /\ Handlers \subseteq Threads
  BY DEF SwitchInv, Handlers, Threads
<1>1. CASE ended \/ End
  <2>1. ended'
    BY <1>1, EndedStays DEF End
  <2> QED
    BY <2>1 DEF ClaimInv
<1> SUFFICES ASSUME ~ended, ~End PROVE ClaimInv'
  BY <1>1
<1>2. CASE LocalHandler \/ \E t \in Handlers : PaperHandler(t) \/ StageHandler(t) \/ RouteHandler(t)
  BY <1>0, <1>2, DecideClaims, SubmitClaims, UnmarkedClaims, ReturnClaims
     DEF LocalHandler, PaperHandler, StageHandler, RouteHandler
<1>3. ASSUME NEW t \in Threads, Book(t) PROVE ClaimInv'
  <2>1. /\ UNCHANGED <<task, working, claimed, known, news, ended>>
        /\ call[t].phase # "idle" /\ call'[t].phase # "idle"
        /\ call'[t].key = call[t].key /\ call'[t].qty = call[t].qty
        /\ \A s \in Threads \ {t} : call'[s] = call[s]
    BY <1>3, BookMoves DEF session, risk, history
  <2>2. KeysClaimed' /\ \A k : LeavesAlone(k)
    BY <2>1 DEF ClaimInv, KeysClaimed, LeavesAlone
  <2> QED
    BY <1>0, <2>1, <2>2, ClaimStays
<1>4. CASE StageDone \/ Count
  <2>1. FillDone /\ UNCHANGED <<books, session, working, claimed, orders, news, sent, ended, conduct>>
    BY <1>4 DEF StageDone, Count, risk, history
  <2>2. /\ UNCHANGED <<task, working, claimed, known, news, ended>>
        /\ \A s \in Handlers : call'[s] = call[s]
    BY <2>1, FillDoneTyped DEF session
  <2>3. KeysClaimed' /\ \A k : LeavesAlone(k)
    BY <2>2 DEF ClaimInv, KeysClaimed, LeavesAlone
  <2> QED
    BY <2>2, <2>3, ClaimStays
<1>5. CASE \/ LocalCallback \/ \E t \in Handlers : PaperCallback(t)
           \/ StageCallback \/ RouteCallback
  BY <1>0, <1>3, <1>4, <1>5, UpdateClaims DEF LocalCallback, PaperCallback, StageCallback, RouteCallback
<1>6. CASE Audit \/ UNCHANGED vars
  <2>1. UNCHANGED <<task, working, claimed, known, news, call, ended>>
    BY <1>6 DEF Audit, vars, session, risk, venue, history
  <2>2. KeysClaimed' /\ \A k : LeavesAlone(k)
    BY <2>1 DEF ClaimInv, KeysClaimed, LeavesAlone
  <2> QED
    BY <2>1, <2>2, ClaimStays
<1>7. CASE Restart
  BY <1>7 DEF Restart, CallersInv, Running
<1>8. ASSUME NEW k \in DOMAIN orders, NEW q, NEW price \in conduct.prices, VenueFills(k, q, price)
      PROVE  ClaimInv'
  BY <1>8, VenueClaims
<1>9. CASE StopWaiting \/ \E m \in Minutes : OnTick(m)
  BY <1>0, <1>9, BarClaims
<1> QED
  BY <1>2, <1>5, <1>6, <1>7, <1>8, <1>9 DEF Next

LEMMA InitClaims == Init => ClaimInv
<1> SUFFICES ASSUME Init PROVE ClaimInv
  OBVIOUS
<1>1. \A t \in Handlers : task[t].phase \notin Decided /\ task[t].phase \notin Held
  BY IdleIsFree DEF Init
<1>2. news = <<>> /\ known = {} /\ DOMAIN working = {}
  BY DEF Init, Empty
<1>3. KeysClaimed
  BY <1>2 DEF KeysClaimed
<1>4. \A t \in Handlers : Hold(t)
  BY <1>1 DEF Hold, Decided, Held
<1> QED
  BY <1>1, <1>3, <1>4 DEF ClaimInv, HeldApart

LEMMA ClaimInvariant == Spec => []ClaimInv
<1> QED
  BY InitClaims, ClaimStep, CallersInvariant, TypedInvariant, SwitchInvariant, PTL DEF Spec

-----------------------------------------------------------------------------
(* What is left of an order counts down along the fills on their way, from *)
(* what the working book shows to what EMSX has.                           *)
IsCount(h, s, k, first, last) ==
  /\ h \in [0..Len(s) -> Nat] /\ h[0] = first /\ h[Len(s)] = last
  /\ \A i \in 1..Len(s) :
       IF s[i].key = k THEN h[i] = s[i].leaves /\ h[i] = h[i - 1] - s[i].qty
                       ELSE h[i] = h[i - 1]

LeavesInv ==
  ~ended => \A k \in known : \E h : IsCount(h, news, k, At(working, k), orders[k])

Longer(h, s, n) == [i \in 0..(Len(s) + 1) |-> IF i <= Len(s) THEN h[i] ELSE n]
Shorter(h, s)   == [i \in 0..(Len(s) - 1) |-> h[i + 1]]
Steady(s, n)    == [i \in 0..Len(s) |-> n]

LEMMA CountGoesOn ==
  ASSUME NEW S, NEW s \in Seq(S), NEW c \in S, NEW k, NEW first, NEW last, NEW h,
         IsCount(h, s, k, first, last), NEW n \in Nat,
         IF c.key = k THEN n = c.leaves /\ n = last - c.qty ELSE n = last
  PROVE  IsCount(Longer(h, s, n), Append(s, c), k, first, n)
<1> DEFINE l == Len(s)
           r == Append(s, c)
           g == Longer(h, s, n)
<1>1. /\ l \in Nat /\ Len(r) = l + 1 /\ r[l + 1] = c
      /\ \A i \in 1..l : r[i] = s[i]
  BY AppendProperties, LenProperties
<1>2. /\ h \in [0..l -> Nat] /\ h[0] = first /\ h[l] = last
      /\ \A i \in 1..l : IF s[i].key = k THEN h[i] = s[i].leaves /\ h[i] = h[i - 1] - s[i].qty
                                         ELSE h[i] = h[i - 1]
  BY DEF IsCount
<1>3. /\ g \in [0..(l + 1) -> Nat] /\ g[l + 1] = n /\ \A i \in 0..l : g[i] = h[i]
  BY <1>1, <1>2 DEF Longer
<1> HIDE DEF l, r, g
<1>4. ASSUME NEW i \in 1..(l + 1)
      PROVE  IF r[i].key = k THEN g[i] = r[i].leaves /\ g[i] = g[i - 1] - r[i].qty
                             ELSE g[i] = g[i - 1]
  <2>1. CASE i \in 1..l
    <3>1. g[i] = h[i] /\ g[i - 1] = h[i - 1] /\ r[i] = s[i]
      BY <1>1, <1>3, <2>1
    <3> QED
      BY <1>2, <2>1, <3>1
  <2>2. CASE i = l + 1
    <3>1. g[i] = n /\ g[i - 1] = last /\ r[i] = c
      BY <1>1, <1>2, <1>3, <2>2
    <3> QED
      BY <3>1
  <2> QED
    BY <1>1, <2>1, <2>2
<1>5. g[0] = first
  BY <1>1, <1>2, <1>3
<1> QED
  BY <1>1, <1>3, <1>4, <1>5 DEF IsCount, r, g

LEMMA CountLosesFirst ==
  ASSUME NEW S, NEW s \in Seq(S), s # <<>>, NEW k, NEW first, NEW last, NEW h,
         IsCount(h, s, k, first, last)
  PROVE  /\ IsCount(Shorter(h, s), Tail(s), k, h[1], last) /\ h[1] \in Nat /\ first \in Nat
         /\ IF Head(s).key = k THEN h[1] = Head(s).leaves /\ h[1] = first - Head(s).qty
                               ELSE h[1] = first
<1> DEFINE l == Len(s)
           r == Tail(s)
           g == Shorter(h, s)
<1>1. /\ l \in Nat /\ l # 0 /\ Len(r) = l - 1 /\ Head(s) = s[1]
      /\ \A i \in 1..(l - 1) : r[i] = s[i + 1]
  BY HeadTailProperties, LenProperties, EmptySeq
<1>2. /\ h \in [0..l -> Nat] /\ h[0] = first /\ h[l] = last
      /\ \A i \in 1..l : IF s[i].key = k THEN h[i] = s[i].leaves /\ h[i] = h[i - 1] - s[i].qty
                                         ELSE h[i] = h[i - 1]
  BY DEF IsCount
<1>3. g = [i \in 0..(l - 1) |-> h[i + 1]]
  BY DEF Shorter
<1> HIDE DEF l, r, g
<1>4. /\ g \in [0..(l - 1) -> Nat] /\ g[0] = h[1] /\ g[l - 1] = last
      /\ \A i \in 0..(l - 1) : g[i] = h[i + 1]
  BY <1>1, <1>2, <1>3
<1>5. ASSUME NEW i \in 1..(l - 1)
      PROVE  IF r[i].key = k THEN g[i] = r[i].leaves /\ g[i] = g[i - 1] - r[i].qty
                             ELSE g[i] = g[i - 1]
  <2>1. i + 1 \in 1..l /\ (i + 1) - 1 = i /\ (i - 1) + 1 = i /\ i - 1 \in 0..(l - 1) /\ i \in 0..(l - 1)
    BY <1>1
  <2>2. g[i] = h[i + 1] /\ g[i - 1] = h[i] /\ r[i] = s[i + 1]
    BY <1>1, <1>4, <2>1
  <2>3. IF s[i + 1].key = k THEN h[i + 1] = s[i + 1].leaves /\ h[i + 1] = h[i] - s[i + 1].qty
                            ELSE h[i + 1] = h[i]
    BY <1>2, <2>1
  <2> QED
    BY <2>2, <2>3
<1>6. 1 \in 1..l /\ 1 - 1 = 0
  BY <1>1
<1>7. IF Head(s).key = k THEN h[1] = Head(s).leaves /\ h[1] = first - Head(s).qty ELSE h[1] = first
  BY <1>1, <1>2, <1>6
<1>8. h[1] \in Nat /\ first \in Nat
  BY <1>1, <1>2
<1> QED
  BY <1>1, <1>4, <1>5, <1>7, <1>8 DEF IsCount, r, g

LEMMA CountRests ==
  ASSUME NEW S, NEW s \in Seq(S), NEW k, NEW n \in Nat, \A i \in 1..Len(s) : s[i].key # k
  PROVE  IsCount(Steady(s, n), s, k, n, n)
<1>1. Len(s) \in Nat
  BY LenProperties
<1> QED
  BY <1>1 DEF IsCount, Steady

LEMMA LeavesStay ==
  ASSUME LeavesInv, UNCHANGED <<known, news, orders>>, ended => ended',
         \A k : ~ended /\ k \in known => At(working', k) = At(working, k)
  PROVE  LeavesInv'
BY DEF LeavesInv

LEMMA HandlerLeaves ==
  ASSUME Typed, Shape, CallersInv, ClaimInv, LeavesInv, ~ended, NEW t \in Handlers,
         Decide(t) \/ SubmitFails(t) \/ SubmitUnmarked(t) \/ SubmitPaper(t) \/ PaperReturns(t)
  PROVE  LeavesInv'
<1>0. Hold(t)
  BY DEF ClaimInv
<1>1. CASE UNCHANGED <<known, news, orders, working, ended>>
  BY <1>1, LeavesStay
<1>2. CASE Validate(t) \/ TryAcquire(t) \/ Claim(t)
  BY <1>1, <1>2, Advances
<1>3. CASE OnTarget(t)
  BY <1>1, <1>3, Targets
<1>4. CASE SubmitFails(t) \/ SubmitPaper(t)
  BY <1>1, <1>4 DEF SubmitFails, SubmitPaper, venue, risk, CallSubmit
<1> DEFINE k == task[t].key
<1>5. ASSUME NEW n \in Int, working' = Upsert(k, n), k \in Keys, k \notin known,
             UNCHANGED <<known, news, orders, ended>>
      PROVE  LeavesInv'
  <2> HIDE DEF k
  <2>1. \A j : j # k => /\ j \in DOMAIN working' <=> j \in DOMAIN working
                        /\ j \in DOMAIN working => working'[j] = working[j]
    BY <1>5, UpsertTyped DEF Typed
  <2>2. \A j : j # k => At(working', j) = At(working, j)
    BY <2>1 DEF At
  <2> QED
    BY <1>5, <2>2, LeavesStay
<1>6. CASE Register(t)
  <2>1. k \notin known
    BY <1>0, <1>6, Registers DEF Hold, Held
  <2> QED
    BY <1>5, <1>6, <2>1, Registers
<1>7. CASE PaperReturns(t)
  <2>1. k \notin known
    BY <1>0, <1>7, Returns DEF Hold, Held
  <2>2. PICK n \in Int : n = 0
    OBVIOUS
  <2>3. working' = Upsert(k, n) /\ k \in Keys /\ UNCHANGED <<known, news, orders, ended>>
    BY <1>7, <2>2, Returns
  <2> QED
    BY <1>5, <2>1, <2>3
<1>8. CASE SubmitUnmarked(t)
  <2>1. k \notin known
    BY <1>0, <1>8, Unmarks DEF Hold, Held
  <2>2. PICK n \in Nat : working' = Upsert(k, n) /\ k \in Keys /\ UNCHANGED <<known, news, orders, ended>>
    BY <1>8, Unmarks
  <2>3. n \in Int
    OBVIOUS
  <2> QED
    BY <1>5, <2>1, <2>2, <2>3
<1> QED
  BY <1>2, <1>3, <1>4, <1>6, <1>7, <1>8 DEF Decide

LEMMA SubmitLeaves ==
  ASSUME Typed, Shape, CallersInv, ClaimInv, LeavesInv, ~ended, NEW t \in Handlers, Submit(t)
  PROVE  LeavesInv'
<1> DEFINE k == task[t].key
<1>1. /\ UNCHANGED <<working, news, ended>> /\ known' = known \cup {k} /\ task[t].phase = "submit"
      /\ orders' = [x \in DOMAIN orders \cup {k} |-> IF x = k THEN k.qty ELSE orders[x]]
      /\ known = DOMAIN orders
  BY DEF Submit, CallSubmit, risk, CallersInv
<1>2. /\ k \in Keys /\ k.qty \in Int /\ k.qty > 0 /\ k \notin known /\ At(working, k) = k.qty
      /\ \A i \in 1..Len(news) : news[i].key \in known
  <2>1. Hold(t) /\ KeysClaimed /\ k \in Keys
    BY Submits DEF ClaimInv
  <2> QED
    BY <1>1, <2>1, KeyTyped DEF Hold, Held, Decided, At, KeysClaimed
<1> HIDE DEF k
<1>3. orders'[k] = k.qty /\ \A j \in known : orders'[j] = orders[j]
  BY <1>1, <1>2
<1>4. IsCount(Steady(news, k.qty), news, k, k.qty, k.qty)
  <2>1. news \in Seq(News) /\ k.qty \in Nat /\ \A i \in 1..Len(news) : news[i].key # k
    BY <1>2 DEF Typed, VenueTyped
  <2> QED
    BY <2>1, CountRests
<1>5. ASSUME NEW j \in known' PROVE \E h : IsCount(h, news, j, At(working, j), orders'[j])
  <2>1. CASE j = k
    BY <1>2, <1>3, <1>4, <2>1
  <2>2. CASE j \in known
    BY <1>3, <2>2 DEF LeavesInv
  <2> QED
    BY <1>1, <2>1, <2>2
<1> QED
  BY <1>1, <1>5 DEF LeavesInv

(* What an update says of the order's leaves.                              *)
LEMMA UpdateIs ==
  ASSUME Typed, ClaimInv, LeavesInv, ~ended, SubsUpdate
  PROVE  LET k == Head(news).key IN
         /\ k \in Keys /\ k \in known /\ Head(news).leaves \in Nat /\ Head(news).qty \in Int
         /\ At(working, k) \in Nat /\ Head(news).leaves = At(working, k) - Head(news).qty
         /\ working' = Upsert(k, Head(news).leaves)
<1> DEFINE k == Head(news).key
<1>1. /\ news \in Seq(News) /\ news # <<>> /\ Head(news) \in News /\ k \in Keys
      /\ Head(news).qty \in Int /\ working' = Upsert(k, Head(news).leaves)
  BY SubsUpdateTyped DEF SubsUpdate, Typed, VenueTyped
<1>2. k \in known
  <2>1. Head(news) = news[1] /\ Len(news) \in Nat /\ Len(news) # 0
    BY <1>1, HeadTailProperties, LenProperties, EmptySeq
  <2> QED
    BY <2>1 DEF ClaimInv, KeysClaimed
<1>3. PICK h : IsCount(h, news, k, At(working, k), orders[k])
  BY <1>2 DEF LeavesInv
<1>4. /\ h[1] \in Nat /\ At(working, k) \in Nat
      /\ h[1] = Head(news).leaves /\ h[1] = At(working, k) - Head(news).qty
  BY <1>1, <1>3, CountLosesFirst
<1> QED
  BY <1>1, <1>2, <1>4

LEMMA UpdateLeaves ==
  ASSUME Typed, ClaimInv, LeavesInv, ~ended, SubsUpdate
  PROVE  LeavesInv'
<1> DEFINE k == Head(news).key
           leaves == Head(news).leaves
<1>1. /\ UNCHANGED <<known, orders, ended>> /\ news' = Tail(news)
      /\ news \in Seq(News) /\ news # <<>>
  BY SubsUpdateTyped DEF SubsUpdate, session, history, Typed, VenueTyped
<1>2. k \in Keys /\ leaves \in Nat /\ working' = Upsert(k, leaves) /\ WorkingTyped
  BY UpdateIs DEF Typed
<1> HIDE DEF k, leaves
<1>3. At(working', k) = leaves /\ \A j : j # k => At(working', j) = At(working, j)
  BY <1>2, UpsertNet
<1>4. ASSUME NEW j \in known PROVE \E h : IsCount(h, Tail(news), j, At(working', j), orders[j])
  <2>1. PICK h : IsCount(h, news, j, At(working, j), orders[j])
    BY DEF LeavesInv
  <2>2. /\ IsCount(Shorter(h, news), Tail(news), j, h[1], orders[j])
        /\ IF Head(news).key = j THEN h[1] = Head(news).leaves ELSE h[1] = At(working, j)
    BY <1>1, <2>1, CountLosesFirst
  <2>3. h[1] = At(working', j)
    BY <1>3, <2>2 DEF k, leaves
  <2> QED
    BY <2>2, <2>3
<1> QED
  BY <1>1, <1>4 DEF LeavesInv

LEMMA VenueLeaves ==
  ASSUME Typed, CallersInv, ClaimInv, LeavesInv, ~ended, NEW k \in DOMAIN orders, NEW q,
         NEW price \in conduct.prices, VenueFills(k, q, price)
  PROVE  LeavesInv'
<1> DEFINE c == [NoFill EXCEPT !.phase = "fill", !.key = k, !.qty = q, !.price = price,
                               !.leaves = orders[k] - q]
<1>1. /\ UNCHANGED <<known, working, ended>> /\ k \in known /\ news' = Append(news, c)
      /\ orders' = [orders EXCEPT ![k] = @ - q] /\ q \in 1..orders[k] /\ known = DOMAIN orders
      /\ news \in Seq(News) /\ k \in Keys /\ q \in Int /\ orders[k] \in Int
  BY VenueFillsTyped DEF VenueFills, session, risk, history, CallersInv, Typed, VenueTyped
<1>2. c \in News /\ c.key = k /\ c.qty = q /\ c.leaves = orders[k] - q
  <2>1. PICK n \in Int : n = orders[k] - q
    BY <1>1
  <2>2. c.key = k /\ c.qty = q /\ c.leaves = n
    BY <2>1 DEF NoFill
  <2>3. k \in Keys /\ q \in Int
    BY <1>1
  <2>4. c \in News
    BY <2>1, <2>3 DEF NoFill, News, Fills
  <2> QED
    BY <2>1, <2>2, <2>4
<1> HIDE DEF c
<1>3. /\ orders'[k] = orders[k] - q /\ orders'[k] \in Nat
      /\ \A j \in known \ {k} : orders'[j] = orders[j]
  BY <1>1
<1>4. ASSUME NEW j \in known PROVE \E h : IsCount(h, news', j, At(working, j), orders'[j])
  <2>1. PICK h : IsCount(h, news, j, At(working, j), orders[j])
    BY DEF LeavesInv
  <2>2. PICK n \in Nat : n = orders'[j]
    <3>1. orders[j] \in Nat
      <4>1. Len(news) \in Nat
        BY <1>1, LenProperties
      <4> QED
        BY <2>1, <4>1 DEF IsCount
    <3> QED
      BY <1>3, <3>1
  <2>3. IF c.key = j THEN n = c.leaves /\ n = orders[j] - c.qty ELSE n = orders[j]
    BY <1>2, <1>3, <2>2
  <2>4. IsCount(Longer(h, news, n), Append(news, c), j, At(working, j), n)
    BY <1>1, <1>2, <2>1, <2>3, CountGoesOn
  <2> QED
    BY <1>1, <2>2, <2>4
<1> QED
  BY <1>1, <1>4 DEF LeavesInv

LEMMA LeavesStep ==
  LeavesInv /\ ClaimInv /\ CallersInv /\ Typed /\ SwitchInv /\ [Next]_vars => LeavesInv'
<1> SUFFICES ASSUME LeavesInv, ClaimInv, CallersInv, Typed, SwitchInv, [Next]_vars PROVE LeavesInv'
  OBVIOUS
<1>0. Shape /\ "md" \in Handlers /\ "subs" \in Threads /\ Handlers \subseteq Threads
  BY DEF SwitchInv, Handlers, Threads
<1>1. CASE ended \/ End
  <2>1. ended'
    BY <1>1, EndedStays DEF End
  <2> QED
    BY <2>1 DEF LeavesInv
<1> SUFFICES ASSUME ~ended, ~End PROVE LeavesInv'
  BY <1>1
<1>2. CASE LocalHandler \/ \E t \in Handlers : PaperHandler(t) \/ StageHandler(t) \/ RouteHandler(t)
  BY <1>0, <1>2, HandlerLeaves, SubmitLeaves
     DEF LocalHandler, PaperHandler, StageHandler, RouteHandler
<1>3. CASE UNCHANGED <<known, news, orders, working, ended>>
  BY <1>3, LeavesStay
<1>4. ASSUME NEW t \in Threads, Book(t) PROVE LeavesInv'
  BY <1>3, <1>4, BookMoves DEF session, risk, history
<1>5. CASE StageDone \/ Count \/ Audit \/ UNCHANGED vars \/ StopWaiting \/ \E m \in Minutes : OnTick(m)
  BY <1>3, <1>5 DEF StageDone, Count, Audit, StopWaiting, OnTick, vars, session, risk, venue, history
<1>6. CASE \/ LocalCallback \/ \E t \in Handlers : PaperCallback(t)
           \/ StageCallback \/ RouteCallback
  BY <1>0, <1>4, <1>5, <1>6, UpdateLeaves DEF LocalCallback, PaperCallback, StageCallback, RouteCallback
<1>7. CASE Restart
  BY <1>7 DEF Restart, CallersInv, Running
<1>8. ASSUME NEW k \in DOMAIN orders, NEW q, NEW price \in conduct.prices, VenueFills(k, q, price)
      PROVE  LeavesInv'
  BY <1>8, VenueLeaves
<1> QED
  BY <1>2, <1>5, <1>6, <1>7, <1>8 DEF Next

LEMMA InitLeaves == Init => LeavesInv
BY DEF Init, LeavesInv

LEMMA LeavesInvariant == Spec => []LeavesInv
<1> QED
  BY InitLeaves, LeavesStep, ClaimInvariant, CallersInvariant, TypedInvariant, SwitchInvariant,
     PTL DEF Spec

-----------------------------------------------------------------------------
(* The position that the book and the working orders lead to.  A paper     *)
(* fill stays in the working book when it has been booked, until           *)
(* submit_order returns; an update leaves the working book before the fill *)
(* it tells of is booked.                                                  *)
Lag(t) ==
  IF t = "subs" THEN Due(t)
  ELSE IF call[t].phase \in {"idle", "fill"} THEN 0 ELSE -Signed(t)
LagAll  == Lag("md") + Lag("main") + Lag("subs")
Reached == book.qty + NetWorking + LagAll
Step(t) == task[t].key.side * task[t].key.qty

LEMMA LagTyped ==
  ASSUME CallTyped
  PROVE  \A t \in Threads : Lag(t) \in Int
BY SignedTyped DEF Lag, Due

LEMMA LagsChange ==
  ASSUME CallTyped, CallTyped', NEW t \in Threads, \A s \in Threads \ {t} : call'[s] = call[s]
  PROVE  /\ LagAll' = LagAll - Lag(t) + Lag(t)'
         /\ LagAll \in Int /\ LagAll' \in Int /\ Lag(t) \in Int /\ Lag(t)' \in Int
<1>1. \A s \in Threads : Lag(s) \in Int
  BY LagTyped
<1>2. \A s \in Threads : Lag(s)' \in Int
  <2>1. \A s \in Threads : call'[s].key \in Keys /\ call'[s].qty \in Int
    BY DEF CallTyped, IsFill, Fills
  <2>2. \A s \in Threads : Signed(s)' \in Int
    BY <2>1, KeyTyped DEF Signed
  <2> QED
    BY <2>2 DEF Lag, Due
<1>3. \A s \in Threads \ {t} : Lag(s)' = Lag(s)
  BY DEF Lag, Due, Signed
<1>4. Threads = {"md", "main", "subs"}
  BY DEF Threads, Handlers
<1> QED
  BY <1>1, <1>2, <1>3, <1>4 DEF LagAll

LEMMA ReachedTyped ==
  ASSUME Typed
  PROVE  /\ Reached \in Int /\ book.qty \in Int /\ NetWorking \in Int /\ LagAll \in Int
         /\ \A t \in Handlers : Step(t) \in Int
<1>1. book.qty \in Int /\ NetWorking \in Int
  BY NetWorkingTyped DEF Typed, BooksTyped, IsRow, Rows
<1>2. LagAll \in Int
  <2>1. CallTyped /\ Threads = {"md", "main", "subs"}
    BY DEF Typed, Threads, Handlers
  <2> QED
    BY <2>1, LagTyped DEF LagAll
<1>3. \A t \in Handlers : Step(t) \in Int
  BY KeyTyped DEF Step, Typed, SessionTyped
<1> QED
  BY <1>1, <1>2, <1>3 DEF Reached

LEMMA ReachedStays ==
  ASSUME UNCHANGED <<book, working, call>>
  PROVE  Reached' = Reached
<1>1. NetWorking' = NetWorking
  BY NetIsNet
<1>2. LagAll' = LagAll
  BY DEF LagAll, Lag, Due, Signed
<1> QED
  BY <1>1, <1>2 DEF Reached

LEMMA RegisterReaches ==
  ASSUME Typed, Shape, CallersInv, ClaimInv, ~ended, NEW t \in Handlers, Register(t)
  PROVE  Reached' = Reached + Step(t)
<1> DEFINE k == task[t].key
<1>1. /\ UNCHANGED <<call, books>> /\ task[t].phase = "register" /\ k \in Keys /\ k.qty \in Int
      /\ working' = Upsert(k, k.qty)
  BY Registers
<1>2. k.qty \in Nat /\ At(working, k) = 0 /\ k.side * At(working, k) = 0
  <2>1. k.qty > 0 /\ k \notin DOMAIN working
    BY <1>1 DEF ClaimInv, Hold, Decided, Held
  <2>2. At(working, k) = 0 /\ k.side \in {1, -1}
    BY <1>1, <2>1, KeyTyped DEF At
  <2> HIDE DEF k
  <2>3. k.side * At(working, k) = 0
    BY <2>2
  <2> QED
    BY <1>1, <2>1, <2>2, <2>3
<1>3. Step(t) = k.side * k.qty
  BY DEF Step
<1> HIDE DEF k
<1>4. NetWorking' = NetWorking + Step(t) /\ NetWorking \in Int /\ Step(t) \in Int
  <2>1. /\ NetWorking' = NetWorking - k.side * At(working, k) + k.side * k.qty
        /\ NetWorking \in Int /\ k.side * k.qty \in Int
    BY <1>1, <1>2, UpsertNet DEF Typed
  <2> QED
    BY <1>2, <1>3, <2>1
<1>5. LagAll' = LagAll /\ book' = book
  BY <1>1 DEF LagAll, Lag, Due, Signed, books
<1> QED
  BY <1>4, <1>5, ReachedTyped DEF Reached

LEMMA PaperReaches ==
  ASSUME Typed, Typed', Shape, CallersInv, ClaimInv, ~ended, NEW t \in Handlers,
         SubmitPaper(t) \/ PaperReturns(t)
  PROVE  Reached' = Reached
<1>0. t \in Threads /\ t # "subs" /\ CallTyped /\ CallTyped'
  BY DEF Threads, Handlers, Typed
<1>1. CASE SubmitPaper(t)
  <2>1. /\ UNCHANGED <<book, working>> /\ call'[t].phase = "fill" /\ call[t].phase = "idle"
        /\ \A s \in Threads \ {t} : call'[s] = call[s]
    BY <1>1, Submits, SubmitPaperIs DEF CallersInv
  <2>2. Lag(t) = 0 /\ Lag(t)' = 0
    BY <1>0, <2>1 DEF Lag
  <2>3. LagAll' = LagAll
    BY <1>0, <2>1, <2>2, LagsChange
  <2>4. NetWorking' = NetWorking
    BY <2>1, NetIsNet
  <2> QED
    BY <2>1, <2>3, <2>4 DEF Reached
<1>2. CASE PaperReturns(t)
  <2> DEFINE k == task[t].key
  <2>1. /\ UNCHANGED books /\ task[t].phase = "callback" /\ call[t].phase = "booked"
        /\ call'[t] = NoFill /\ \A s \in Threads \ {t} : call'[s] = call[s]
        /\ working' = Upsert(k, 0) /\ k \in Keys
    BY <1>2, Returns
  <2>2. Hold(t)
    BY DEF ClaimInv
  <2>3. At(working, k) = k.qty /\ Signed(t) = k.side * k.qty /\ k.qty \in Int
    BY <2>1, <2>2, KeyTyped DEF Hold, At, Signed
  <2> HIDE DEF k
  <2>4. PICK d \in Int : d = k.side * k.qty
    BY <2>1, KeyTyped
  <2>5. Lag(t) = -d /\ Lag(t)' = 0
    BY <1>0, <2>1, <2>3, <2>4, RowsAre DEF Lag
  <2>6. LagAll' = LagAll + d /\ LagAll \in Int
    BY <1>0, <2>1, <2>4, <2>5, LagsChange
  <2>7. NetWorking' = NetWorking - d /\ NetWorking \in Int
    <3>1. PICK leaves \in Nat : leaves = 0
      OBVIOUS
    <3>2. WorkingTyped /\ working' = Upsert(k, leaves) /\ k.side * leaves = 0
      <4>1. k.side \in {1, -1}
        BY <2>1, KeyTyped
      <4> QED
        BY <2>1, <3>1, <4>1 DEF Typed
    <3>3. NetWorking' = NetWorking - k.side * At(working, k) + k.side * leaves /\ NetWorking \in Int
      BY <2>1, <3>2, UpsertNet
    <3> QED
      BY <2>3, <2>4, <3>2, <3>3
  <2>8. book' = book /\ book.qty \in Int
    BY <2>1, ReachedTyped DEF books
  <2> QED
    BY <2>6, <2>7, <2>8 DEF Reached
<1> QED
  BY <1>1, <1>2

LEMMA UnmarkedReaches ==
  ASSUME Typed, Shape, CallersInv, ClaimInv, ~ended, NEW t \in Handlers, SubmitUnmarked(t)
  PROVE  Reached' = Reached - Step(t)
<1> DEFINE k == task[t].key
<1>1. /\ UNCHANGED <<books, call>> /\ task[t].phase = "submit" /\ k \in Keys
      /\ \E n \in Nat : n = 0 /\ working' = Upsert(k, n)
  BY Unmarks
<1>2. Hold(t)
  BY DEF ClaimInv
<1>3. At(working, k) = k.qty /\ Step(t) = k.side * k.qty
  BY <1>1, <1>2 DEF Hold, At, Step, Held, Decided
<1> HIDE DEF k
<1>4. PICK n \in Nat : n = 0 /\ working' = Upsert(k, n)
  BY <1>1
<1>5. NetWorking' = NetWorking - Step(t)
  <2>1. k.side * n = 0
    BY <1>1, <1>4, KeyTyped
  <2>2. WorkingTyped /\ working' = Upsert(k, n)
    BY <1>4 DEF Typed
  <2>3. /\ NetWorking' = NetWorking - k.side * At(working, k) + k.side * n
        /\ NetWorking \in Int /\ k.side * At(working, k) \in Int
    BY <1>1, <2>2, UpsertNet
  <2> QED
    BY <1>3, <2>1, <2>3
<1>6. LagAll' = LagAll /\ book' = book
  BY <1>1 DEF LagAll, Lag, Due, Signed, books
<1>7. book.qty \in Int /\ NetWorking \in Int /\ LagAll \in Int /\ Step(t) \in Int
  BY ReachedTyped
<1> QED
  BY <1>5, <1>6, <1>7 DEF Reached

LEMMA BookReaches ==
  ASSUME Typed, Typed', NEW t \in Threads, Book(t)
  PROVE  Reached' = Reached
<1>0. /\ UNCHANGED working /\ CallTyped /\ CallTyped' /\ Signed(t)' = Signed(t)
      /\ Signed(t) \in Int /\ book.qty \in Int
      /\ \A s \in Threads \ {t} : call'[s] = call[s]
  BY BookMoves, SignedTyped, ReachedTyped DEF Typed, risk
<1>1. LagAll' = LagAll - Lag(t) + Lag(t)' /\ LagAll \in Int
  BY <1>0, LagsChange
<1>2. NetWorking' = NetWorking /\ NetWorking \in Int
  BY <1>0, NetIsNet, ReachedTyped
<1>3. CASE OnFill(t, "fill", "pnl") /\ BookPosition(Signed(t), call[t].price)
  <2>1. call[t].phase = "fill" /\ call'[t].phase = "pnl"
    BY <1>0, <1>3, CallMoves DEF OnFill, CallPhases
  <2>2. book'.qty = book.qty + Signed(t)
    BY <1>0, <1>3, BookFillIs DEF BookPosition
  <2>3. Lag(t)' = Lag(t) - Signed(t) /\ Lag(t) \in Int
    BY <1>0, <2>1, LagTyped DEF Lag, Due
  <2> QED
    BY <1>0, <1>1, <1>2, <2>2, <2>3 DEF Reached
<1>4. CASE ~(OnFill(t, "fill", "pnl") /\ BookPosition(Signed(t), call[t].price))
  <2>1. book' = book /\ call[t].phase \notin {"idle", "fill"} /\ call'[t].phase \notin {"idle", "fill"}
    BY <1>0, <1>4 DEF Book, OnFill, ReadBack, BookPnl, Store, books, CallTyped, IsFill, Fills
  <2>2. Lag(t)' = Lag(t) /\ Lag(t) \in Int
    BY <1>0, <2>1, LagTyped DEF Lag, Due
  <2> QED
    BY <1>0, <1>1, <1>2, <2>1, <2>2 DEF Reached
<1> QED
  BY <1>3, <1>4

LEMMA UpdateReaches ==
  ASSUME Typed, Typed', CallersInv, ClaimInv, LeavesInv, ~ended, SubsUpdate
  PROVE  Reached' = Reached
<1> DEFINE k == Head(news).key
           leaves == Head(news).leaves
           qty == Head(news).qty
<1>0. "subs" \in Threads /\ Threads \ {"subs"} = Handlers /\ CallTyped /\ CallTyped'
  BY DEF Threads, Handlers, Typed
<1>1. /\ call["subs"].phase = "idle" /\ call'["subs"].phase = "fill" /\ call'["subs"] = Head(news)
      /\ \A t \in Handlers : call'[t] = call[t]
      /\ book' = book /\ book.qty \in Int
  BY SubsUpdateTyped, ReachedTyped DEF SubsUpdate, books
<1>2. /\ k \in Keys /\ leaves \in Nat /\ qty \in Int /\ At(working, k) \in Nat
      /\ leaves = At(working, k) - qty /\ working' = Upsert(k, leaves) /\ WorkingTyped
  BY UpdateIs DEF Typed
<1>3. Lag("subs") = 0 /\ Lag("subs")' = k.side * qty
  BY <1>1 DEF Lag, Due, Signed
<1> HIDE DEF k, leaves, qty
<1>4. NetWorking' = NetWorking - k.side * qty /\ NetWorking \in Int /\ k.side * qty \in Int
  <2>1. NetWorking' = NetWorking - k.side * At(working, k) + k.side * leaves /\ NetWorking \in Int
    BY <1>2, UpsertNet
  <2>2. k.side \in {1, -1}
    BY <1>2, KeyTyped
  <2>3. k.side * leaves = k.side * At(working, k) - k.side * qty
    BY <1>2, <2>2
  <2>4. k.side * At(working, k) \in Int /\ k.side * qty \in Int
    BY <1>2, <2>2
  <2> QED
    BY <2>1, <2>3, <2>4
<1>5. LagAll' = LagAll + k.side * qty /\ LagAll \in Int
  <2>1. LagAll' = LagAll - Lag("subs") + Lag("subs")' /\ LagAll \in Int
    BY <1>0, <1>1, LagsChange
  <2> QED
    BY <1>3, <1>4, <2>1
<1> QED
  BY <1>1, <1>4, <1>5 DEF Reached

LEMMA DoneReaches ==
  ASSUME Typed, Typed', FillDone, UNCHANGED <<books, session, working, orders, news, sent, conduct>>
  PROVE  Reached' = Reached
<1>0. "subs" \in Threads /\ Threads \ {"subs"} = Handlers /\ CallTyped /\ CallTyped'
  BY DEF Threads, Handlers, Typed
<1>1. /\ call["subs"].phase = "booked" /\ call'["subs"] = NoFill
      /\ \A t \in Handlers : call'[t] = call[t]
  BY FillDoneTyped DEF FillDone
<1>2. Lag("subs") = 0 /\ Lag("subs")' = 0
  BY <1>1, RowsAre DEF Lag, Due
<1>3. LagAll' = LagAll
  BY <1>0, <1>1, <1>2, LagsChange
<1>4. NetWorking' = NetWorking /\ book' = book
  BY NetIsNet DEF books
<1> QED
  BY <1>3, <1>4 DEF Reached

-----------------------------------------------------------------------------
(* One order per bar.  A decision leads from where the position and the    *)
(* working orders lead to the target of its bar, unless its key has been   *)
(* claimed meanwhile; once one handler has registered the order, nothing   *)
(* is left to do for that bar, or, if the adapter refuses it, nothing but  *)
(* what its claimed key stands for.                                        *)
Ordering == conduct.steady /\ conduct.spaced /\ ~ended
Open     == {"validate", "rate", "claim"}
IsLast(b) == \A c \in Minutes : chosen[c] # None => c <= b

(* The order that would have led to the bar's target was refused.          *)
Refused(b) ==
  \E k \in claimed \cap Keys :
    k.bar = b /\ k.qty > 0 /\ Reached + k.side * k.qty = chosen[b]

SentOnce(b) ==
  /\ sent[b] <= 1
  /\ sent[b] >= 1 => chosen[b] # None /\ (IsLast(b) => Reached = chosen[b] \/ Refused(b))

Pending(t) ==
  LET b == task[t].bar
      p == task[t].phase
  IN  /\ p \in Decided => chosen[b] # None
      /\ p \in Open => task[t].key \in claimed \/ Reached + Step(t) = chosen[b]
      /\ p = "register" => Reached + Step(t) = chosen[b] /\ sent[b] = 0
      /\ p = "submit" => Reached = chosen[b] /\ sent[b] = 0

OneSubmits == \A t, s \in Handlers : task[t].phase = "submit" /\ task[s].phase = "submit" => t = s

OrderInv ==
  Ordering => /\ \A b \in Minutes : SentOnce(b)
              /\ \A t \in Handlers : Pending(t)
              /\ OneSubmits

LEMMA PhasesDiffer ==
  /\ Open \subseteq Decided /\ "register" \in Decided /\ "submit" \in Decided
  /\ \A p \in Decided : p # "idle"
  /\ "register" \notin Open /\ "submit" \notin Open /\ "callback" \notin Open
BY DEF Open, Decided, Held

(* The handlers' bars are one, and no target is chosen for a later one.    *)
LEMMA BarIsLast ==
  ASSUME Typed, BarsInv, Ordering, NEW t \in Handlers, task[t].phase # "idle"
  PROVE  /\ task[t].bar \in Minutes /\ IsLast(task[t].bar)
         /\ \A s \in Handlers : task[s].phase # "idle" => task[s].bar = task[t].bar
<1>1. Bars /\ Handlers = {"md", "main"}
  BY DEF BarsInv, Ordering, Handlers
<1> QED
  BY <1>1 DEF Bars, Active, IsLast, Typed, SessionTyped

(* Keys of one bar that make the same change are the same.                 *)
LEMMA SameKey ==
  ASSUME NEW k \in Keys, NEW j \in Keys, k.bar = j.bar, k.qty > 0, j.qty > 0,
         k.side * k.qty = j.side * j.qty
  PROVE  k = j
<1>1. k.side \in {1, -1} /\ j.side \in {1, -1} /\ k.qty \in Int /\ j.qty \in Int
  BY KeyTyped
<1>2. k.side = j.side /\ k.qty = j.qty
  BY <1>1
<1>3. /\ k = [bar |-> k.bar, side |-> k.side, qty |-> k.qty]
      /\ j = [bar |-> j.bar, side |-> j.side, qty |-> j.qty]
  BY DEF Keys
<1> QED
  BY <1>2, <1>3

LEMMA StepIs ==
  ASSUME Typed, ClaimInv, ~ended, NEW t \in Handlers, task[t].phase \in Decided
  PROVE  /\ task[t].key \in Keys /\ task[t].key.bar = task[t].bar /\ task[t].key.qty > 0
         /\ Step(t) = task[t].key.side * task[t].key.qty /\ Step(t) \in Int /\ Step(t) # 0
<1>1. /\ task[t].key \in Keys /\ task[t].key.bar = task[t].bar /\ task[t].key.qty > 0
  BY DEF Typed, SessionTyped, ClaimInv, Hold
<1>2. Step(t) = task[t].key.side * task[t].key.qty
  BY DEF Step
<1>3. task[t].key.side \in {1, -1} /\ task[t].key.qty \in Int
  BY <1>1, KeyTyped
<1>4. Step(t) \in Int /\ Step(t) # 0
  BY <1>1, <1>2, <1>3
<1> QED
  BY <1>1, <1>2, <1>4

LEMMA SameStep ==
  ASSUME Typed, BarsInv, ClaimInv, Ordering, NEW t \in Handlers, NEW s \in Handlers,
         task[t].phase \in Decided, task[s].phase \in Decided, Step(t) = Step(s)
  PROVE  task[t].key = task[s].key
<1>1. ~ended /\ task[t].phase # "idle" /\ task[s].phase # "idle"
  BY PhasesDiffer DEF Ordering
<1>2. task[t].bar = task[s].bar
  BY <1>1, BarIsLast
<1> QED
  BY <1>1, <1>2, StepIs, SameKey

(* While one handler registers an order, the other does not submit one.    *)
LEMMA OneRegisters ==
  ASSUME Typed, BarsInv, ClaimInv, OrderInv, Ordering, NEW t \in Handlers, NEW s \in Handlers,
         task[t].phase = "register", task[s].phase = "submit"
  PROVE  FALSE
<1>1. ~ended /\ task[t].phase # "idle" /\ task[s].phase # "idle" /\ task[t].phase \in Decided
  BY PhasesDiffer DEF Ordering
<1>2. task[t].bar = task[s].bar
  BY <1>1, BarIsLast
<1>3. Reached + Step(t) = chosen[task[t].bar] /\ Reached = chosen[task[s].bar]
  BY DEF OrderInv, Pending
<1>4. Step(t) \in Int /\ Step(t) # 0 /\ Reached \in Int
  BY <1>1, StepIs, ReachedTyped
<1> QED
  BY <1>2, <1>3, <1>4

(* A step that neither orders nor decides.                                 *)
LEMMA OrderStays ==
  ASSUME OrderInv, Reached' = Reached, UNCHANGED <<chosen, sent, conduct>>,
         claimed \subseteq claimed', ended => ended',
         \A t \in Handlers :
           \/ task'[t] = task[t]
           \/ task'[t].phase \notin Decided
           \/ /\ task[t].phase \in Open /\ task'[t].phase \in Open
              /\ task'[t].key = task[t].key /\ task'[t].bar = task[t].bar
  PROVE  OrderInv'
<1> SUFFICES ASSUME Ordering, ~ended' PROVE OrderInv'
  BY DEF OrderInv, Ordering
<1>1. \A b \in Minutes : SentOnce(b)'
  BY DEF OrderInv, SentOnce, IsLast, Refused
<1>2. ASSUME NEW t \in Handlers PROVE Pending(t)'
  BY PhasesDiffer DEF OrderInv, Pending, Step
<1>3. OneSubmits'
  BY PhasesDiffer DEF OrderInv, OneSubmits
<1> QED
  BY <1>1, <1>2, <1>3 DEF OrderInv

LEMMA AdvanceOrders ==
  ASSUME Typed, Shape, BarsInv, ClaimInv, OrderInv, NEW t \in Handlers,
         Validate(t) \/ TryAcquire(t) \/ Claim(t)
  PROVE  OrderInv'
<1>1. /\ UNCHANGED <<chosen, working, sent, call, books, conduct, ended>>
      /\ \A s \in Handlers \ {t} : task'[s] = task[s]
  BY Advances
<1>2. Reached' = Reached
  BY <1>1, ReachedStays DEF books
<1>3. CASE Finish(t) /\ UNCHANGED claimed
  <2>1. task'[t].phase \notin Decided
    BY <1>3, Ends, IdleIsFree
  <2> QED
    BY <1>1, <1>2, <1>3, <2>1, OrderStays
<1>4. CASE /\ task'[t].bar = task[t].bar /\ task'[t].key = task[t].key
           /\ task[t].phase \in {"validate", "rate"} /\ task'[t].phase \in {"rate", "claim"}
           /\ UNCHANGED claimed
  <2>1. task[t].phase \in Open /\ task'[t].phase \in Open
    BY <1>4 DEF Open
  <2> QED
    BY <1>1, <1>2, <1>4, <2>1, OrderStays
<1>5. CASE /\ task'[t].bar = task[t].bar /\ task'[t].key = task[t].key
           /\ task[t].phase = "claim" /\ task'[t].phase = "register"
           /\ task[t].key \notin claimed /\ claimed' = claimed \cup {task[t].key}
  <2> SUFFICES ASSUME Ordering PROVE OrderInv'
    BY <1>1 DEF OrderInv, Ordering
  <2> DEFINE b == task[t].bar
  <2>0. ~ended /\ task[t].phase \in Decided /\ task[t].phase \in Open /\ task[t].phase # "idle"
    BY <1>5 DEF Ordering, Open, Decided
  <2>1. b \in Minutes /\ IsLast(b) /\ SentOnce(b) /\ Pending(t)
    BY <2>0, BarIsLast DEF OrderInv
  <2>2. Reached + Step(t) = chosen[b] /\ chosen[b] # None
    BY <1>5, <2>0, <2>1 DEF Pending
  <2>3. Step(t) \in Int /\ Step(t) # 0 /\ Reached \in Int /\ sent[b] \in Nat
    BY <2>0, <2>1, StepIs, ReachedTyped DEF Typed, SessionTyped
  <2>4. sent[b] = 0
    <3>1. ~Refused(b)
      <4> SUFFICES ASSUME NEW k \in claimed \cap Keys, k.bar = b, k.qty > 0,
                          Reached + k.side * k.qty = chosen[b]
                   PROVE  FALSE
        BY DEF Refused
      <4> DEFINE j == task[t].key
      <4>1. j \in Keys /\ j.bar = b /\ j.qty > 0 /\ Step(t) = j.side * j.qty
        BY <2>0, StepIs
      <4> HIDE DEF j, b
      <4>2. PICK d \in Int : d = k.side * k.qty
        BY KeyTyped
      <4>3. k.side * k.qty = j.side * j.qty
        <5>1. Reached + d = chosen[b] /\ Reached + Step(t) = chosen[b]
          BY <2>2, <4>2
        <5>2. d = Step(t)
          BY <2>3, <5>1
        <5> QED
          BY <4>1, <4>2, <5>2
      <4>4. k = j
        BY <4>1, <4>3, SameKey
      <4> QED
        BY <1>5, <4>4 DEF j
    <3> QED
      BY <2>1, <2>2, <2>3, <3>1 DEF SentOnce
  <2>5. \A c \in Minutes : SentOnce(c)'
    BY <1>1, <1>2, <1>5 DEF OrderInv, SentOnce, IsLast, Refused
  <2>6. Pending(t)'
    BY <1>1, <1>2, <1>5, <2>2, <2>4, PhasesDiffer DEF Pending, Step
  <2>7. ASSUME NEW s \in Handlers \ {t} PROVE Pending(s)'
    BY <1>1, <1>2, <1>5 DEF OrderInv, Pending, Step
  <2>8. OneSubmits'
    BY <1>1, <1>5 DEF OrderInv, OneSubmits
  <2> QED
    BY <2>5, <2>6, <2>7, <2>8 DEF OrderInv
<1> QED
  BY <1>3, <1>4, <1>5, Advances

LEMMA RegisterOrders ==
  ASSUME Typed, Shape, CallersInv, BarsInv, ClaimInv, OrderInv, NEW t \in Handlers, Register(t)
  PROVE  OrderInv'
<1>1. /\ UNCHANGED <<chosen, claimed, sent, conduct, ended>>
      /\ task[t].phase = "register" /\ task'[t].phase = "submit"
      /\ task'[t].bar = task[t].bar /\ task'[t].key = task[t].key
      /\ \A s \in Handlers \ {t} : task'[s] = task[s]
  BY Registers
<1> SUFFICES ASSUME Ordering PROVE OrderInv'
  BY <1>1 DEF OrderInv, Ordering
<1> DEFINE b == task[t].bar
<1>0. ~ended /\ task[t].phase \in Decided /\ task[t].phase # "idle"
  BY <1>1 DEF Ordering, Decided, Held
<1>2. Reached' = Reached + Step(t)
  BY <1>0, RegisterReaches
<1>3. /\ b \in Minutes /\ IsLast(b) /\ chosen[b] # None
      /\ Reached + Step(t) = chosen[b] /\ sent[b] = 0
  BY <1>0, <1>1, BarIsLast DEF OrderInv, Pending
<1>4. Reached \in Int /\ Step(t) \in Int
  BY ReachedTyped
<1>5. ASSUME NEW c \in Minutes PROVE SentOnce(c)'
  <2>1. CASE c = b
    BY <1>1, <1>3, <2>1 DEF SentOnce
  <2>2. CASE c # b
    <3>1. c \in Int /\ b \in Int
      BY <1>3 DEF Minutes
    <3>2. ASSUME sent[c] >= 1 PROVE chosen[c] # None /\ ~IsLast(c)
      <4>1. chosen[c] # None
        BY <3>2 DEF OrderInv, SentOnce
      <4>2. c <= b
        BY <1>3, <4>1 DEF IsLast
      <4>3. ~(b <= c)
        BY <2>2, <3>1, <4>2
      <4> QED
        BY <1>3, <4>1, <4>3 DEF IsLast
    <3>3. IsLast(c)' <=> IsLast(c)
      BY <1>1 DEF IsLast
    <3> QED
      BY <1>1, <3>2, <3>3 DEF OrderInv, SentOnce, Refused
  <2> QED
    BY <2>1, <2>2
<1>6. Pending(t)'
  <2>1. "submit" # "register" /\ "submit" \notin Open
    BY PhasesDiffer
  <2> QED
    BY <1>1, <1>2, <1>3, <2>1 DEF Pending
<1>7. ASSUME NEW s \in Handlers \ {t} PROVE Pending(s)'
  <2>0. task'[s] = task[s] /\ Step(s)' = Step(s) /\ Pending(s)
    BY <1>1 DEF Step, OrderInv
  <2>1. CASE task[s].phase \in Open
    <3>1. task[s].phase \in Decided /\ task[s].phase # "idle"
      BY <2>1, PhasesDiffer
    <3>2. task[s].bar = b
      BY <1>0, <3>1, BarIsLast
    <3>3. task[s].key \in claimed
      <4>1. CASE Reached + Step(s) = chosen[b]
        <5>1. Step(s) \in Int
          BY ReachedTyped
        <5>2. Step(s) = Step(t)
          BY <1>3, <1>4, <4>1, <5>1
        <5>3. task[s].key = task[t].key
          BY <1>0, <3>1, <5>2, SameStep
        <5>4. task[t].key \in claimed
          BY <1>0, <1>1 DEF ClaimInv, Hold, Held
        <5> QED
          BY <5>3, <5>4
      <4> QED
        BY <2>0, <2>1, <3>2, <4>1 DEF Pending
    <3>4. task[s].phase \notin {"register", "submit"}
      BY <2>1, PhasesDiffer
    <3> QED
      BY <1>1, <2>0, <2>1, <3>1, <3>3, <3>4 DEF Pending
  <2>2. task[s].phase # "register"
    <3>1. SUFFICES ASSUME task[s].phase = "register" PROVE FALSE
      OBVIOUS
    <3>2. task[s].phase \in Decided /\ task[s].phase \in Held /\ task[t].phase \in Held
      BY <1>1, <3>1 DEF Decided, Held
    <3>3. task[s].bar = b /\ Reached + Step(s) = chosen[b]
      <4>1. task[s].phase # "idle"
        BY <3>1
      <4> QED
        BY <1>0, <2>0, <3>1, <4>1, BarIsLast DEF Pending
    <3>4. Step(s) \in Int
      BY ReachedTyped
    <3>5. Step(s) = Step(t)
      <4>1. Reached + Step(s) = Reached + Step(t)
        BY <1>3, <3>3
      <4> QED
        BY <1>4, <3>4, <4>1
    <3>6. task[s].key = task[t].key
      BY <1>0, <3>2, <3>5, SameStep
    <3> QED
      BY <1>0, <3>2, <3>6 DEF ClaimInv, HeldApart
  <2>3. task[s].phase # "submit"
    BY <1>1, OneRegisters
  <2> QED
    BY <1>1, <2>0, <2>1, <2>2, <2>3 DEF Pending
<1>8. OneSubmits'
  <2>1. \A s \in Handlers : task[s].phase # "submit"
    BY <1>1, OneRegisters
  <2> QED
    BY <1>1, <2>1 DEF OneSubmits
<1> QED
  BY <1>5, <1>6, <1>7, <1>8 DEF OrderInv

LEMMA TargetOrders ==
  ASSUME Typed, Shape, CallersInv, BarsInv, ClaimInv, OrderInv, NEW t \in Handlers, OnTarget(t)
  PROVE  OrderInv'
<1> DEFINE b == task[t].bar
<1>1. /\ UNCHANGED <<working, claimed, sent, call, books, conduct, ended>>
      /\ \A s \in Handlers \ {t} : task'[s] = task[s]
      /\ task[t].phase = "bar" /\ b \in Minutes
  BY Targets
<1> SUFFICES ASSUME Ordering PROVE OrderInv'
  BY <1>1 DEF OrderInv, Ordering
<1>2. PICK target \in Int, k \in Keys :
        /\ target \in TargetsFor(b)
        /\ k.bar = b /\ target - book.qty - NetWorking = k.side * k.qty
        /\ chosen'[b] = target
        /\ \A c \in Minutes \ {b} : chosen'[c] = chosen[c]
        /\ \/ Finish(t)
           \/ /\ k.qty > 0 /\ UNCHANGED openBar
              /\ task'[t].phase = "validate" /\ task'[t].bar = b /\ task'[t].key = k
  BY Targets
<1>3. Reached' = Reached /\ Reached \in Int /\ Reached = book.qty + NetWorking
  <2>1. call = NoCall
    BY DEF OnTarget, Ordering
  <2>2. LagAll = 0
    BY <2>1, RowsAre DEF LagAll, Lag, Due, NoCall, Threads, Handlers
  <2> QED
    BY <1>1, <2>2, ReachedStays, ReachedTyped DEF Reached, books
<1>4. Reached + k.side * k.qty = target
  <2>1. PICK d \in Int : d = k.side * k.qty
    BY KeyTyped
  <2>2. book.qty \in Int /\ NetWorking \in Int
    BY ReachedTyped
  <2> QED
    BY <1>2, <1>3, <2>1, <2>2
<1>5. /\ target # None /\ IsLast(b) /\ task[t].phase # "idle"
      /\ chosen[b] # None => \A c \in Minutes : chosen'[c] = chosen[c]
  <2>1. chosen[b] # None => target = chosen[b]
    BY <1>2 DEF TargetsFor, Ordering
  <2> QED
    BY <1>1, <1>2, <2>1, BarIsLast, ConductAssumption
<1>6. ASSUME NEW c \in Minutes PROVE SentOnce(c)'
  <2>1. CASE chosen[b] # None
    <3>1. chosen'[c] = chosen[c] /\ (IsLast(c)' <=> IsLast(c))
      BY <1>5, <2>1 DEF IsLast
    <3> QED
      BY <1>1, <1>3, <3>1 DEF OrderInv, SentOnce, Refused
  <2>2. CASE chosen[b] = None
    <3>1. SentOnce(c)
      BY DEF OrderInv
    <3>2. sent[c] >= 1 => c # b /\ chosen'[c] = chosen[c]
      BY <1>2, <2>2, <3>1 DEF SentOnce
    <3>3. c # b /\ IsLast(c)' => IsLast(c)
      BY <1>2, <2>2 DEF IsLast
    <3> QED
      BY <1>1, <1>3, <3>1, <3>2, <3>3 DEF SentOnce, Refused
  <2> QED
    BY <2>1, <2>2
<1>7. ASSUME NEW s \in Handlers \ {t} PROVE Pending(s)'
  <2>0. task'[s] = task[s] /\ Step(s)' = Step(s) /\ Pending(s)
    BY <1>1 DEF Step, OrderInv
  <2>1. CASE task[s].phase \notin Decided
    BY <2>0, <2>1, PhasesDiffer DEF Pending
  <2>2. CASE task[s].phase \in Decided
    <3>1. task[s].bar = b /\ chosen[b] # None
      <4>1. task[s].phase # "idle"
        BY <2>2, PhasesDiffer
      <4> QED
        BY <1>5, <2>0, <2>2, <4>1, BarIsLast DEF Pending
    <3>2. chosen'[b] = chosen[b]
      BY <1>1, <1>5, <3>1
    <3> QED
      BY <1>1, <1>3, <2>0, <3>1, <3>2 DEF Pending
  <2> QED
    BY <2>1, <2>2
<1>8. Pending(t)' /\ task'[t].phase # "submit"
  <2>1. CASE Finish(t)
    <3>1. task'[t] = Idle
      BY <2>1, Ends
    <3> QED
      BY <3>1, IdleIsNotActive, PhasesDiffer DEF Pending
  <2>2. CASE task'[t].phase = "validate" /\ task'[t].bar = b /\ task'[t].key = k
    <3>1. Step(t)' = k.side * k.qty
      BY <2>2 DEF Step
    <3>2. "validate" # "register" /\ "validate" # "submit"
      OBVIOUS
    <3> QED
      BY <1>2, <1>3, <1>4, <1>5, <2>2, <3>1, <3>2 DEF Pending
  <2> QED
    BY <1>2, <2>1, <2>2
<1>9. OneSubmits'
  BY <1>1, <1>8 DEF OrderInv, OneSubmits
<1> QED
  BY <1>6, <1>7, <1>8, <1>9 DEF OrderInv

LEMMA SubmitOrders ==
  ASSUME Typed, Typed', Shape, CallersInv, BarsInv, ClaimInv, OrderInv, NEW t \in Handlers,
         Submit(t) \/ SubmitFails(t) \/ SubmitPaper(t)
  PROVE  OrderInv'
<1> DEFINE b == task[t].bar
<1>1. /\ UNCHANGED <<chosen, working, claimed, conduct, ended, book>>
      /\ task[t].phase = "submit" /\ b \in Minutes
      /\ sent'[b] = sent[b] + 1
      /\ \A c \in Minutes \ {b} : sent'[c] = sent[c]
      /\ \A s \in Handlers \ {t} : task'[s] = task[s]
      /\ \/ Finish(t) /\ UNCHANGED call
         \/ /\ task'[t].phase = "callback" /\ task'[t].bar = b
            /\ SubmitPaper(t)
  BY Submits
<1> SUFFICES ASSUME Ordering PROVE OrderInv'
  BY <1>1 DEF OrderInv, Ordering
<1>0. ~ended /\ task[t].phase # "idle" /\ task[t].phase \in Decided
  BY <1>1 DEF Ordering, Decided, Held
<1>2. Reached' = Reached
  <2>1. CASE UNCHANGED call
    BY <1>1, <2>1, ReachedStays
  <2>2. CASE SubmitPaper(t)
    BY <1>0, <2>2, PaperReaches
  <2> QED
    BY <1>1, <2>1, <2>2
<1>3. Reached = chosen[b] /\ sent[b] = 0 /\ chosen[b] # None
  BY <1>0, <1>1 DEF OrderInv, Pending
<1>4. ASSUME NEW c \in Minutes PROVE SentOnce(c)'
  <2>1. CASE c = b
    BY <1>1, <1>2, <1>3, <2>1 DEF SentOnce
  <2>2. CASE c # b
    BY <1>1, <1>2, <2>2 DEF OrderInv, SentOnce, IsLast, Refused
  <2> QED
    BY <2>1, <2>2
<1>5. Pending(t)' /\ task'[t].phase # "submit"
  <2>1. CASE Finish(t)
    <3>1. task'[t] = Idle
      BY <2>1, Ends
    <3> QED
      BY <3>1, IdleIsNotActive, PhasesDiffer DEF Pending
  <2>2. CASE task'[t].phase = "callback" /\ task'[t].bar = b
    BY <1>1, <1>3, <2>2, PhasesDiffer DEF Pending
  <2> QED
    BY <1>1, <2>1, <2>2
<1>6. ASSUME NEW s \in Handlers \ {t} PROVE Pending(s)'
  <2>0. task'[s] = task[s] /\ Step(s)' = Step(s) /\ Pending(s)
    BY <1>1 DEF Step, OrderInv
  <2>1. task[s].phase # "submit"
    BY <1>1 DEF OrderInv, OneSubmits
  <2>2. task[s].phase # "register"
    BY <1>1, OneRegisters
  <2> QED
    BY <1>1, <1>2, <2>0, <2>1, <2>2 DEF Pending
<1>7. OneSubmits'
  BY <1>1, <1>5 DEF OrderInv, OneSubmits
<1> QED
  BY <1>4, <1>5, <1>6, <1>7 DEF OrderInv

(* The adapter refuses the order: the position that the books lead to is   *)
(* what it was before, and the key stays claimed.  If another handler      *)
(* still decides on the bar, its key is claimed too.                       *)
LEMMA UnmarkedOrders ==
  ASSUME Typed, Shape, CallersInv, BarsInv, ClaimInv, OrderInv, NEW t \in Handlers, SubmitUnmarked(t)
  PROVE  OrderInv'
<1> DEFINE b == task[t].bar
           k == task[t].key
<1>1. /\ UNCHANGED <<chosen, claimed, conduct, ended>>
      /\ task[t].phase = "submit" /\ b \in Minutes /\ k \in Keys
      /\ sent'[b] = sent[b] + 1
      /\ \A c \in Minutes \ {b} : sent'[c] = sent[c]
      /\ task'[t] = Idle /\ \A s \in Handlers \ {t} : task'[s] = task[s]
  BY Unmarks
<1> SUFFICES ASSUME Ordering PROVE OrderInv'
  BY <1>1 DEF OrderInv, Ordering
<1>0. ~ended /\ task[t].phase # "idle" /\ task[t].phase \in Decided /\ task[t].phase \in Held
  BY <1>1 DEF Ordering, Decided, Held
<1>2. /\ Reached = chosen[b] /\ sent[b] = 0 /\ chosen[b] # None /\ IsLast(b)
  BY <1>0, <1>1, BarIsLast DEF OrderInv, Pending
<1>3. Reached' = Reached - Step(t) /\ Reached \in Int /\ Step(t) \in Int
  BY <1>0, UnmarkedReaches, ReachedTyped
<1>4. /\ k \in claimed /\ k.bar = b /\ k.qty > 0 /\ Step(t) = k.side * k.qty
  BY <1>0, StepIs DEF ClaimInv, Hold
<1>5. ASSUME NEW c \in Minutes, c = b PROVE Refused(c)'
  <2>1. PICK j \in Keys : j = k
    BY <1>1
  <2>3. PICK d \in Int : d = Step(t)
    BY <1>3
  <2>4. j \in claimed' /\ j.bar = c /\ j.qty > 0 /\ d = j.side * j.qty
    BY <1>1, <1>4, <1>5, <2>1, <2>3
  <2>5. Reached' + d = chosen'[c]
    BY <1>1, <1>2, <1>3, <1>5, <2>3
  <2> QED
    BY <2>1, <2>4, <2>5 DEF Refused
<1>6. ASSUME NEW c \in Minutes PROVE SentOnce(c)'
  <2>1. CASE c = b
    BY <1>1, <1>2, <1>5, <2>1 DEF SentOnce
  <2>2. CASE c # b
    <3>1. c \in Int /\ b \in Int
      BY <1>1 DEF Minutes
    <3>2. ASSUME sent[c] >= 1 PROVE chosen[c] # None /\ ~IsLast(c)
      <4>1. chosen[c] # None
        BY <3>2 DEF OrderInv, SentOnce
      <4>2. c <= b
        BY <1>2, <4>1 DEF IsLast
      <4>3. ~(b <= c)
        BY <2>2, <3>1, <4>2
      <4> QED
        BY <1>1, <1>2, <4>1, <4>3 DEF IsLast
    <3>3. IsLast(c)' <=> IsLast(c)
      BY <1>1 DEF IsLast
    <3> QED
      BY <1>1, <2>2, <3>2, <3>3 DEF OrderInv, SentOnce
  <2> QED
    BY <2>1, <2>2
<1>7. task'[t].phase \notin Decided /\ Pending(t)'
  BY <1>1, IdleIsFree, PhasesDiffer DEF Pending
<1>8. ASSUME NEW s \in Handlers \ {t} PROVE Pending(s)'
  <2>0. task'[s] = task[s] /\ Pending(s)
    BY <1>1 DEF OrderInv
  <2>1. task[s].phase # "submit"
    BY <1>1 DEF OrderInv, OneSubmits
  <2>2. task[s].phase # "register"
    BY <1>1, OneRegisters
  <2>3. ASSUME task[s].phase \in Open PROVE task[s].key \in claimed
    <3>1. task[s].phase \in Decided /\ task[s].phase # "idle"
      BY <2>3, PhasesDiffer
    <3>2. task[s].bar = b
      BY <1>0, <3>1, BarIsLast
    <3>3. Step(s) \in Int /\ Step(s) # 0
      BY <1>0, <3>1, StepIs
    <3>4. Reached + Step(s) # chosen[b]
      BY <1>2, <1>3, <3>3
    <3> QED
      BY <2>0, <2>3, <3>2, <3>4 DEF Pending
  <2> QED
    BY <1>1, <2>0, <2>1, <2>2, <2>3 DEF Pending
<1>9. OneSubmits'
  <2>1. task'[t].phase # "submit"
    BY <1>7, PhasesDiffer
  <2> QED
    BY <1>1, <2>1 DEF OrderInv, OneSubmits
<1> QED
  BY <1>6, <1>7, <1>8, <1>9 DEF OrderInv

LEMMA OrderStep ==
  /\ OrderInv /\ LeavesInv /\ ClaimInv /\ BarsInv /\ CallersInv /\ Typed /\ Typed' /\ SwitchInv
  /\ [Next]_vars
  => OrderInv'
<1> SUFFICES ASSUME OrderInv, LeavesInv, ClaimInv, BarsInv, CallersInv, Typed, Typed', SwitchInv,
                    [Next]_vars
             PROVE  OrderInv'
  OBVIOUS
<1>0. Shape /\ "md" \in Handlers /\ "subs" \in Threads /\ Handlers \subseteq Threads
  BY DEF SwitchInv, Handlers, Threads
<1>1. CASE ended \/ End
  <2>1. ended'
    BY <1>1, EndedStays DEF End
  <2> QED
    BY <2>1 DEF OrderInv, Ordering
<1> SUFFICES ASSUME ~ended, ~End PROVE OrderInv'
  BY <1>1
<1>2. ASSUME NEW t \in Handlers, Decide(t) PROVE OrderInv'
  BY <1>0, <1>2, AdvanceOrders, RegisterOrders, TargetOrders DEF Decide
<1>3. ASSUME NEW t \in Handlers, PaperReturns(t) PROVE OrderInv'
  <2>1. /\ UNCHANGED <<chosen, claimed, sent, ended, conduct>> /\ Finish(t)
        /\ \A s \in Handlers \ {t} : task'[s] = task[s]
    BY <1>0, <1>3, Returns
  <2>2. Reached' = Reached
    BY <1>0, <1>3, PaperReaches
  <2>3. task'[t].phase \notin Decided
    BY <1>0, <2>1, Ends, IdleIsFree
  <2> QED
    BY <2>1, <2>2, <2>3, OrderStays
<1>4. CASE LocalHandler \/ \E t \in Handlers : PaperHandler(t) \/ StageHandler(t) \/ RouteHandler(t)
  BY <1>0, <1>2, <1>3, <1>4, SubmitOrders, UnmarkedOrders
     DEF LocalHandler, PaperHandler, StageHandler, RouteHandler
<1>5. CASE Reached' = Reached /\ UNCHANGED <<task, chosen, sent, claimed, conduct, ended>>
  BY <1>5, OrderStays
<1>6. ASSUME NEW t \in Threads, Book(t) PROVE OrderInv'
  <2>1. UNCHANGED <<task, chosen, sent, claimed, conduct, ended>>
    BY <1>6, BookMoves DEF session, risk, history
  <2> QED
    BY <1>5, <1>6, <2>1, BookReaches
<1>7. CASE StageDone \/ Count
  <2>1. /\ FillDone /\ UNCHANGED <<books, session, working, orders, news, sent, conduct>>
        /\ UNCHANGED <<claimed, ended>>
    BY <1>7 DEF StageDone, Count, risk, history
  <2>2. UNCHANGED <<task, chosen>>
    BY <2>1 DEF session
  <2> QED
    BY <1>5, <2>1, <2>2, DoneReaches
<1>8. CASE SubsUpdate
  <2>1. UNCHANGED <<task, chosen, sent, claimed, conduct, ended>>
    BY <1>8 DEF SubsUpdate, session, history
  <2> QED
    BY <1>5, <1>8, <2>1, UpdateReaches
<1>9. CASE \/ LocalCallback \/ \E t \in Handlers : PaperCallback(t)
           \/ StageCallback \/ RouteCallback
  BY <1>0, <1>6, <1>7, <1>8, <1>9 DEF LocalCallback, PaperCallback, StageCallback, RouteCallback
<1>10. ASSUME NEW k \in DOMAIN orders, NEW q, NEW price \in conduct.prices, VenueFills(k, q, price)
       PROVE  OrderInv'
  <2>1. UNCHANGED <<task, chosen, sent, claimed, conduct, ended, book, working, call>>
    BY <1>10 DEF VenueFills, session, risk, history
  <2> QED
    BY <1>5, <2>1, ReachedStays
<1>11. CASE Audit \/ UNCHANGED vars
  <2>1. UNCHANGED <<task, chosen, sent, claimed, conduct, ended, book, working, call>>
    BY <1>11 DEF Audit, WriteStatement, StartReconciler, Compare, StopReconciler, vars, books, session,
                 risk, venue, history
  <2> QED
    BY <1>5, <2>1, ReachedStays
<1>12. CASE StopWaiting \/ \E m \in Minutes : OnTick(m)
  <2>1. UNCHANGED <<chosen, sent, claimed, conduct, ended, book, working, call>>
    BY <1>12 DEF StopWaiting, OnTick, books, risk, venue, history
  <2>2. \/ UNCHANGED task
        \/ \E t \in Handlers : task' = [task EXCEPT ![t] = [Idle EXCEPT !.phase = "bar", !.bar = openBar]]
    BY <1>12 DEF StopWaiting, OnTick, Handlers
  <2>3. \A t \in Handlers : task'[t] = task[t] \/ task'[t].phase \notin Decided
    <3>1. "bar" \notin Decided
      BY DEF Decided, Held
    <3> QED
      BY <1>0, <2>2, <3>1, NewBar
  <2> QED
    BY <2>1, <2>3, ReachedStays, OrderStays
<1>13. CASE Restart
  BY <1>13 DEF Restart, CallersInv, Running
<1> QED
  BY <1>4, <1>9, <1>10, <1>11, <1>12, <1>13 DEF Next

LEMMA InitOrders == Init => OrderInv
<1> SUFFICES ASSUME Init PROVE OrderInv
  OBVIOUS
<1>1. \A t \in Handlers : task[t].phase \notin Decided
  BY IdleIsFree DEF Init
<1>2. \A b \in Minutes : sent[b] = 0
  BY DEF Init
<1>3. \A t \in Handlers : Pending(t)
  BY <1>1, PhasesDiffer DEF Pending
<1>4. \A b \in Minutes : SentOnce(b)
  BY <1>2 DEF SentOnce
<1> QED
  BY <1>1, <1>3, <1>4, PhasesDiffer DEF OrderInv, OneSubmits

(* A bar that two handlers emit makes one order.                           *)
THEOREM OneOrderPerBarAlways == Spec => []OneOrderPerBar
<1>1. OrderInv => OneOrderPerBar
  BY DEF OrderInv, Ordering, SentOnce, OneOrderPerBar
<1> QED
  BY <1>1, InitOrders, OrderStep, LeavesInvariant, ClaimInvariant, BarsInvariant, CallersInvariant,
     TypedInvariant, SwitchInvariant, PTL DEF Spec

-----------------------------------------------------------------------------
(* ProfitIsMarkedCash.  Fractions are compared by cross-multiplication: a  *)
(* stands for p / q if a.num * q = p * a.den.                              *)

Fractions   == [num : Int, den : Nat \ {0}]
Is(a, p, q) == a \in Fractions /\ a.num * q = p * a.den

LEMMA Cancel ==
  ASSUME NEW a \in Int, NEW b \in Int, NEW c \in Int \ {0}, a * c = b * c
  PROVE  a = b
OBVIOUS

LEMMA Division ==
  ASSUME NEW m \in Int, NEW g \in Nat \ {0}
  PROVE  /\ m \div g \in Int /\ (m % g) \in 0..(g - 1) /\ m = g * (m \div g) + (m % g)
         /\ (g * m) \div g = m /\ (g * m) % g = 0
OBVIOUS

LEMMA Product ==
  ASSUME NEW a \in Int \ {0}, NEW b \in Int \ {0}
  PROVE  a * b \in Int \ {0}
OBVIOUS

(* A common divisor that no other exceeds.                                 *)
LEMMA GcdIs ==
  ASSUME NEW m \in Nat, NEW n \in Nat \ {0}
  PROVE  /\ Gcd(m, n) \in Nat \ {0} /\ m % Gcd(m, n) = 0 /\ n % Gcd(m, n) = 0
         /\ \A e \in Nat \ {0} : m % e = 0 /\ n % e = 0 /\ e <= m + n => e <= Gcd(m, n)
<1> DEFINE C == {d \in 1..(m + n) : m % d = 0 /\ n % d = 0}
           S == {i \in Nat : m + n - i \in C}
<1>1. 1 \in C
  <2>1. m % 1 = 0 /\ n % 1 = 0
    OBVIOUS
  <2> QED
    BY <2>1
<1>2. m + n - 1 \in S
  <2>1. m + n - (m + n - 1) = 1 /\ m + n - 1 \in Nat
    OBVIOUS
  <2> QED
    BY <1>1, <2>1
<1>3. PICK i \in S : \A j \in S : i <= j
  <2>1. S \in SUBSET Nat /\ S # {}
    BY <1>2
  <2> HIDE DEF S
  <2> QED
    BY <2>1, Least
<1> DEFINE d == m + n - i
<1>4. d \in C /\ i \in Nat
  BY <1>3
<1>5. \A e \in C : e <= d
  <2> TAKE e \in C
  <2>1. e \in Int /\ 1 <= e /\ e <= m + n
    OBVIOUS
  <2>2. m + n - (m + n - e) = e /\ m + n - e \in Nat
    BY <2>1
  <2>3. m + n - e \in S
    BY <2>2
  <2> QED
    BY <1>3, <1>4, <2>1, <2>3
<1>6. d \in 1..(m + n) /\ d \in Int
  BY <1>4
<1>7. \A e \in (d + 1)..(m + n) : m % e # 0 \/ n % e # 0
  <2> SUFFICES ASSUME NEW e \in (d + 1)..(m + n), m % e = 0, n % e = 0 PROVE FALSE
    OBVIOUS
  <2> HIDE DEF d
  <2>1. e \in Int /\ d < e /\ e \in 1..(m + n)
    BY <1>6
  <2>2. e \in C
    BY <2>1
  <2> HIDE DEF C
  <2> QED
    BY <1>5, <1>6, <2>1, <2>2
<1>8. m % d = 0 /\ n % d = 0
  BY <1>4
<1> HIDE DEF d
<1>9. /\ Gcd(m, n) \in 1..(m + n) /\ m % Gcd(m, n) = 0 /\ n % Gcd(m, n) = 0
      /\ \A e \in (Gcd(m, n) + 1)..(m + n) : m % e # 0 \/ n % e # 0
  BY <1>6, <1>7, <1>8 DEF Gcd
<1> DEFINE g == Gcd(m, n)
<1> HIDE DEF g
<1>10. g \in Nat \ {0}
  BY <1>9 DEF g
<1>11. \A e \in Nat \ {0} : m % e = 0 /\ n % e = 0 /\ e <= m + n => e <= g
  <2> SUFFICES ASSUME NEW e \in Nat \ {0}, m % e = 0, n % e = 0, e <= m + n, ~(e <= g)
               PROVE FALSE
    OBVIOUS
  <2>1. e \in (g + 1)..(m + n)
    BY <1>10
  <2> QED
    BY <1>9, <2>1 DEF g
<1> QED
  BY <1>9, <1>10, <1>11 DEF g

(* A fraction in lowest terms has the value of the quotient, and is whole  *)
(* if the quotient is.                                                     *)
LEMMA FracIs ==
  ASSUME NEW n \in Int, NEW d \in Int \ {0}
  PROVE  /\ Is(Frac(n, d), n, d)
         /\ \A k \in Int : n = k * d => Frac(n, d) = Whole(k)
<1> DEFINE m    == Magnitude(n)
           e    == Magnitude(d)
           g    == Gcd(m, e)
           sign == IF d < 0 THEN -1 ELSE 1
<1>1. /\ m \in Nat /\ e \in Nat \ {0} /\ (n = m \/ n = -m)
      /\ (sign = 1 /\ d = e) \/ (sign = -1 /\ d = -e)
  BY DEF Magnitude
<1>2. Frac(n, d) = [num |-> (sign * n) \div g, den |-> e \div g]
  BY DEF Frac
<1> HIDE DEF m, e, g, sign
<1>3. /\ g \in Nat \ {0} /\ m % g = 0 /\ e % g = 0
      /\ \A f \in Nat \ {0} : m % f = 0 /\ e % f = 0 /\ f <= m + e => f <= g
  BY <1>1, GcdIs DEF g
<1> DEFINE a == m \div g
           b == e \div g
<1>4. a \in Int /\ b \in Int /\ m = g * a /\ e = g * b
  BY <1>1, <1>3, Division
<1> HIDE DEF a, b
<1>5. b \in Nat \ {0}
  BY <1>1, <1>3, <1>4
<1> DEFINE c == IF n = m THEN a ELSE -a
<1>6. c \in Int /\ n = g * c
  BY <1>1, <1>3, <1>4
<1> HIDE DEF c
<1>7. sign * c \in Int /\ sign * n = g * (sign * c)
  BY <1>1, <1>3, <1>6
<1>8. (sign * n) \div g = sign * c
  BY <1>3, <1>7, Division
<1>9. Frac(n, d) = [num |-> sign * c, den |-> b]
  BY <1>2, <1>8 DEF b
<1>10. (sign * c) * d = n * b
  BY <1>1, <1>3, <1>4, <1>6
<1>11. Is(Frac(n, d), n, d)
  BY <1>5, <1>7, <1>9, <1>10 DEF Is, Fractions
<1>12. ASSUME NEW k \in Int, n = k * d PROVE Frac(n, d) = Whole(k)
  <2>1. \E j \in Int : m = e * j
    <3>1. m = e * k \/ m = e * (-k)
      BY <1>1, <1>12
    <3> QED
      BY <3>1
  <2>2. m % e = 0 /\ e % e = 0
    <3>1. \A j \in Int : (e * j) % e = 0
      BY <1>1, Division
    <3>2. e = e * 1
      BY <1>1
    <3> QED
      BY <2>1, <3>1, <3>2
  <2>3. e <= g
    BY <1>1, <1>3, <2>2
  <2>4. b = 1
    BY <1>1, <1>3, <1>4, <1>5, <2>3
  <2>5. e = g
    BY <1>3, <1>4, <2>4
  <2>6. sign * c = k
    BY <1>1, <1>3, <1>6, <1>12, <2>5
  <2> QED
    BY <1>9, <2>4, <2>6 DEF Whole
<1> QED
  BY <1>11, <1>12

LEMMA IsTyped ==
  ASSUME NEW a, NEW p, NEW q, Is(a, p, q)
  PROVE  a.num \in Int /\ a.den \in Nat \ {0} /\ a.num * q = p * a.den
BY DEF Is, Fractions

(* Equal quotients.                                                        *)
LEMMA IsAlso ==
  ASSUME NEW a, NEW p \in Int, NEW q \in Int \ {0}, NEW r \in Int, NEW s \in Int \ {0},
         p * s = r * q
  PROVE  Is(a, p, q) <=> Is(a, r, s)
<1>1. \A u \in Int, v \in Nat \ {0} : u * q = p * v => u * s = r * v
  <2> SUFFICES ASSUME NEW u \in Int, NEW v \in Nat \ {0}, u * q = p * v PROVE u * s = r * v
    OBVIOUS
  <2>1. (u * s) * q = (u * q) * s
    OBVIOUS
  <2>2. (u * q) * s = (p * s) * v
    OBVIOUS
  <2>3. (r * v) * q = (r * q) * v
    OBVIOUS
  <2>4. (u * s) * q = (r * v) * q
    BY <2>1, <2>2, <2>3
  <2> QED
    BY <2>4, Cancel
<1>2. \A u \in Int, v \in Nat \ {0} : u * s = r * v => u * q = p * v
  <2> SUFFICES ASSUME NEW u \in Int, NEW v \in Nat \ {0}, u * s = r * v PROVE u * q = p * v
    OBVIOUS
  <2>1. (u * q) * s = (u * s) * q
    OBVIOUS
  <2>2. (u * s) * q = (r * q) * v
    OBVIOUS
  <2>3. (p * v) * s = (p * s) * v
    OBVIOUS
  <2>4. (u * q) * s = (p * v) * s
    BY <2>1, <2>2, <2>3
  <2> QED
    BY <2>4, Cancel
<1> QED
  BY <1>1, <1>2 DEF Is, Fractions

LEMMA WholeIs ==
  ASSUME NEW n \in Int
  PROVE  Is(Whole(n), n, 1)
BY DEF Is, Fractions, Whole

LEMMA PlusIs ==
  ASSUME NEW a, NEW p \in Int, NEW q \in Int \ {0}, Is(a, p, q),
         NEW b, NEW r \in Int, NEW s \in Int \ {0}, Is(b, r, s)
  PROVE  Is(Plus(a, b), p * s + r * q, q * s)
<1> DEFINE an == a.num
           ad == a.den
           bn == b.num
           bd == b.den
<1>1. /\ an \in Int /\ ad \in Int \ {0} /\ an * q = p * ad
      /\ bn \in Int /\ bd \in Int \ {0} /\ bn * s = r * bd
  BY IsTyped
<1>2. Plus(a, b) = Frac(an * bd + bn * ad, ad * bd)
  BY DEF Plus
<1> HIDE DEF an, ad, bn, bd
<1>3. ad * bd \in Int \ {0} /\ q * s \in Int \ {0}
  BY <1>1, Product
<1>4. an * bd + bn * ad \in Int /\ p * s + r * q \in Int
  BY <1>1
<1>5. Is(Plus(a, b), an * bd + bn * ad, ad * bd)
  BY <1>2, <1>3, <1>4, FracIs
<1>6. (an * bd + bn * ad) * (q * s) = (p * s + r * q) * (ad * bd)
  <2>1. (an * bd + bn * ad) * (q * s) = (an * q) * bd * s + (bn * s) * ad * q
    BY <1>1
  <2>2. (p * s + r * q) * (ad * bd) = (p * ad) * bd * s + (r * bd) * ad * q
    BY <1>1
  <2> QED
    BY <1>1, <2>1, <2>2
<1> QED
  BY <1>3, <1>4, <1>5, <1>6, IsAlso

LEMMA TimesIs ==
  ASSUME NEW a, NEW p \in Int, NEW q \in Int \ {0}, Is(a, p, q), NEW n \in Int
  PROVE  Is(Times(n, a), n * p, q)
<1> DEFINE an == a.num
           ad == a.den
<1>1. an \in Int /\ ad \in Int \ {0} /\ an * q = p * ad
  BY IsTyped
<1>2. Times(n, a) = Frac(n * an, ad)
  BY DEF Times
<1> HIDE DEF an, ad
<1>3. n * an \in Int /\ n * p \in Int
  BY <1>1
<1>4. Is(Times(n, a), n * an, ad)
  BY <1>1, <1>2, <1>3, FracIs
<1>5. (n * an) * q = (n * p) * ad
  BY <1>1
<1> QED
  BY <1>1, <1>3, <1>4, <1>5, IsAlso

LEMMA OverIs ==
  ASSUME NEW a, NEW p \in Int, NEW q \in Int \ {0}, Is(a, p, q), NEW n \in Int \ {0}
  PROVE  Is(Over(a, n), p, q * n)
<1> DEFINE an == a.num
           ad == a.den
<1>1. an \in Int /\ ad \in Int \ {0} /\ an * q = p * ad
  BY IsTyped
<1>2. Over(a, n) = Frac(an, ad * n)
  BY DEF Over
<1> HIDE DEF an, ad
<1>3. ad * n \in Int \ {0} /\ q * n \in Int \ {0}
  BY <1>1, Product
<1>4. Is(Over(a, n), an, ad * n)
  BY <1>1, <1>2, <1>3, FracIs
<1>5. an * (q * n) = p * (ad * n)
  BY <1>1
<1> QED
  BY <1>1, <1>3, <1>4, <1>5, IsAlso

(* The fractions that the books compute: a price less an average cost ...  *)
LEMMA GainIs ==
  ASSUME NEW a, NEW p \in Int, NEW q \in Int \ {0}, Is(a, p, q), NEW price \in Int,
         NEW n \in Int
  PROVE  Is(Times(n, Minus(Whole(price), a)), n * (price * q - p), q)
<1>1. Is(Times(-1, a), -1 * p, q) /\ -1 * p \in Int
  BY TimesIs
<1>2. Is(Minus(Whole(price), a), price * q + (-1 * p) * 1, 1 * q)
  BY <1>1, WholeIs, PlusIs DEF Minus
<1>3. price * q + (-1 * p) * 1 = price * q - p /\ 1 * q = q /\ price * q - p \in Int
  OBVIOUS
<1> QED
  BY <1>2, <1>3, TimesIs

(* ... and an average.                                                     *)
LEMMA BlendIs ==
  ASSUME NEW row, NEW p \in Int, NEW q \in Int \ {0}, Is(row.avg, p, q), row.qty \in Int,
         NEW signed \in Int, NEW price \in Int, row.qty + signed # 0
  PROVE  Is(Blend(row, signed, price), row.qty * p + price * signed * q,
            q * (row.qty + signed))
<1> DEFINE n == row.qty
<1>0. n \in Int
  OBVIOUS
<1> HIDE DEF n
<1>1. Is(Times(n, row.avg), n * p, q) /\ n * p \in Int /\ price * signed \in Int /\ n \in Int
  BY <1>0, TimesIs
<1>2. Is(Plus(Times(n, row.avg), Whole(price * signed)), (n * p) * 1 + (price * signed) * q, q * 1)
  BY <1>1, WholeIs, PlusIs
<1>3. /\ (n * p) * 1 + (price * signed) * q = n * p + price * signed * q /\ q * 1 = q
      /\ n * p + price * signed * q \in Int
  BY <1>1
<1>4. Is(Plus(Times(n, row.avg), Whole(price * signed)), n * p + price * signed * q, q)
  BY <1>2, <1>3
<1>5. n + signed \in Int \ {0}
  BY <1>1 DEF n
<1>6. Is(Over(Plus(Times(n, row.avg), Whole(price * signed)), n + signed),
         n * p + price * signed * q, q * (n + signed))
  BY <1>3, <1>4, <1>5, OverIs
<1> QED
  BY <1>6 DEF Blend, n

(* What is realized is the cash of the fills plus what is open at its      *)
(* average cost: with avg = p / q, PointValue * (cash + qty * p / q).      *)
Marked(row, tr) ==
  /\ row.qty = tr.qty /\ tr.qty \in Int /\ tr.cash \in Int
  /\ row.avg \in Fractions
  /\ Is(row.realized, PointValue * (tr.cash * row.avg.den + tr.qty * row.avg.num),
        row.avg.den)

LEMMA FractionIs ==
  ASSUME NEW a \in Fractions
  PROVE  a.num \in Int /\ a.den \in Nat \ {0} /\ Is(a, a.num, a.den)
BY DEF Is, Fractions

(* So that it is, with what is open at any mark, marked cash.              *)
LEMMA TotalIs ==
  ASSUME NEW row, NEW tr, Marked(row, tr), NEW mark \in Int
  PROVE  Total(row, mark) = Whole(PointValue * (tr.cash + tr.qty * mark))
<1> DEFINE p == row.avg.num
           q == row.avg.den
           n == tr.qty
           c == tr.cash
           r == PointValue
<1>1. p \in Int /\ q \in Nat \ {0} /\ Is(row.avg, p, q) /\ n \in Int /\ c \in Int /\ r \in Int
  BY FractionIs, PortfolioAssumption DEF Marked
<1>2. row.qty = n /\ Is(row.realized, r * (c * q + n * p), q)
  BY DEF Marked
<1>3. Total(row, mark) = Plus(row.realized, Times(r * n, Minus(Whole(mark), row.avg)))
  BY <1>2 DEF Total
<1> HIDE DEF p, q, n, c, r
<1>4. r * n \in Int /\ (r * n) * (mark * q - p) \in Int /\ r * (c * q + n * p) \in Int
      /\ r * (c + n * mark) \in Int /\ q \in Int \ {0} /\ q * q \in Int \ {0}
  BY <1>1, Product
<1>5. Is(Times(r * n, Minus(Whole(mark), row.avg)), (r * n) * (mark * q - p), q)
  BY <1>1, <1>4, GainIs
<1> DEFINE e == Times(r * n, Minus(Whole(mark), row.avg))
           m == (r * n) * (mark * q - p)
           k == r * (c * q + n * p)
           t == r * (c + n * mark)
<1>6. k * q + m * q = t * (q * q)
  BY <1>1
<1>7. m \in Int /\ k \in Int /\ t \in Int /\ k * q + m * q \in Int /\ Is(e, m, q)
      /\ Is(row.realized, k, q)
  BY <1>1, <1>2, <1>4, <1>5
<1> HIDE DEF e, m, k, t
<1>8. PICK x \in Fractions, y \in Fractions :
        row.realized = x /\ e = y
  BY <1>7 DEF Is
<1>9. Is(Plus(x, y), t, 1)
  <2>1. Is(Plus(x, y), k * q + m * q, q * q)
    BY <1>4, <1>7, <1>8, PlusIs
  <2>2. (k * q + m * q) * 1 = t * (q * q)
    BY <1>6, <1>7, <1>4
  <2> QED
    BY <1>4, <1>7, <2>1, <2>2, IsAlso
<1>10. Plus(x, y) = Whole(t)
  <2> DEFINE N == x.num * y.den + y.num * x.den
             D == x.den * y.den
  <2>1. N \in Int /\ D \in Int \ {0} /\ Plus(x, y) = Frac(N, D)
    <3>1. x.num \in Int /\ y.num \in Int /\ x.den \in Int \ {0} /\ y.den \in Int \ {0}
      BY DEF Fractions
    <3>2. \A a, b \in Int \ {0} : a * b \in Int \ {0}
      BY Product
    <3> QED
      BY <3>1, <3>2 DEF Plus
  <2> HIDE DEF N, D
  <2>2. Is(Frac(N, D), N, D) /\ Is(Frac(N, D), t, 1)
    BY <1>9, <2>1, FracIs
  <2> DEFINE u == Frac(N, D).num
             v == Frac(N, D).den
  <2>3. u \in Int /\ v \in Nat \ {0} /\ u * D = N * v /\ u * 1 = t * v
    BY <2>2, IsTyped
  <2> HIDE DEF u, v
  <2>4. N * v = (t * D) * v
    BY <1>7, <2>1, <2>3
  <2>5. N = t * D
    BY <1>7, <2>1, <2>3, <2>4, Cancel
  <2> QED
    BY <1>7, <2>1, <2>5, FracIs
<1> QED
  BY <1>3, <1>8, <1>10 DEF e, t, r, n, c

(* Booking a fill keeps that, whether it opens, adds, closes in part or in *)
(* whole, or flips.                                                        *)
LEMMA PnlFillMarked ==
  ASSUME NEW row, NEW tr, Marked(row, tr), NEW s \in Int, NEW price \in Int
  PROVE  Marked(PnlFill(row, s, price), [qty |-> tr.qty + s, cash |-> tr.cash - s * price])
<1> DEFINE p == row.avg.num
           q == row.avg.den
           n == tr.qty
           c == tr.cash
           r == PointValue
           new == PnlFill(row, s, price)
           opens == SameSide(n, s)
           z == IF n > 0 THEN Closed(n, s) ELSE -Closed(n, s)
           k == r * (c * q + n * p)
           gain == IF n > 0 THEN 1 ELSE -1
           unit == Times(gain, Minus(Whole(price), row.avg))
           w == r * Closed(n, s)
           nc == c - s * price
           nn == n + s
           Same(x, P, Q) == x * Q = r * (nc * Q + nn * P) * q
           zero == 0
           one == 1
<1> SUFFICES Marked(new, [qty |-> nn, cash |-> nc])
  OBVIOUS
<1>1. p \in Int /\ q \in Nat \ {0} /\ Is(row.avg, p, q) /\ n \in Int /\ c \in Int /\ r \in Int
  BY FractionIs, PortfolioAssumption DEF Marked
<1>2. row.qty = n /\ Is(row.realized, k, q)
  BY DEF Marked
<1>3. /\ new.qty = nn
      /\ opens /\ nn # 0 => new.avg = Blend(row, s, price)
      /\ nn = 0 => new.avg = Whole(0)
      /\ ~opens /\ nn # 0 => new.avg = IF Crosses(n, nn) THEN Whole(price) ELSE row.avg
      /\ opens => new.realized = row.realized
      /\ ~opens => new.realized = Plus(row.realized, Times(w, unit))
  BY <1>2 DEF PnlFill
<1> HIDE DEF p, q, n, c, r, new
<1>4. /\ gain \in {1, -1} /\ Closed(n, s) \in Int /\ z = gain * Closed(n, s) /\ z \in Int
      /\ nn \in Int /\ nc \in Int /\ k \in Int
  BY <1>1 DEF Closed, Magnitude
<1>5. opens /\ nn = 0 => n = 0 /\ s = 0
  BY <1>1 DEF SameSide
<1>6. ~opens => n # 0 /\ (n > 0 => s <= 0) /\ (n < 0 => s > 0)
  BY <1>1 DEF SameSide
<1>7. /\ ~opens /\ nn = 0 => z = n
      /\ ~opens /\ nn # 0 /\ Crosses(n, nn) => z = n
      /\ ~opens /\ nn # 0 /\ ~Crosses(n, nn) => z = -s
  <2> HIDE DEF opens
  <2> QED
    BY <1>1, <1>6 DEF Crosses, Closed, Magnitude
<1> HIDE DEF opens, z, gain
<1>8. ~opens => Is(new.realized, k + r * z * (price * q - p), q)
  <2> SUFFICES ASSUME ~opens PROVE Is(new.realized, k + r * z * (price * q - p), q)
    OBVIOUS
  <2> DEFINE g == gain * (price * q - p)
             m == w * g
  <2>1. gain \in Int /\ w \in Int /\ q \in Int \ {0} /\ g \in Int /\ m \in Int /\ z \in Int
    BY <1>1, <1>4
  <2>2. m = r * z * (price * q - p)
    BY <1>1, <1>4, <2>1 DEF w
  <2>3. Is(unit, g, q)
    BY <1>1, <2>1, GainIs
  <2>4. k + m \in Int /\ k * q + m * q \in Int /\ q * q \in Int \ {0} /\ k \in Int
    BY <1>1, <1>4, <2>1, Product
  <2>5. (k * q + m * q) * q = (k + m) * (q * q)
    BY <2>1, <2>4
  <2> HIDE DEF unit, w, k, g
  <2>6. Is(Times(w, unit), m, q)
    BY <2>1, <2>3, TimesIs
  <2> HIDE DEF m
  <2>7. Is(Plus(row.realized, Times(w, unit)), k * q + m * q, q * q)
    BY <1>2, <2>1, <2>4, <2>6, PlusIs
  <2>8. Is(Plus(row.realized, Times(w, unit)), k + m, q)
    BY <2>1, <2>4, <2>5, <2>7, IsAlso
  <2> QED
    BY <1>3, <2>2, <2>8 DEF k
<1>9. opens => Is(new.realized, k, q)
  BY <1>2, <1>3
(* The new average stands for P / Q, and is kept by the new row as such.   *)
<1>10. ASSUME NEW P \in Int, NEW Q \in Int \ {0}, Is(new.avg, P, Q),
             NEW x \in Int, Is(new.realized, x, q), Same(x, P, Q)
      PROVE  Marked(new, [qty |-> nn, cash |-> nc])
  <2> DEFINE u == new.avg.num
             v == new.avg.den
  <2>1. u \in Int /\ v \in Nat \ {0} /\ u * Q = P * v /\ new.avg \in Fractions
    BY <1>10, IsTyped DEF Is
  <2> HIDE DEF u, v
  <2>2. r * (nc * v + nn * u) \in Int /\ v \in Int \ {0} /\ q \in Int \ {0}
    BY <1>1, <1>4, <2>1
  <2>3. x * v = r * (nc * v + nn * u) * q
    <3> HIDE DEF nc, nn
    <3>1. (x * v) * Q = (x * Q) * v
      BY <1>10, <2>1
    <3>2. (x * Q) * v = (r * (nc * Q + nn * P) * q) * v
      BY <1>10
    <3>3. (r * (nc * Q + nn * P) * q) * v = r * q * (nc * Q * v + nn * (P * v))
      BY <1>1, <1>4, <1>10, <2>1
    <3>4. (r * (nc * v + nn * u) * q) * Q = r * q * (nc * Q * v + nn * (u * Q))
      BY <1>1, <1>4, <1>10, <2>1
    <3>5. (x * v) * Q = (r * (nc * v + nn * u) * q) * Q
      BY <3>1, <3>2, <3>3, <3>4, <2>1
    <3>6. x * v \in Int /\ r * (nc * v + nn * u) * q \in Int
      BY <1>1, <1>10, <2>1, <2>2
    <3> QED
      BY <3>5, <3>6, <1>10, Cancel
  <2>4. Is(new.realized, r * (nc * v + nn * u), v)
    BY <1>10, <2>2, <2>3, IsAlso
  <2> QED
    BY <1>3, <1>4, <2>1, <2>4 DEF Marked, u, v, r
<1> DEFINE y == k + r * z * (price * q - p)
<1>11. y \in Int /\ (~opens => Is(new.realized, y, q)) /\ k \in Int
  BY <1>1, <1>4, <1>8
<1>12. CASE nn = 0
  <2>1. Is(new.avg, zero, one) /\ zero \in Int /\ one \in Int \ {0}
    BY <1>3, <1>12, WholeIs
  <2>2. CASE opens
    <3>1. n = 0 /\ s = 0
      BY <1>5, <1>12, <2>2
    <3>2. Same(k, zero, one)
      BY <1>1, <1>4, <1>12, <3>1
    <3> HIDE DEF Same, k, nc, nn, zero, one
    <3> QED
      BY <1>9, <1>10, <1>11, <2>1, <2>2, <3>2
  <2>3. CASE ~opens
    <3>1. s = -n /\ z = n
      BY <1>1, <1>7, <1>12, <2>3
    <3>2. Same(y, zero, one)
      BY <1>1, <1>4, <1>12, <3>1
    <3> HIDE DEF Same, y, nc, nn, zero, one
    <3> QED
      BY <1>10, <1>11, <2>1, <2>3, <3>2
  <2> QED
    BY <2>2, <2>3
<1>13. CASE nn # 0 /\ opens
  <2> DEFINE P == n * p + price * s * q
             Q == q * nn
  <2>1. nn \in Int \ {0} /\ q \in Int \ {0} /\ p \in Int /\ P \in Int
    BY <1>1, <1>4, <1>13
  <2>2. Q \in Int \ {0}
    BY <2>1, Product
  <2>3. Is(new.avg, P, Q)
    <3>1. row.qty \in Int /\ row.qty + s # 0
      BY <1>1, <1>2, <1>13
    <3>2. Is(Blend(row, s, price), row.qty * p + price * s * q, q * (row.qty + s))
      BY <1>1, <2>1, <3>1, BlendIs
    <3> QED
      BY <1>2, <1>3, <1>13, <3>2
  <2>4. Same(k, P, Q)
    BY <1>1, <1>4
  <2> HIDE DEF P, Q, Same, nc, nn, k
  <2> QED
    BY <1>9, <1>10, <1>11, <1>13, <2>1, <2>2, <2>3, <2>4
<1>14. CASE nn # 0 /\ ~opens
  <2>1. CASE Crosses(n, nn)
    <3>1. Is(new.avg, price, one) /\ one \in Int \ {0}
      BY <1>3, <1>14, <2>1, WholeIs
    <3>2. z = n
      BY <1>7, <1>14, <2>1
    <3>3. Same(y, price, one)
      BY <1>1, <3>2
    <3> HIDE DEF Same, y, nc, nn, one
    <3> QED
      BY <1>10, <1>11, <1>14, <3>1, <3>3
  <2>2. CASE ~Crosses(n, nn)
    <3>1. Is(new.avg, p, q) /\ q \in Int \ {0} /\ p \in Int
      BY <1>1, <1>3, <1>14, <2>2
    <3>2. z = -s
      BY <1>7, <1>14, <2>2
    <3>3. Same(y, p, q)
      BY <1>1, <3>2
    <3> HIDE DEF Same, y, nc, nn
    <3> QED
      BY <1>10, <1>11, <1>14, <3>1, <3>3
  <2> QED
    BY <2>1, <2>2
<1> QED
  BY <1>12, <1>13, <1>14

ProfitInv == Marked(pnl, traded) /\ \A t \in Threads : call[t].price \in Int

LEMMA PricesAre ==
  ASSUME Typed
  PROVE  /\ conduct.prices \subseteq Int
         /\ \A i \in DOMAIN news : news[i].price \in Int
<1>1. conduct.prices \subseteq Int
  BY ConductAssumption DEF Typed, SessionTyped
<1>2. \A i \in DOMAIN news : news[i] \in News
  BY DEF Typed, VenueTyped
<1> QED
  BY <1>1, <1>2 DEF News, Fills

LEMMA NoPnlMarked == Marked(NoPnl, [qty |-> 0, cash |-> 0]) /\ NoFill.price \in Int
<1> DEFINE k == PointValue * (0 * Whole(0).den + 0 * Whole(0).num)
<1>1. k = 0 /\ Whole(0).den = 1 /\ Whole(0) \in Fractions
  BY PortfolioAssumption DEF Whole, Fractions
<1>2. Is(Whole(0), k, Whole(0).den)
  BY <1>1 DEF Is, Whole
<1> QED
  BY <1>1, <1>2 DEF Marked, NoPnl, NoFill

(* A step that books nothing.                                              *)
LEMMA ProfitStays ==
  ASSUME ProfitInv, UNCHANGED <<pnl, traded>>,
         \A t \in Threads : call'[t].price \in Int \cup {call[t].price}
  PROVE  ProfitInv'
BY DEF ProfitInv

LEMMA BookProfit ==
  ASSUME Typed, ProfitInv, NEW t \in Threads, Book(t)
  PROVE  ProfitInv'
<1>1. \A s \in Threads : call'[s].price = call[s].price
  BY BookMoves
<1>2. CASE UNCHANGED <<pnl, traded>>
  BY <1>1, <1>2, ProfitStays
<1>3. CASE BookPnl(Signed(t), call[t].price)
  <2>1. Signed(t) \in Int /\ call[t].price \in Int /\ Marked(pnl, traded)
    BY SignedTyped DEF Typed, ProfitInv
  <2>2. Marked(PnlFill(pnl, Signed(t), call[t].price),
               [qty |-> traded.qty + Signed(t), cash |-> traded.cash - Signed(t) * call[t].price])
    BY <2>1, PnlFillMarked
  <2>3. Marked(pnl', traded')
    BY <1>3, <2>2 DEF BookPnl
  <2>4. Marked(pnl, traded)'
    BY <2>3 DEF Marked
  <2> QED
    BY <1>1, <2>4 DEF ProfitInv
<1> QED
  BY <1>2, <1>3 DEF Book, BookPosition, Store, ReadBack, books

LEMMA PaperProfit ==
  ASSUME Typed, Shape, ProfitInv, NEW t \in Handlers, SubmitPaper(t) \/ PaperReturns(t)
  PROVE  ProfitInv'
<1>0. CallTyped /\ t \in Threads /\ UNCHANGED <<pnl, traded>>
  BY DEF Typed, Threads, SubmitPaper, PaperReturns, books
<1>1. CASE SubmitPaper(t)
  <2>1. PICK price \in conduct.prices :
          call' = [call EXCEPT ![t] = [NoFill EXCEPT !.phase = "fill", !.key = task[t].key,
                                                     !.qty = task[t].key.qty, !.price = price]]
    BY <1>1 DEF SubmitPaper
  <2>2. price \in Int
    BY PricesAre
  <2> QED
    BY <1>0, <2>1, <2>2, ProfitStays DEF CallTyped, NoFill
<1>2. CASE PaperReturns(t)
  BY <1>0, <1>2, NoPnlMarked, ProfitStays DEF CallTyped, PaperReturns
<1> QED
  BY <1>1, <1>2

LEMMA SubsProfit ==
  ASSUME Typed, ProfitInv,
         \/ SubsUpdate
         \/ FillDone /\ UNCHANGED <<books, session, working, orders, news, sent, ended, conduct>>
  PROVE  ProfitInv'
<1>0. CallTyped /\ "subs" \in Threads /\ UNCHANGED <<pnl, traded>>
  BY DEF Typed, Threads, SubsUpdate, books
<1>1. CASE SubsUpdate
  <2>1. Head(news).price \in Int
    BY <1>1, PricesAre DEF SubsUpdate, Typed, VenueTyped
  <2> QED
    BY <1>0, <1>1, <2>1, ProfitStays DEF CallTyped, SubsUpdate
<1>2. CASE FillDone
  BY <1>0, <1>2, NoPnlMarked, ProfitStays DEF CallTyped, FillDone
<1> QED
  BY <1>1, <1>2

LEMMA ProfitStep == ProfitInv /\ Typed /\ SwitchInv /\ [Next]_vars => ProfitInv'
<1> SUFFICES ASSUME ProfitInv, Typed, SwitchInv, [Next]_vars PROVE ProfitInv'
  OBVIOUS
<1>0. Shape /\ "md" \in Handlers /\ "subs" \in Threads /\ Handlers \subseteq Threads
  BY DEF SwitchInv, Handlers, Threads
<1>1. ASSUME NEW t \in Handlers, Decide(t) \/ Submit(t) \/ SubmitFails(t) \/ SubmitUnmarked(t)
      PROVE  ProfitInv'
  BY <1>0, <1>1, HandlerMoves, ProfitStays DEF books
<1>2. ASSUME NEW t \in Handlers, LocalHandler \/ PaperHandler(t) \/ StageHandler(t) \/ RouteHandler(t)
      PROVE  ProfitInv'
  BY <1>0, <1>1, <1>2, PaperProfit DEF LocalHandler, PaperHandler, StageHandler, RouteHandler
<1>3. ASSUME NEW t \in Handlers, LocalCallback \/ PaperCallback(t) PROVE ProfitInv'
  BY <1>0, <1>3, BookProfit DEF LocalCallback, PaperCallback
<1>4. ASSUME StageCallback \/ RouteCallback PROVE ProfitInv'
  <2>1. CASE Book("subs")
    BY <1>0, <2>1, BookProfit
  <2>2. CASE StageDone \/ Count
    <3>1. FillDone /\ UNCHANGED <<books, session, working, orders, news, sent, ended, conduct>>
      BY <2>2 DEF StageDone, Count, risk, history
    <3> QED
      BY <3>1, SubsProfit
  <2> QED
    BY <1>4, <2>1, <2>2, SubsProfit DEF StageCallback, RouteCallback
<1>5. ASSUME NEW k, NEW q, NEW price, VenueFills(k, q, price) PROVE ProfitInv'
  BY <1>5, ProfitStays DEF VenueFills
<1>6. CASE StopWaiting \/ (\E m \in Minutes : OnTick(m)) \/ Audit \/ End \/ UNCHANGED vars
  BY <1>6, ProfitStays DEF StopWaiting, OnTick, Audit, End, vars, venue, books,
                           WriteStatement, StartReconciler, Compare, StopReconciler
<1>7. CASE Restart
  <2>1. pnl' = NoPnl /\ traded' = [qty |-> 0, cash |-> 0] /\ call' = NoCall
    BY <1>7 DEF Restart, WarmRestart
  <2>2. Marked(pnl', traded') /\ \A t \in Threads : call'[t].price \in Int
    BY <2>1, NoPnlMarked DEF NoCall
  <2>3. Marked(pnl, traded)'
    BY <2>2 DEF Marked
  <2> QED
    BY <2>2, <2>3 DEF ProfitInv
<1> QED
  BY <1>0, <1>2, <1>3, <1>4, <1>5, <1>6, <1>7 DEF Next

LEMMA InitProfit == Init => ProfitInv
BY NoPnlMarked DEF Init, PortfolioInit, ProfitInv, NoCall

(* Realized and unrealized profit at any mark are the cash of the fills    *)
(* plus their quantity at that mark, over partial closes, flips and fills  *)
(* of both sides.                                                          *)
THEOREM ProfitIsMarkedCashAlways == Spec => []ProfitIsMarkedCash
<1>1. ProfitInv => ProfitIsMarkedCash
  <2> SUFFICES ASSUME ProfitInv, NEW mark \in Prices
               PROVE  Total(pnl, mark) = Whole(PointValue * (traded.cash + traded.qty * mark))
    BY DEF ProfitIsMarkedCash
  <2>1. mark \in Int /\ Marked(pnl, traded)
    BY PortfolioAssumption DEF ProfitInv
  <2> QED
    BY <2>1, TotalIs
<1> QED
  BY <1>1, InitProfit, ProfitStep, TypedInvariant, SwitchInvariant, PTL DEF Spec

=============================================================================
