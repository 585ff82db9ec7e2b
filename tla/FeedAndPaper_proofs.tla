------------------------ MODULE FeedAndPaper_proofs -------------------------
(***************************************************************************)
(* The invariants of PaperExecution, for any targets, limits, number of    *)
(* bars, deliveries and calls that raise, and crashes between any two      *)
(* steps; and those of BarFeed, for any ticks, bar lengths, batches,       *)
(* failures and restarts.  The two need the same laws of sums over finite  *)
(* sets.                                                                   *)
(*                                                                         *)
(* PositionWithinLimit and TargetReached: the order in hand is in the      *)
(* working book with its whole quantity, and leads from the position, with *)
(* what other orders a raise has left in the book, to its bar's target;    *)
(* the position it leads to is within the limit (PaperInv).                *)
(* StoredPositionAccounted: the position lacks as many stored fills, or    *)
(* holds as many that are not stored, as there were crashes and raises,    *)
(* and the stored position one more between the insert of a fill and the   *)
(* write of the position (StoreInv).                                       *)
(* HandledInOrder and LostStaysPending: what is in hand is the end of what *)
(* was read, and what was handled lies before it (DeliveryInv).            *)
(* BarsAreReference: each bar holds the ticks heard while it was the       *)
(* latest one reached (BarsInv).                                           *)
(* LiveIsBacktest: each average is the weighted sum of the closes worked   *)
(* through, so that both targets and replay follow the same closes         *)
(* (LiveInv); one close more changes the sum as EMA.update changes the     *)
(* average.                                                                *)
(***************************************************************************)
EXTENDS PaperExecution, BarFeed, FiniteSetTheorems, SequenceTheorems, WellFoundedInduction,
        TLAPS

-----------------------------------------------------------------------------
(* Sums over finite sets.  The fold of the community modules is a          *)
(* recursive function on the subsets of a set; that there is one, and that *)
(* the order of its choices does not matter, is shown by a smallest        *)
(* counterexample.                                                         *)
SumIt(f, S, g) ==
  [s \in SUBSET S |-> IF s = {} THEN 0
                      ELSE LET x == CHOOSE x \in s : TRUE IN f[x] + g[s \ {x}]]
IsSum(f, S, g) == g = SumIt(f, S, g)
Sum(f, S) == MapThenSumSet(LAMBDA x : f[x], S)
First(s) == CHOOSE x \in s : TRUE

LEMMA Least ==
  ASSUME NEW S \in SUBSET Nat, S # {}
  PROVE  \E n \in S : \A m \in S : n <= m
<1> DEFINE R == OpToRel(<, Nat)
<1>1. \E n \in S : \A m \in S : <<m, n>> \notin R
  BY NatLessThanWellFounded, WFMin
<1>2. \A m, n \in Nat : m < n => <<m, n>> \in R
  BY DEF OpToRel
<1> HIDE DEF R
<1>3. PICK n \in S : \A m \in S : <<m, n>> \notin R
  BY <1>1
<1>4. \A m \in S : m \in Nat /\ n \in Nat /\ ~(m < n)
  BY <1>2, <1>3
<1>5. \A m \in S : n <= m
  BY <1>4
<1> QED
  BY <1>3, <1>5

(* Of a set of finite sets, one has no element that is smaller.            *)
LEMMA Smallest ==
  ASSUME NEW S, IsFiniteSet(S), NEW B \in SUBSET SUBSET S, B # {}
  PROVE  \E T \in B : \A U \in SUBSET T : U # T => U \notin B
<1>1. \A T \in SUBSET S : IsFiniteSet(T) /\ Cardinality(T) \in Nat
  BY FS_Subset, FS_CardinalityType
<1> DEFINE N == {Cardinality(T) : T \in B}
<1>2. N \in SUBSET Nat /\ N # {}
  BY <1>1
<1> HIDE DEF N
<1>3. PICK n \in N : \A m \in N : n <= m
  BY <1>2, Least
<1>4. PICK T \in B : n = Cardinality(T)
  BY <1>3 DEF N
<1>5. ASSUME NEW U \in SUBSET T, U # T, U \in B PROVE FALSE
  <2>1. IsFiniteSet(T) /\ Cardinality(U) \in Nat /\ Cardinality(T) \in Nat
    BY <1>1, <1>4, <1>5
  <2>2. Cardinality(U) < Cardinality(T)
    BY <2>1, <1>5, FS_Subset
  <2>3. Cardinality(U) \in N
    BY <1>5 DEF N
  <2> QED
    BY <1>3, <1>4, <2>1, <2>2, <2>3
<1> QED
  BY <1>5

LEMMA SumIs ==
  ASSUME NEW f, NEW S
  PROVE  Sum(f, S) = (CHOOSE g : IsSum(f, S, g))[S]
BY DEF Sum, MapThenSumSet, MapThenFoldSet, IsSum, SumIt

LEMMA SumUnfolds ==
  ASSUME NEW f, NEW S, NEW g, IsSum(f, S, g), NEW s \in SUBSET S
  PROVE  /\ s = {} => g[s] = 0
         /\ s # {} => First(s) \in s /\ g[s] = f[First(s)] + g[s \ {First(s)}]
<1>1. g[s] = SumIt(f, S, g)[s]
  BY DEF IsSum
<1>2. SumIt(f, S, g)[s] = IF s = {} THEN 0 ELSE f[First(s)] + g[s \ {First(s)}]
  BY DEF SumIt, First
<1>3. s # {} => First(s) \in s
  BY DEF First
<1> QED
  BY <1>1, <1>2, <1>3

LEMMA SumUnique ==
  ASSUME NEW f, NEW S, IsFiniteSet(S), NEW T \in SUBSET S,
         NEW g, IsSum(f, S, g), NEW h, IsSum(f, T, h)
  PROVE  \A s \in SUBSET T : g[s] = h[s]
<1> DEFINE B == {s \in SUBSET T : g[s] # h[s]}
<1> SUFFICES ASSUME B # {} PROVE FALSE
  OBVIOUS
<1>1. B \in SUBSET SUBSET S
  OBVIOUS
<1>2. PICK s \in B : \A u \in SUBSET s : u # s => u \notin B
  <2> HIDE DEF B
  <2> QED
    BY <1>1, Smallest
<1>3. s \in SUBSET S /\ s \in SUBSET T /\ g[s] # h[s]
  OBVIOUS
<1>4. s # {}
  BY <1>3, SumUnfolds
<1> DEFINE u == s \ {First(s)}
<1>5. /\ First(s) \in s
      /\ g[s] = f[First(s)] + g[u] /\ h[s] = f[First(s)] + h[u]
  BY <1>3, <1>4, SumUnfolds
<1>6. u \in SUBSET s /\ u # s /\ u \in SUBSET T
  BY <1>3, <1>5
<1> HIDE DEF u
<1>7. g[u] = h[u]
  BY <1>2, <1>6
<1> QED
  BY <1>3, <1>5, <1>7

(* There is one for each finite set.                                       *)
LEMMA SumExists ==
  ASSUME NEW f, NEW S, IsFiniteSet(S)
  PROVE  \A T \in SUBSET S : \E g : IsSum(f, T, g)
<1> DEFINE B == {T \in SUBSET S : ~ \E g : IsSum(f, T, g)}
<1> SUFFICES ASSUME B # {} PROVE FALSE
  OBVIOUS
<1>1. PICK T \in B : \A u \in SUBSET T : u # T => u \notin B
  <2>1. B \in SUBSET SUBSET S
    OBVIOUS
  <2> HIDE DEF B
  <2> QED
    BY <2>1, Smallest
<1>2. T \in SUBSET S /\ ~ \E g : IsSum(f, T, g) /\ IsFiniteSet(T)
  BY FS_Subset
<1> DEFINE G(u) == CHOOSE g : IsSum(f, u, g)
           h == [s \in SUBSET T |-> IF s = {} THEN 0
                                    ELSE f[First(s)] + G(s \ {First(s)})[s \ {First(s)}]]
<1>3. ASSUME NEW u \in SUBSET T, u # T PROVE IsSum(f, u, G(u)) /\ IsFiniteSet(u)
  <2>1. u \notin B /\ u \in SUBSET S
    BY <1>1, <1>3
  <2>2. \E g : IsSum(f, u, g)
    BY <2>1
  <2> HIDE DEF B
  <2> QED
    BY <1>2, <1>3, <2>2, FS_Subset
<1> HIDE DEF G
<1>4. ASSUME NEW s, NEW g, IsSum(f, s, g), s # {}
      PROVE  First(s) \in s /\ g[s] = f[First(s)] + g[s \ {First(s)}]
  BY <1>4, SumUnfolds
<1>5. ASSUME NEW s \in SUBSET T, s # T PROVE h[s] = G(s)[s]
  <2>1. IsSum(f, s, G(s)) /\ IsFiniteSet(s)
    BY <1>3, <1>5
  <2>2. CASE s = {}
    BY <2>1, <2>2, SumUnfolds
  <2>3. CASE s # {}
    <3> DEFINE u == s \ {First(s)}
    <3>1. First(s) \in s /\ G(s)[s] = f[First(s)] + G(s)[u]
      BY <2>1, <2>3, <1>4
    <3>2. h[s] = f[First(s)] + G(u)[u]
      BY <2>3
    <3>3. u \in SUBSET s /\ u \in SUBSET T /\ u # T
      BY <1>5, <3>1
    <3> HIDE DEF u
    <3>4. IsSum(f, u, G(u))
      BY <1>3, <3>3
    <3>5. G(s)[u] = G(u)[u]
      BY <2>1, <3>3, <3>4, SumUnique
    <3> QED
      BY <3>1, <3>2, <3>5
  <2> QED
    BY <2>2, <2>3
<1>6. ASSUME NEW s \in SUBSET T, s # {}
      PROVE  h[s \ {First(s)}] = G(s \ {First(s)})[s \ {First(s)}]
  <2>1. First(s) \in s
    BY <1>6 DEF First
  <2>2. s \ {First(s)} \in SUBSET T /\ s \ {First(s)} # T
    BY <1>6, <2>1
  <2> QED
    BY <1>5, <2>2
<1>7. h = [s \in SUBSET T |-> IF s = {} THEN 0 ELSE f[First(s)] + h[s \ {First(s)}]]
  BY <1>6
<1> HIDE DEF h
<1>8. IsSum(f, T, h)
  BY <1>7 DEF IsSum, SumIt, First
<1> QED
  BY <1>2, <1>8

LEMMA SumFirst ==
  ASSUME NEW f, NEW S, IsFiniteSet(S)
  PROVE  /\ S = {} => Sum(f, S) = 0
         /\ S # {} => First(S) \in S /\ Sum(f, S) = f[First(S)] + Sum(f, S \ {First(S)})
<1> DEFINE g == CHOOSE g : IsSum(f, S, g)
           u == S \ {First(S)}
           h == CHOOSE h : IsSum(f, u, h)
<1>1. IsSum(f, S, g)
  BY SumExists
<1>2. IsSum(f, u, h) /\ u \in SUBSET S
  BY SumExists
<1>3. Sum(f, S) = g[S] /\ Sum(f, u) = h[u]
  BY SumIs
<1> HIDE DEF g, h
<1>4. g[u] = h[u]
  BY <1>1, <1>2, SumUnique
<1>5. /\ S = {} => g[S] = 0
      /\ S # {} => First(S) \in S /\ g[S] = f[First(S)] + g[u]
  BY <1>1, SumUnfolds
<1> QED
  BY <1>3, <1>4, <1>5

LEMMA SumType ==
  ASSUME NEW f, NEW S, IsFiniteSet(S), \A x \in S : f[x] \in Int
  PROVE  \A T \in SUBSET S : Sum(f, T) \in Int
<1> DEFINE B == {T \in SUBSET S : Sum(f, T) \notin Int}
<1> SUFFICES ASSUME B # {} PROVE FALSE
  OBVIOUS
<1>1. PICK T \in B : \A u \in SUBSET T : u # T => u \notin B
  <2>1. B \in SUBSET SUBSET S
    OBVIOUS
  <2> HIDE DEF B
  <2> QED
    BY <2>1, Smallest
<1>2. T \in SUBSET S /\ IsFiniteSet(T) /\ Sum(f, T) \notin Int
  BY FS_Subset
<1>3. T # {}
  <2>1. T = {} => Sum(f, T) = 0
    BY <1>2, SumFirst
  <2> QED
    BY <1>2, <2>1
<1> DEFINE u == T \ {First(T)}
<1>4. First(T) \in T /\ Sum(f, T) = f[First(T)] + Sum(f, u)
  BY <1>2, <1>3, SumFirst
<1>5. u \in SUBSET T /\ u # T /\ u \in SUBSET S
  BY <1>2, <1>4
<1> HIDE DEF u
<1>6. Sum(f, u) \in Int
  BY <1>1, <1>5
<1>7. f[First(T)] \in Int
  BY <1>2, <1>4
<1> QED
  BY <1>2, <1>4, <1>6, <1>7

(* Any element may be taken out.                                           *)
LEMMA SumWithout ==
  ASSUME NEW f, NEW S, IsFiniteSet(S), \A x \in S : f[x] \in Int
  PROVE  \A T \in SUBSET S : \A z \in T : Sum(f, T) = f[z] + Sum(f, T \ {z})
<1> DEFINE Out(T, z) == Sum(f, T) = f[z] + Sum(f, T \ {z})
           B == {T \in SUBSET S : \E z \in T : ~Out(T, z)}
<1> SUFFICES ASSUME B # {} PROVE FALSE
  OBVIOUS
<1>1. PICK T \in B : \A u \in SUBSET T : u # T => u \notin B
  <2>1. B \in SUBSET SUBSET S
    OBVIOUS
  <2> HIDE DEF B
  <2> QED
    BY <2>1, Smallest
<1>2. T \in SUBSET S /\ IsFiniteSet(T)
  BY FS_Subset
<1>3. PICK z \in T : ~Out(T, z)
  OBVIOUS
<1> DEFINE y == First(T)
<1>4. y \in T /\ Out(T, y)
  BY <1>2, <1>3, SumFirst
<1>5. y # z
  BY <1>3, <1>4
<1> HIDE DEF y
<1>6. ASSUME NEW x \in T, NEW w \in T, w # x PROVE Out(T \ {x}, w)
  <2>1. T \ {x} \in SUBSET T /\ T \ {x} # T /\ T \ {x} \in SUBSET S /\ w \in T \ {x}
    BY <1>2, <1>6
  <2>2. T \ {x} \notin B
    BY <1>1, <2>1
  <2> HIDE DEF Out
  <2> QED
    BY <2>1, <2>2
<1>7. (T \ {y}) \ {z} = (T \ {z}) \ {y}
  OBVIOUS
<1> DEFINE r == (T \ {z}) \ {y}
<1>8. /\ Sum(f, T) = f[y] + Sum(f, T \ {y})
      /\ Sum(f, T \ {y}) = f[z] + Sum(f, r)
      /\ Sum(f, T \ {z}) = f[y] + Sum(f, r)
  BY <1>4, <1>5, <1>6, <1>7
<1>9. f[y] \in Int /\ f[z] \in Int /\ Sum(f, r) \in Int
  BY <1>2, <1>4, SumType
<1> HIDE DEF r
<1>10. Sum(f, T) = f[z] + Sum(f, T \ {z})
  BY <1>8, <1>9
<1> QED
  BY <1>3, <1>10

(* Functions that agree on a set have the same sum.                        *)
LEMMA SumAgrees ==
  ASSUME NEW f, NEW h, NEW S, IsFiniteSet(S), \A x \in S : f[x] = h[x]
  PROVE  \A T \in SUBSET S : Sum(f, T) = Sum(h, T)
<1> DEFINE B == {T \in SUBSET S : Sum(f, T) # Sum(h, T)}
<1> SUFFICES ASSUME B # {} PROVE FALSE
  OBVIOUS
<1>1. PICK T \in B : \A u \in SUBSET T : u # T => u \notin B
  <2>1. B \in SUBSET SUBSET S
    OBVIOUS
  <2> HIDE DEF B
  <2> QED
    BY <2>1, Smallest
<1>2. T \in SUBSET S /\ IsFiniteSet(T) /\ Sum(f, T) # Sum(h, T)
  BY FS_Subset
<1>3. T # {}
  <2>1. T = {} => Sum(f, T) = 0 /\ Sum(h, T) = 0
    BY <1>2, SumFirst
  <2> QED
    BY <1>2, <2>1
<1> DEFINE u == T \ {First(T)}
<1>4. /\ First(T) \in T
      /\ Sum(f, T) = f[First(T)] + Sum(f, u) /\ Sum(h, T) = h[First(T)] + Sum(h, u)
  BY <1>2, <1>3, SumFirst
<1>5. u \in SUBSET T /\ u # T /\ u \in SUBSET S
  BY <1>2, <1>4
<1> HIDE DEF u
<1>6. Sum(f, u) = Sum(h, u)
  BY <1>1, <1>5
<1>7. f[First(T)] = h[First(T)]
  BY <1>2, <1>4
<1> QED
  BY <1>2, <1>4, <1>6, <1>7


LEMMA SumAdd ==
  ASSUME NEW f, NEW S, IsFiniteSet(S), NEW z, z \notin S, \A x \in S \cup {z} : f[x] \in Int
  PROVE  /\ Sum(f, S \cup {z}) = Sum(f, S) + f[z]
         /\ Sum(f, S) \in Int /\ IsFiniteSet(S \cup {z})
<1> DEFINE T == S \cup {z}
<1>1. IsFiniteSet(T) /\ z \in T /\ T \ {z} = S
  BY FS_AddElement
<1> HIDE DEF T
<1>2. \A x \in T : f[x] \in Int
  BY DEF T
<1>3. Sum(f, T) = f[z] + Sum(f, S)
  BY <1>1, <1>2, SumWithout
<1>4. Sum(f, S) \in Int /\ f[z] \in Int
  BY <1>1, <1>2, SumType
<1> QED
  BY <1>1, <1>3, <1>4 DEF T

-----------------------------------------------------------------------------
(* The working book: keys with what is left of each, and their sum.        *)
Leaves(book) == [k \in DOMAIN book |-> k.side * book[k]]
NetOf(book)  == Sum(Leaves(book), DOMAIN book)

BookTyped(book) ==
  /\ IsFiniteSet(DOMAIN book)
  /\ \A k \in DOMAIN book : k \in Key /\ book[k] \in Nat \ {0}

LEMMA NetWorkingIsSum == NetWorking = NetOf(working)
<1> DEFINE D == DOMAIN working
           It(g) == [s \in SUBSET D |->
              IF s = {} THEN 0
              ELSE LET x == CHOOSE x \in s : TRUE
                   IN  x.side * working[x] + g[s \ {x}]]
<1>1. NetWorking = (CHOOSE g : g = It(g))[D]
  BY DEF NetWorking, MapThenSumSet, MapThenFoldSet
<1>2. \A g : It(g) = SumIt(Leaves(working), D, g)
  BY DEF SumIt, Leaves
<1> HIDE DEF It
<1>3. (CHOOSE g : g = It(g)) = (CHOOSE g : IsSum(Leaves(working), D, g))
  BY <1>2 DEF IsSum
<1> QED
  BY <1>1, <1>3, SumIs DEF NetOf

LEMMA LeavesTyped ==
  ASSUME NEW book, BookTyped(book)
  PROVE  /\ \A k \in DOMAIN book : Leaves(book)[k] \in Int
         /\ NetOf(book) \in Int
<1>1. ASSUME NEW k \in DOMAIN book PROVE Leaves(book)[k] \in Int
  <2>1. k.side \in {1, -1} /\ book[k] \in Int
    BY DEF BookTyped, Key, Side
  <2>2. k.side * book[k] \in Int
    BY <2>1
  <2> QED
    BY <2>2 DEF Leaves
<1>2. \A k \in DOMAIN book : Leaves(book)[k] \in Int
  BY <1>1
<1> QED
  BY <1>2, SumType DEF NetOf, BookTyped

LEMMA EmptyNet ==
  ASSUME NEW book, DOMAIN book = {}
  PROVE  NetOf(book) = 0 /\ BookTyped(book)
BY FS_EmptySet, SumFirst DEF NetOf, BookTyped

(* An order enters the book.                                               *)
LEMMA Enters ==
  ASSUME NEW book, BookTyped(book), NEW k \in Key, k \notin DOMAIN book,
         NEW n \in Nat \ {0}, NEW status, status \notin Terminal
  PROVE  LET new == Upsert(book, k, n, status) IN
         /\ BookTyped(new) /\ DOMAIN new = DOMAIN book \cup {k} /\ new[k] = n
         /\ NetOf(new) = NetOf(book) + k.side * n
<1> DEFINE new == Upsert(book, k, n, status)
<1>1. new = [x \in DOMAIN book \cup {k} |-> IF x = k THEN n ELSE book[x]]
  BY DEF Upsert, Put
<1>2. DOMAIN new = DOMAIN book \cup {k} /\ new[k] = n /\ \A x \in DOMAIN book : new[x] = book[x]
  BY <1>1
<1> HIDE DEF new
<1>3. BookTyped(new)
  BY <1>2, FS_AddElement DEF BookTyped
<1> DEFINE f == Leaves(new)
           D == DOMAIN book
<1>4. /\ f[k] = k.side * n /\ \A x \in D : f[x] = Leaves(book)[x]
      /\ \A x \in D \cup {k} : f[x] \in Int
  BY <1>2, <1>3, LeavesTyped DEF Leaves
<1>5. IsFiniteSet(D) /\ k \notin D
  BY DEF BookTyped
<1>6. NetOf(new) = Sum(f, D \cup {k}) /\ NetOf(book) = Sum(Leaves(book), D)
  BY <1>2 DEF NetOf
<1> HIDE DEF f, D
<1>7. Sum(f, D \cup {k}) = Sum(f, D) + f[k]
  BY <1>4, <1>5, SumAdd
<1>8. Sum(f, D) = Sum(Leaves(book), D)
  BY <1>4, <1>5, SumAgrees
<1>9. NetOf(new) = NetOf(book) + k.side * n
  BY <1>4, <1>6, <1>7, <1>8
<1> QED
  BY <1>2, <1>3, <1>9 DEF new

(* An order leaves the book, if it is there.                               *)
LEMMA Goes ==
  ASSUME NEW book, BookTyped(book), NEW k, NEW n, NEW status \in Terminal
  PROVE  LET new == Upsert(book, k, n, status) IN
         /\ BookTyped(new) /\ DOMAIN new = DOMAIN book \ {k}
         /\ k \in DOMAIN book => NetOf(book) = NetOf(new) + k.side * book[k]
<1> DEFINE new == Upsert(book, k, n, status)
<1>1. new = [x \in DOMAIN book \ {k} |-> book[x]]
  BY DEF Upsert, Restrict
<1>2. DOMAIN new = DOMAIN book \ {k} /\ \A x \in DOMAIN new : new[x] = book[x]
  BY <1>1
<1> HIDE DEF new
<1>3. BookTyped(new)
  BY <1>2, FS_RemoveElement DEF BookTyped
<1> DEFINE f == Leaves(book)
           R == DOMAIN book \ {k}
<1>4. ASSUME k \in DOMAIN book PROVE NetOf(book) = NetOf(new) + k.side * book[k]
  <2>1. /\ f[k] = k.side * book[k] /\ \A x \in R : f[x] = Leaves(new)[x]
        /\ \A x \in R \cup {k} : f[x] \in Int
    BY <1>2, <1>4, LeavesTyped DEF Leaves
  <2>2. IsFiniteSet(R) /\ k \notin R /\ DOMAIN book = R \cup {k}
    BY <1>4, FS_RemoveElement DEF BookTyped
  <2>3. NetOf(book) = Sum(f, R \cup {k}) /\ NetOf(new) = Sum(Leaves(new), R)
    BY <1>2, <2>2 DEF NetOf
  <2> HIDE DEF f, R
  <2>4. Sum(f, R \cup {k}) = Sum(f, R) + f[k]
    BY <2>1, <2>2, SumAdd
  <2>5. Sum(f, R) = Sum(Leaves(new), R)
    BY <2>1, <2>2, SumAgrees
  <2> QED
    BY <2>1, <2>3, <2>4, <2>5
<1> QED
  BY <1>2, <1>3, <1>4 DEF new

(* An order is put back with what it has.                                  *)
LEMMA Stays ==
  ASSUME NEW book, BookTyped(book), NEW k \in DOMAIN book, NEW status, status \notin Terminal
  PROVE  LET new == Upsert(book, k, book[k], status) IN
         /\ BookTyped(new) /\ DOMAIN new = DOMAIN book /\ new[k] = book[k]
         /\ NetOf(new) = NetOf(book)
<1> DEFINE new == Upsert(book, k, book[k], status)
<1>1. book[k] \in Nat \ {0} /\ IsFiniteSet(DOMAIN book)
  BY DEF BookTyped
<1>2. new = [x \in DOMAIN book \cup {k} |-> IF x = k THEN book[k] ELSE book[x]]
  BY <1>1 DEF Upsert, Put
<1>3. DOMAIN new = DOMAIN book /\ \A x \in DOMAIN book : new[x] = book[x]
  BY <1>2
<1> HIDE DEF new
<1>4. BookTyped(new)
  BY <1>3 DEF BookTyped
<1>5. \A x \in DOMAIN book : Leaves(new)[x] = Leaves(book)[x]
  BY <1>3 DEF Leaves
<1>6. Sum(Leaves(new), DOMAIN book) = Sum(Leaves(book), DOMAIN book)
  BY <1>1, <1>5, SumAgrees
<1> QED
  BY <1>3, <1>4, <1>6 DEF new, NetOf

-----------------------------------------------------------------------------
Phases == {"idle", "working", "validate", "claim", "submit", "fill", "read", "write",
           "filled", "finish"}
Phase  == pc["bus"]
Signed == intent.side * intent.qty
Net    == NetOf(working)

Deciding == {"validate", "claim"}             \* the order is not in the book yet,
Placed   == {"submit", "fill"}                \* is in it and has not filled,
After    == {"read", "write", "filled"}       \* has filled and is still in it
Checked  == {"claim"} \cup Placed

PaperTypes ==
  /\ pc \in [Threads -> Phases] /\ readPos \in [Threads -> Int]
  /\ targetOf \in [1..MaxBar -> Int] /\ offset \in Nat \ {0} /\ raises \in Nat
  /\ position \in Int /\ dbPosition \in Int
  /\ decision.bar \in 1..MaxBar /\ decision.current \in Int
  /\ Phase \in Deciding \cup Placed \cup After => intent \in Key

Booked ==
  /\ BookTyped(working) /\ DOMAIN working \subseteq claimed
  /\ Phase \in Placed \cup After =>
       /\ intent \in DOMAIN working /\ working[intent] = intent.qty
       /\ intent \in registered

(* Until a call raises nothing is working but the order in hand.           *)
OneWorking ==
  raises = 0 =>
    /\ DOMAIN working \subseteq {intent}
    /\ Phase \in {"idle", "working"} \cup Deciding => DOMAIN working = {}
    /\ Phase = "finish" /\ accepted => DOMAIN working = {}

Aimed ==
  /\ Phase = "working" => decision.current = position
  /\ Phase \in Deciding => position + Net + Signed = targetOf[intent.bar]
  /\ Phase \in Placed => position + Net = targetOf[intent.bar]
  /\ Phase \in After => position + Net = targetOf[intent.bar] + Signed
  /\ Phase = "finish" /\ accepted => position + Net = targetOf[intent.bar]

Limited ==
  /\ PositionWithinLimit
  /\ Phase \in Checked => Abs(position + Signed) <= MaxPosition
  /\ Phase = "write" => readPos["bus"] = position

PaperInv == PaperTypes /\ Booked /\ OneWorking /\ Aimed /\ Limited

(* The sign and the size of the order make up the delta.                   *)
LEMMA KeyIsDelta ==
  ASSUME decision.bar \in 1..MaxBar, Delta \in Int, Delta # 0
  PROVE  /\ KeyOf \in Key /\ KeyOf.bar = decision.bar
         /\ KeyOf.side * KeyOf.qty = Delta
<1> DEFINE d == Delta
           b == decision.bar
<1>1. KeyOf = [bar |-> b, side |-> IF d > 0 THEN 1 ELSE -1, qty |-> IF d < 0 THEN -d ELSE d]
  BY DEF KeyOf, Abs
<1>2. d \in Int /\ d # 0 /\ b \in 1..MaxBar
  OBVIOUS
<1> HIDE DEF d, b
<1>3. CASE d > 0
  BY <1>1, <1>2, <1>3 DEF d, b, Key, Side
<1>4. CASE ~(d > 0)
  <2>1. KeyOf = [bar |-> b, side |-> -1, qty |-> -d]
    BY <1>1, <1>2, <1>4
  <2>2. -d \in Nat \ {0} /\ (-1) * (-d) = d
    BY <1>2, <1>4
  <2> QED
    BY <1>2, <2>1, <2>2 DEF d, b, Key, Side
<1> QED
  BY <1>3, <1>4

LEMMA SignedTyped ==
  ASSUME intent \in Key
  PROVE  /\ Signed \in Int /\ intent.qty \in Nat \ {0} /\ intent.bar \in 1..MaxBar
<1>1. intent.side \in {1, -1} /\ intent.qty \in Nat \ {0} /\ intent.bar \in 1..MaxBar
  BY DEF Key, Side
<1> QED
  BY <1>1 DEF Signed

LEMMA NetTyped == ASSUME Booked PROVE Net \in Int
BY LeavesTyped DEF Net, Booked

LEMMA InitPaper == Init => PaperInv
<1> SUFFICES ASSUME Init PROVE PaperInv
  OBVIOUS
<1>1. pc = [t \in Threads |-> "idle"] /\ Phase = "idle" /\ "bus" \in Threads
  BY RunnerAssumption DEF Init, RunnerInit, Phase
<1>2. PaperTypes
  <2>1. targetOf \in [1..MaxBar -> Int]
    BY RunnerAssumption DEF Init, RunnerInit
  <2>3. 1 \in 1..MaxBar
    BY RunnerAssumption
  <2>2. /\ offset = 1 /\ position = 0 /\ dbPosition = 0 /\ raises = 0
        /\ readPos = [t \in Threads |-> 0] /\ decision = FirstDecision
    BY DEF Init, RunnerInit
  <2> QED
    BY <1>1, <2>1, <2>2, <2>3 DEF PaperTypes, Phases, Deciding, Placed, After, FirstDecision
<1>3. Booked /\ OneWorking
  <2>1. DOMAIN working = {}
    BY DEF Init, RunnerInit, EmptyBook
  <2> QED
    BY <1>1, <2>1, EmptyNet DEF Booked, OneWorking, Placed, After
<1>4. Aimed
  BY <1>1 DEF Aimed, Deciding, Placed, After
<1>5. Limited
  BY <1>1, RunnerAssumption DEF Init, RunnerInit, Limited, PositionWithinLimit, Abs, Checked, Placed
<1> QED
  BY <1>2, <1>3, <1>4, <1>5 DEF PaperInv

(* The bus thread moves on.                                                *)
LEMMA Moves ==
  ASSUME PaperTypes, NEW p \in Phases, Goto("bus", p)
  PROVE  pc' \in [Threads -> Phases] /\ Phase' = p
BY RunnerAssumption DEF PaperTypes, Goto, Phase

(* A step that changes nothing but the thread, to a phase of which nothing *)
(* is claimed: a rejection, or an exception.                               *)
LEMMA Abandoned ==
  ASSUME PaperInv, Phase' = "idle", pc' \in [Threads -> Phases],
         UNCHANGED <<targetOf, offset, position, working, registered, dbPosition, readPos,
                     decision, intent, accepted, claimed>>,
         raises' \in Nat, raises' = 0 => raises = 0 /\ DOMAIN working = {}
  PROVE  PaperInv'
<1> USE DEF PaperInv
<1>1. PaperTypes'
  BY DEF PaperTypes, Deciding, Placed, After
<1>2. Booked' /\ OneWorking'
  BY DEF Booked, OneWorking, Deciding, Placed, After
<1>3. Aimed'
  BY DEF Aimed, Deciding, Placed, After
<1>4. Limited'
  BY DEF Limited, PositionWithinLimit, Checked, Placed
<1> QED
  BY <1>1, <1>2, <1>3, <1>4

LEMMA TargetStep ==
  ASSUME PaperInv, OnTarget
  PROVE  PaperInv'
<1> USE DEF PaperInv
<1>1. /\ Phase = "idle" /\ offset \in 1..MaxBar /\ offset' \in Nat \ {0}
      /\ Goto("bus", "working") /\ decision' = [bar |-> offset, current |-> position]
      /\ UNCHANGED <<targetOf, raises, position, working, registered, dbPosition, claimed,
                     intent, accepted, readPos>>
  BY RunnerAssumption DEF OnTarget, Phase, PaperTypes, books, durable
<1>2. Phase' = "working" /\ pc' \in [Threads -> Phases]
  BY <1>1, Moves DEF Phases
<1>3. PaperTypes'
  BY <1>1, <1>2 DEF PaperTypes, Deciding, Placed, After
<1>4. Booked' /\ OneWorking'
  BY <1>1, <1>2 DEF Booked, OneWorking, Deciding, Placed, After
<1>5. Aimed'
  BY <1>1, <1>2 DEF Aimed, Deciding, Placed, After
<1>6. Limited'
  BY <1>1, <1>2 DEF Limited, PositionWithinLimit, Checked, Placed
<1> QED
  BY <1>3, <1>4, <1>5, <1>6

(* The order makes up what the position and the working orders lack of the *)
(* target.                                                                 *)
LEMMA DecideStep ==
  ASSUME PaperInv, ReadWorking
  PROVE  PaperInv'
<1> USE DEF PaperInv
<1>1. /\ UNCHANGED <<targetOf, offset, raises, position, working, registered, dbPosition,
                     claimed, decision, accepted, readPos>>
      /\ Phase = "working"
      /\ \/ Goto("bus", "idle") /\ UNCHANGED intent
         \/ Delta # 0 /\ Goto("bus", "validate") /\ intent' = KeyOf
  BY DEF ReadWorking, feed, books, durable, Phase
<1>2. CASE Goto("bus", "idle") /\ UNCHANGED intent
  <2>1. Phase' = "idle" /\ pc' \in [Threads -> Phases]
    BY <1>2, Moves DEF Phases
  <2>2. raises = 0 => DOMAIN working = {}
    BY <1>1 DEF OneWorking
  <2> QED
    BY <1>1, <1>2, <2>1, <2>2, Abandoned DEF PaperTypes
<1>3. CASE Delta # 0 /\ Goto("bus", "validate") /\ intent' = KeyOf
  <2>1. Phase' = "validate" /\ pc' \in [Threads -> Phases]
    BY <1>3, Moves DEF Phases
  <2>2. /\ Net \in Int /\ position \in Int /\ targetOf[decision.bar] \in Int
        /\ decision.bar \in 1..MaxBar
    BY NetTyped DEF PaperTypes
  <2>3. Delta = targetOf[decision.bar] - position - Net
    BY <1>1, NetWorkingIsSum DEF Delta, Aimed, Net
  <2>4. Delta \in Int
    BY <2>2, <2>3
  <2>5. KeyOf \in Key /\ KeyOf.bar = decision.bar /\ KeyOf.side * KeyOf.qty = Delta
    BY <1>3, <2>2, <2>4, KeyIsDelta
  <2>6. Signed' = Delta /\ intent' \in Key /\ intent'.bar = decision.bar
    BY <1>3, <2>5 DEF Signed
  <2>7. position + Net + Signed' = targetOf[decision.bar]
    BY <2>2, <2>3, <2>6
  <2>8. PaperTypes'
    BY <1>1, <2>1, <2>6 DEF PaperTypes
  <2>9. Booked' /\ OneWorking'
    BY <1>1, <2>1 DEF Booked, OneWorking, Deciding, Placed, After
  <2>10. Aimed'
    BY <1>1, <2>1, <2>6, <2>7 DEF Aimed, Deciding, Placed, After, Net
  <2>11. Limited'
    BY <1>1, <2>1 DEF Limited, PositionWithinLimit, Checked, Placed
  <2> QED
    BY <2>8, <2>9, <2>10, <2>11
<1> QED
  BY <1>1, <1>2, <1>3

(* Up to the adapter: the check compares the position the order leads to.  *)
LEMMA CheckStep ==
  ASSUME PaperInv, Validate
  PROVE  PaperInv'
<1> USE DEF PaperInv
<1>1. /\ UNCHANGED <<feed, books, durable, locals>> /\ Phase = "validate"
      /\ \E other \in BOOLEAN :
           Goto("bus", IF Approved(intent, other) THEN "claim" ELSE "idle")
  BY DEF Validate, Phase
<1>2. \/ Goto("bus", "idle")
      \/ Goto("bus", "claim") /\ Abs(position + Signed) <= MaxPosition
  BY <1>1 DEF Approved, Signed
<1>3. UNCHANGED <<targetOf, offset, raises, position, working, registered, dbPosition, claimed,
                  decision, accepted, readPos, intent, Signed, Net>>
  BY <1>1 DEF feed, books, durable, locals, Signed, Net
<1>4. CASE Goto("bus", "idle")
  <2>1. Phase' = "idle" /\ pc' \in [Threads -> Phases]
    BY <1>4, Moves DEF Phases
  <2>2. raises = 0 => DOMAIN working = {}
    BY <1>1 DEF OneWorking, Deciding
  <2> QED
    BY <1>3, <2>1, <2>2, Abandoned DEF PaperTypes
<1>5. CASE Goto("bus", "claim") /\ Abs(position + Signed) <= MaxPosition
  <2>1. Phase' = "claim" /\ pc' \in [Threads -> Phases]
    BY <1>5, Moves DEF Phases
  <2>2. PaperTypes'
    BY <1>1, <1>3, <2>1 DEF PaperTypes, Deciding, Placed, After
  <2>3. Booked' /\ OneWorking'
    BY <1>1, <1>3, <2>1 DEF Booked, OneWorking, Deciding, Placed, After
  <2>4. Aimed'
    BY <1>1, <1>3, <2>1 DEF Aimed, Deciding, Placed, After
  <2>5. Limited'
    BY <1>1, <1>3, <1>5, <2>1 DEF Limited, PositionWithinLimit, Checked, Placed
  <2> QED
    BY <2>2, <2>3, <2>4, <2>5
<1> QED
  BY <1>2, <1>4, <1>5

(* The claim is fresh, so the order is not in the book; it enters with its *)
(* whole quantity.                                                         *)
LEMMA ClaimStep ==
  ASSUME PaperInv, ClaimAndRegister
  PROVE  PaperInv'
<1> USE DEF PaperInv
<1>1. /\ UNCHANGED <<targetOf, offset, raises, position, dbPosition, decision, accepted,
                     readPos, intent, Signed>>
      /\ Phase = "claim"
  BY DEF ClaimAndRegister, feed, locals, Signed, Phase
<1>2. \/ Goto("bus", "idle") /\ UNCHANGED <<claimed, working, registered>>
      \/ /\ Goto("bus", "submit") /\ intent \notin claimed
         /\ claimed' = claimed \cup {intent}
         /\ working' = Upsert(working, intent, intent.qty, "NEW")
         /\ registered' = registered \cup {intent}
  BY DEF ClaimAndRegister, ClaimWins
<1>3. CASE Goto("bus", "idle") /\ UNCHANGED <<claimed, working, registered>>
  <2>1. Phase' = "idle" /\ pc' \in [Threads -> Phases]
    BY <1>3, Moves DEF Phases
  <2>2. raises = 0 => DOMAIN working = {}
    BY <1>1 DEF OneWorking, Deciding
  <2> QED
    BY <1>1, <1>3, <2>1, <2>2, Abandoned DEF PaperTypes
<1>4. CASE /\ Goto("bus", "submit") /\ intent \notin claimed
           /\ claimed' = claimed \cup {intent}
           /\ working' = Upsert(working, intent, intent.qty, "NEW")
           /\ registered' = registered \cup {intent}
  <2>1. Phase' = "submit" /\ pc' \in [Threads -> Phases]
    BY <1>4, Moves DEF Phases
  <2>2. /\ intent \in Key /\ Signed \in Int /\ intent.qty \in Nat \ {0}
        /\ targetOf[intent.bar] \in Int
    BY <1>1, SignedTyped DEF PaperTypes, Deciding
  <2>3. BookTyped(working) /\ intent \notin DOMAIN working
    BY <1>4 DEF Booked
  <2>4. /\ BookTyped(working') /\ DOMAIN working' = DOMAIN working \cup {intent}
        /\ working'[intent] = intent.qty /\ NetOf(working') = Net + Signed
    <3>1. "NEW" \notin Terminal
      BY DEF Terminal
    <3> QED
      BY <1>4, <2>2, <2>3, <3>1, Enters DEF Net, Signed
  <2>5. PaperTypes'
    BY <1>1, <2>1, <2>2 DEF PaperTypes
  <2>6. Booked'
    BY <1>1, <1>4, <2>4 DEF Booked
  <2>7. OneWorking'
    <3>1. raises = 0 => DOMAIN working = {}
      BY <1>1 DEF OneWorking, Deciding
    <3> QED
      BY <1>1, <2>1, <2>4, <3>1 DEF OneWorking, Deciding
  <2>8. Aimed'
    <3>1. position + Net + Signed = targetOf[intent.bar] /\ position \in Int /\ Net \in Int
      BY <1>1, NetTyped DEF Aimed, Deciding, PaperTypes
    <3>2. position + NetOf(working') = targetOf[intent.bar]
      BY <2>2, <2>4, <3>1
    <3> QED
      BY <1>1, <2>1, <3>2 DEF Aimed, Deciding, Placed, After, Net
  <2>9. Limited'
    BY <1>1, <2>1 DEF Limited, PositionWithinLimit, Checked, Placed
  <2> QED
    BY <2>5, <2>6, <2>7, <2>8, <2>9
<1> QED
  BY <1>2, <1>3, <1>4

(* No mark: the order leaves the book.                                     *)
LEMMA NoMarkStep ==
  ASSUME PaperInv, SubmitNoMark
  PROVE  PaperInv'
<1> USE DEF PaperInv
<1>1. /\ UNCHANGED <<targetOf, offset, raises, position, dbPosition, decision, registered,
                     claimed, readPos, intent>>
      /\ Phase = "submit" /\ Goto("bus", "finish") /\ accepted' = FALSE
      /\ OnExecutionUpdate(intent, "REJECTED", 0)
  BY DEF SubmitNoMark, feed, durable, Phase
<1>2. Phase' = "finish" /\ pc' \in [Threads -> Phases]
  BY <1>1, Moves DEF Phases
<1>3. working' = Upsert(working, intent, 0, "REJECTED") /\ "REJECTED" \in Terminal
  BY <1>1 DEF OnExecutionUpdate, Booked, Placed, Terminal
<1>4. BookTyped(working') /\ DOMAIN working' = DOMAIN working \ {intent}
  BY <1>3, Goes DEF Booked
<1>5. PaperTypes'
  BY <1>1, <1>2 DEF PaperTypes, Deciding, Placed, After
<1>6. Booked' /\ OneWorking'
  BY <1>1, <1>2, <1>4 DEF Booked, OneWorking, Deciding, Placed, After
<1>7. Aimed'
  BY <1>1, <1>2 DEF Aimed, Deciding, Placed, After
<1>8. Limited'
  BY <1>1, <1>2 DEF Limited, PositionWithinLimit, Checked, Placed
<1> QED
  BY <1>5, <1>6, <1>7, <1>8

LEMMA SentStep ==
  ASSUME PaperInv, SubmitSent
  PROVE  PaperInv'
<1> USE DEF PaperInv
<1>1. /\ UNCHANGED <<targetOf, offset, raises, position, dbPosition, decision, registered,
                     claimed, readPos, intent, accepted, Signed>>
      /\ Phase = "submit" /\ Goto("bus", "fill")
      /\ OnExecutionUpdate(intent, "SENT", intent.qty)
  BY DEF SubmitSent, feed, durable, locals, Phase, Signed
<1>2. Phase' = "fill" /\ pc' \in [Threads -> Phases]
  BY <1>1, Moves DEF Phases
<1>3. /\ working' = Upsert(working, intent, working[intent], "SENT") /\ "SENT" \notin Terminal
      /\ intent \in DOMAIN working /\ working[intent] = intent.qty
  BY <1>1 DEF OnExecutionUpdate, Booked, Placed, Terminal
<1>4. /\ BookTyped(working') /\ DOMAIN working' = DOMAIN working
      /\ working'[intent] = working[intent] /\ NetOf(working') = NetOf(working)
  BY <1>3, Stays DEF Booked
<1>5. PaperTypes'
  BY <1>1, <1>2 DEF PaperTypes, Deciding, Placed, After
<1>6. Booked' /\ OneWorking'
  BY <1>1, <1>2, <1>3, <1>4 DEF Booked, OneWorking, Deciding, Placed, After
<1>7. Aimed'
  BY <1>1, <1>2, <1>4 DEF Aimed, Deciding, Placed, After, Net
<1>8. Limited'
  BY <1>1, <1>2 DEF Limited, PositionWithinLimit, Checked, Placed
<1> QED
  BY <1>5, <1>6, <1>7, <1>8

LEMMA FillStep ==
  ASSUME PaperInv, SubmitFill
  PROVE  PaperInv'
<1> USE DEF PaperInv
<1>1. /\ UNCHANGED <<targetOf, offset, raises, dbPosition, decision, registered, working,
                     claimed, readPos, intent, accepted, Signed, Net>>
      /\ Phase = "fill" /\ Goto("bus", "read") /\ position' = position + Signed
  BY DEF SubmitFill, OnFill, feed, locals, Phase, Signed, Net
<1>2. Phase' = "read" /\ pc' \in [Threads -> Phases]
  BY <1>1, Moves DEF Phases
<1>3. Signed \in Int /\ position \in Int /\ Net \in Int /\ targetOf[intent.bar] \in Int
  BY <1>1, SignedTyped, NetTyped DEF PaperTypes, Placed
<1>4. PaperTypes'
  BY <1>1, <1>2, <1>3 DEF PaperTypes, Deciding, Placed, After
<1>5. Booked' /\ OneWorking'
  BY <1>1, <1>2 DEF Booked, OneWorking, Deciding, Placed, After
<1>6. Aimed'
  <2>1. position + Net = targetOf[intent.bar]
    BY <1>1 DEF Aimed, Placed
  <2>2. position' + Net = targetOf[intent.bar] + Signed
    BY <1>1, <1>3, <2>1
  <2> QED
    BY <1>1, <1>2, <2>2 DEF Aimed, Deciding, Placed, After
<1>7. Limited'
  BY <1>1, <1>2 DEF Limited, PositionWithinLimit, Checked, Placed
<1> QED
  BY <1>4, <1>5, <1>6, <1>7

LEMMA FilledStep ==
  ASSUME PaperInv, SubmitFilled
  PROVE  PaperInv'
<1> USE DEF PaperInv
<1>1. /\ UNCHANGED <<targetOf, offset, raises, position, dbPosition, decision, registered,
                     claimed, readPos, intent, Signed>>
      /\ Phase = "filled" /\ Goto("bus", "finish") /\ accepted' = TRUE
      /\ OnExecutionUpdate(intent, "FILLED", 0)
  BY DEF SubmitFilled, feed, durable, Phase, Signed
<1>2. Phase' = "finish" /\ pc' \in [Threads -> Phases]
  BY <1>1, Moves DEF Phases
<1>3. /\ working' = Upsert(working, intent, 0, "FILLED") /\ "FILLED" \in Terminal
      /\ intent \in DOMAIN working /\ working[intent] = intent.qty
  BY <1>1 DEF OnExecutionUpdate, Booked, After, Terminal
<1>4. /\ BookTyped(working') /\ DOMAIN working' = DOMAIN working \ {intent}
      /\ Net = NetOf(working') + Signed
  <2>1. BookTyped(working) /\ Signed = intent.side * working[intent]
    BY <1>3 DEF Booked, Signed
  <2>2. /\ BookTyped(working') /\ DOMAIN working' = DOMAIN working \ {intent}
        /\ NetOf(working) = NetOf(working') + intent.side * working[intent]
    BY <1>3, <2>1, Goes
  <2> QED
    BY <2>1, <2>2 DEF Net
<1>5. PaperTypes'
  BY <1>1, <1>2 DEF PaperTypes, Deciding, Placed, After
<1>6. Booked' /\ OneWorking'
  BY <1>1, <1>2, <1>4 DEF Booked, OneWorking, Deciding, Placed, After
<1>7. Aimed'
  <2>1. position + Net = targetOf[intent.bar] + Signed
    BY <1>1 DEF Aimed, After
  <2>2. /\ Signed \in Int /\ position \in Int /\ targetOf[intent.bar] \in Int
        /\ NetOf(working') \in Int
    BY <1>1, <1>4, SignedTyped, LeavesTyped DEF PaperTypes, After
  <2> DEFINE n == NetOf(working')
  <2>4. Net = n + Signed /\ n \in Int
    BY <1>4, <2>2
  <2> HIDE DEF n
  <2>5. position + n = targetOf[intent.bar]
    BY <2>1, <2>2, <2>4
  <2>3. position + NetOf(working') = targetOf[intent.bar]
    BY <2>5 DEF n
  <2> QED
    BY <1>1, <1>2, <2>3 DEF Aimed, Deciding, Placed, After, Net
<1>8. Limited'
  BY <1>1, <1>2 DEF Limited, PositionWithinLimit, Checked, Placed
<1> QED
  BY <1>5, <1>6, <1>7, <1>8

LEMMA PersistStep ==
  ASSUME PaperInv, ReadPosition("bus") \/ WritePosition("bus", "filled")
  PROVE  PaperInv'
<1> USE DEF PaperInv
<1>1. UNCHANGED <<targetOf, offset, raises, position, intent, decision, accepted, claimed,
                  Signed, working, registered, Net>>
  BY DEF ReadPosition, WritePosition, feed, books, locals, durable, Signed, Net
<1>2. CASE ReadPosition("bus")
  <2>1. /\ readPos' = [readPos EXCEPT !["bus"] = position] /\ dbPosition' = dbPosition
        /\ Phase = "read" /\ Goto("bus", "write")
    BY <1>2 DEF ReadPosition, durable, Phase
  <2>2. readPos' \in [Threads -> Int] /\ readPos'["bus"] = position
    BY <2>1, RunnerAssumption DEF PaperTypes
  <2>3. Phase' = "write" /\ pc' \in [Threads -> Phases]
    BY <2>1, Moves DEF Phases
  <2>4. PaperTypes' /\ Booked' /\ OneWorking'
    BY <1>1, <2>1, <2>2, <2>3 DEF PaperTypes, Booked, OneWorking, Deciding, Placed, After
  <2>5. Aimed' /\ Limited'
    BY <1>1, <2>1, <2>2, <2>3 DEF Aimed, Deciding, Placed, After, Limited, PositionWithinLimit, Checked
  <2> QED
    BY <2>4, <2>5
<1>3. CASE WritePosition("bus", "filled")
  <2>1. /\ dbPosition' = readPos["bus"] /\ readPos' = readPos
        /\ Phase = "write" /\ Goto("bus", "filled")
    BY <1>3 DEF WritePosition, locals, Phase
  <2>2. Phase' = "filled" /\ pc' \in [Threads -> Phases] /\ dbPosition' = position
    BY <2>1, Moves DEF Phases, Limited
  <2>4. PaperTypes' /\ Booked' /\ OneWorking'
    BY <1>1, <2>1, <2>2 DEF PaperTypes, Booked, OneWorking, Deciding, Placed, After
  <2>5. Aimed' /\ Limited'
    BY <1>1, <2>1, <2>2 DEF Aimed, Deciding, Placed, After, Limited, PositionWithinLimit, Checked
  <2> QED
    BY <2>4, <2>5
<1> QED
  BY <1>2, <1>3

LEMMA FinishStep ==
  ASSUME PaperInv, Finish
  PROVE  PaperInv'
<1> USE DEF PaperInv
<1>1. /\ UNCHANGED <<targetOf, offset, raises, position, dbPosition, decision, intent, accepted,
                     readPos, claimed, registered>>
      /\ Phase = "finish" /\ Goto("bus", "idle")
  BY DEF Finish, feed, durable, locals, Phase
<1>2. /\ BookTyped(working') /\ DOMAIN working' \subseteq DOMAIN working
      /\ raises = 0 => DOMAIN working' = {}
  <2>1. CASE accepted
    <3>1. working' = working
      BY <2>1 DEF Finish
    <3> QED
      BY <1>1, <2>1, <3>1 DEF OneWorking, Booked
  <2>2. CASE ~accepted
    <3>1. working' = Upsert(working, intent, 0, "REJECTED") /\ "REJECTED" \in Terminal
      BY <2>2 DEF Finish, Terminal
    <3>2. BookTyped(working') /\ DOMAIN working' = DOMAIN working \ {intent}
      BY <3>1, Goes DEF Booked
    <3> QED
      BY <3>2 DEF OneWorking
  <2> QED
    BY <2>1, <2>2
<1>3. Phase' = "idle" /\ pc' \in [Threads -> Phases]
  BY <1>1, Moves DEF Phases
<1>4. PaperTypes' /\ Booked' /\ OneWorking'
  BY <1>1, <1>2, <1>3 DEF PaperTypes, Booked, OneWorking, Deciding, Placed, After
<1>5. Aimed' /\ Limited'
  BY <1>1, <1>3 DEF Aimed, Deciding, Placed, After, Limited, PositionWithinLimit, Checked
<1> QED
  BY <1>4, <1>5

(* A call raises: what was done stays done.                                *)
LEMMA RaiseStep ==
  ASSUME PaperInv, CallRaises \/ InsertRaises
  PROVE  PaperInv'
<1>1. /\ UNCHANGED <<targetOf, offset, working, registered, dbPosition, readPos, decision, intent,
                     accepted, claimed, Signed>>
      /\ Goto("bus", "idle") /\ raises' = raises + 1
  BY DEF CallRaises, InsertRaises, Raise, OnFillUnstored, books, durable, locals, Signed
<1>2. Phase' = "idle" /\ pc' \in [Threads -> Phases]
  BY <1>1, Moves DEF Phases, PaperInv
<1>3. raises' \in Nat /\ raises' # 0
  BY <1>1 DEF PaperInv, PaperTypes
<1>4. CASE CallRaises
  <2>1. position' = position
    BY <1>4 DEF CallRaises, books
  <2> QED
    BY <1>1, <1>2, <1>3, <2>1, Abandoned
<1>5. CASE InsertRaises
  <2> USE DEF PaperInv
  <2>1. position' = position + Signed /\ Phase = "fill"
    BY <1>5 DEF InsertRaises, OnFillUnstored, Signed, Phase
  <2>2. position' \in Int /\ Abs(position') <= MaxPosition
    BY <2>1, SignedTyped DEF PaperTypes, Limited, Checked, Placed
  <2>3. PaperTypes'
    BY <1>1, <1>2, <1>3, <2>2 DEF PaperTypes, Deciding, Placed, After
  <2>4. Booked' /\ OneWorking'
    BY <1>1, <1>2, <1>3 DEF Booked, OneWorking, Deciding, Placed, After
  <2>5. Aimed'
    BY <1>2 DEF Aimed, Deciding, Placed, After
  <2>6. Limited'
    BY <1>1, <1>2, <2>2 DEF Limited, PositionWithinLimit, Checked, Placed
  <2> QED
    BY <2>3, <2>4, <2>5, <2>6
<1> QED
  BY <1>4, <1>5

(* A crash: the position goes back to what was stored.                     *)
LEMMA RestartStep ==
  ASSUME PaperInv, Restart
  PROVE  PaperInv'
<1> USE DEF PaperInv
<1>1. /\ UNCHANGED <<targetOf, dbPosition, raises, claimed>> /\ position' = dbPosition
      /\ offset' \in 1..offset /\ working' = EmptyBook /\ decision' = FirstDecision
      /\ pc' = [t \in Threads |-> "idle"] /\ readPos' = [t \in Threads |-> 0]
  BY DEF Restart, durable
<1>2. Phase' = "idle"
  BY <1>1, RunnerAssumption DEF Phase
<1>3. PaperTypes'
  <2>1. 1 \in 1..MaxBar
    BY RunnerAssumption
  <2> QED
    BY <1>1, <1>2, <2>1 DEF PaperTypes, Phases, Deciding, Placed, After, FirstDecision
<1>4. Booked' /\ OneWorking'
  <2>1. DOMAIN working' = {}
    BY <1>1 DEF EmptyBook
  <2> QED
    BY <1>2, <2>1, EmptyNet DEF Booked, OneWorking, Placed, After
<1>5. Aimed' /\ Limited'
  BY <1>1, <1>2 DEF Aimed, Deciding, Placed, After, Limited, PositionWithinLimit, Checked
<1> QED
  BY <1>3, <1>4, <1>5

LEMMA PaperStep == PaperInv /\ [Next]_vars => PaperInv'
<1> SUFFICES ASSUME PaperInv, [Next]_vars PROVE PaperInv'
  OBVIOUS
<1>1. CASE UNCHANGED vars
  BY <1>1 DEF vars, runnerVars, feed, books, durable, locals, PaperInv, PaperTypes, Booked,
              OneWorking, Aimed, Limited, PositionWithinLimit, Phase, Signed, Net
<1>2. CASE BusStep
  BY <1>2, DecideStep, CheckStep, ClaimStep, NoMarkStep, SentStep, FillStep, FilledStep,
     PersistStep, FinishStep, RaiseStep DEF BusStep, Submit
<1> QED
  BY <1>1, <1>2, TargetStep, RestartStep DEF Next

(* The inductive invariant: the order in hand leads from the position and  *)
(* the other orders of the book to the target of its bar.                  *)
THEOREM PaperInvariant == Spec => []PaperInv
BY InitPaper, PaperStep, PTL DEF Spec

(* The book and the stored position keep the limit, although the check     *)
(* leaves the working orders out (max_position, risk/pre_trade.py).        *)
THEOREM LimitKept == Spec => []PositionWithinLimit
<1>1. PaperInv => PositionWithinLimit
  BY DEF PaperInv, Limited
<1> QED
  BY <1>1, PaperInvariant, PTL

(* An order that filled took the position, with what is left in the book,  *)
(* exactly to the target of its bar, whatever was redelivered and wherever *)
(* the service crashed or a call raised; until a call raises the book is   *)
(* empty then.                                                             *)
THEOREM TargetIsReached == Spec => []TargetReached
<1>1. PaperInv => TargetReached
  <2> SUFFICES ASSUME PaperInv, Phase = "finish", accepted
               PROVE  /\ position + NetWorking = targetOf[intent.bar]
                      /\ raises = 0 => position = targetOf[intent.bar]
    BY DEF TargetReached, Phase
  <2>1. position + Net = targetOf[intent.bar] /\ NetWorking = Net /\ position \in Int
    BY NetWorkingIsSum DEF PaperInv, Aimed, Net, PaperTypes
  <2>2. raises = 0 => Net = 0
    BY EmptyNet DEF PaperInv, OneWorking, Net
  <2> QED
    BY <2>1, <2>2
<1> QED
  BY <1>1, PaperInvariant, PTL

-----------------------------------------------------------------------------
(* The signed quantities of stored fills, and of fills as they are.        *)
Values(rows) == [i \in DOMAIN rows |-> rows[i].side * rows[i].qty]
Sizes(fills) == [k \in fills |-> k.side * k.qty]

LEMMA FilledIsSum ==
  ASSUME NEW rows \in SUBSET DOMAIN dbFills
  PROVE  FilledQty(rows) = Sum(Values(dbFills), rows)
<1> DEFINE It(g) == [s \in SUBSET rows |->
              IF s = {} THEN 0
              ELSE LET x == CHOOSE x \in s : TRUE
                   IN  dbFills[x].side * dbFills[x].qty + g[s \ {x}]]
<1>1. FilledQty(rows) = (CHOOSE g : g = It(g))[rows]
  BY DEF FilledQty, MapThenSumSet, MapThenFoldSet
<1>2. \A g : It(g) = SumIt(Values(dbFills), rows, g)
  BY DEF SumIt, Values
<1> HIDE DEF It
<1>3. (CHOOSE g : g = It(g)) = (CHOOSE g : IsSum(Values(dbFills), rows, g))
  BY <1>2 DEF IsSum
<1> QED
  BY <1>1, <1>3, SumIs

LEMMA SignedIsSum ==
  ASSUME NEW fills
  PROVE  SignedQty(fills) = Sum(Sizes(fills), fills)
<1> DEFINE It(g) == [s \in SUBSET fills |->
              IF s = {} THEN 0
              ELSE LET x == CHOOSE x \in s : TRUE
                   IN  x.side * x.qty + g[s \ {x}]]
<1>1. SignedQty(fills) = (CHOOSE g : g = It(g))[fills]
  BY DEF SignedQty, MapThenSumSet, MapThenFoldSet
<1>2. \A g : It(g) = SumIt(Sizes(fills), fills, g)
  BY DEF SumIt, Sizes
<1> HIDE DEF It
<1>3. (CHOOSE g : g = It(g)) = (CHOOSE g : IsSum(Sizes(fills), fills, g))
  BY <1>2 DEF IsSum
<1> QED
  BY <1>1, <1>3, SumIs

(* A quantity that lacks some of the stored fills and holds some that are  *)
(* not stored, at most n of them together.                                 *)
Wrong(rows, fills, lost, extra, n) ==
  /\ lost \in SUBSET DOMAIN rows /\ extra \in SUBSET fills
  /\ Cardinality(lost) + Cardinality(extra) <= n
AllBut(rows, fills, x, n) ==
  \E lost, extra :
    /\ Wrong(rows, fills, lost, extra, n)
    /\ x = Sum(Values(rows), DOMAIN rows \ lost) + Sum(Sizes(extra), extra)

(* Fills with keys.                                                        *)
FillsTyped(rows, fills) ==
  /\ \E S : rows \in Seq(S)
  /\ \A i \in DOMAIN rows : Values(rows)[i] \in Int
  /\ IsFiniteSet(fills)
  /\ \A k \in fills : k.side * k.qty \in Int

LEMMA FiniteFills ==
  ASSUME NEW rows, NEW fills, FillsTyped(rows, fills)
  PROVE  /\ Len(rows) \in Nat /\ DOMAIN rows = 1..Len(rows) /\ IsFiniteSet(DOMAIN rows)
         /\ \A lost \in SUBSET DOMAIN rows : IsFiniteSet(lost) /\ Cardinality(lost) \in Nat
         /\ \A extra \in SUBSET fills :
              /\ IsFiniteSet(extra) /\ Cardinality(extra) \in Nat
              /\ Sum(Sizes(extra), extra) \in Int
         /\ \A some \in SUBSET DOMAIN rows : Sum(Values(rows), some) \in Int
<1>1. Len(rows) \in Nat /\ DOMAIN rows = 1..Len(rows)
  BY DEF FillsTyped
<1>2. IsFiniteSet(1..Len(rows))
  BY <1>1, FS_Interval
<1>3. \A lost \in SUBSET DOMAIN rows : IsFiniteSet(lost) /\ Cardinality(lost) \in Nat
  BY <1>1, <1>2, FS_Subset, FS_CardinalityType
<1>4. ASSUME NEW extra \in SUBSET fills
      PROVE  /\ IsFiniteSet(extra) /\ Cardinality(extra) \in Nat
             /\ Sum(Sizes(extra), extra) \in Int
  <2>1. IsFiniteSet(extra) /\ Cardinality(extra) \in Nat
    BY FS_Subset, FS_CardinalityType DEF FillsTyped
  <2>2. \A k \in extra : Sizes(extra)[k] \in Int
    BY DEF FillsTyped, Sizes
  <2> QED
    BY <2>1, <2>2, SumType
<1>5. \A some \in SUBSET DOMAIN rows : Sum(Values(rows), some) \in Int
  <2>1. \A i \in DOMAIN rows : Values(rows)[i] \in Int
    BY DEF FillsTyped
  <2>2. IsFiniteSet(DOMAIN rows)
    BY <1>1, <1>2
  <2> QED
    BY <2>1, <2>2, SumType
<1> QED
  BY <1>1, <1>2, <1>3, <1>4, <1>5

LEMMA AllButMore ==
  ASSUME NEW rows, NEW fills, FillsTyped(rows, fills), NEW x, NEW n \in Nat,
         NEW m \in Nat, n <= m, AllBut(rows, fills, x, n)
  PROVE  AllBut(rows, fills, x, m)
<1>1. \A lost, extra : Wrong(rows, fills, lost, extra, n) => Wrong(rows, fills, lost, extra, m)
  BY FiniteFills DEF Wrong
<1> QED
  BY <1>1 DEF AllBut

(* A fill is stored: it is counted, or one more that is not.               *)
LEMMA AllButStored ==
  ASSUME NEW rows, NEW fills, FillsTyped(rows, fills), NEW k, k.side * k.qty \in Int,
         NEW x \in Int, NEW n \in Nat, AllBut(rows, fills, x, n)
  PROVE  /\ FillsTyped(Append(rows, k), fills)
         /\ AllBut(Append(rows, k), fills, x + k.side * k.qty, n)
         /\ AllBut(Append(rows, k), fills, x, n + 1)
<1> DEFINE D == DOMAIN rows
           z == Len(rows) + 1
           new == Append(rows, k)
           V == Values(new)
           v == k.side * k.qty
<1>1. PICK S : rows \in Seq(S)
  BY DEF FillsTyped
<1>2. rows \in Seq(S \cup {k})
  BY <1>1
<1>3. /\ new \in Seq(S \cup {k}) /\ DOMAIN new = D \cup {z} /\ new[z] = k
      /\ \A i \in D : new[i] = rows[i]
  BY <1>2
<1>4. /\ D = 1..(z - 1) /\ z \in Nat /\ z \notin D /\ IsFiniteSet(D)
      /\ \A lost \in SUBSET D : IsFiniteSet(lost) /\ Cardinality(lost) \in Nat
      /\ \A extra \in SUBSET fills : Cardinality(extra) \in Nat /\ Sum(Sizes(extra), extra) \in Int
  BY FiniteFills
<1>5. V[z] = v /\ \A i \in D : V[i] = Values(rows)[i] /\ V[i] \in Int
  BY <1>3 DEF Values, FillsTyped
<1>6. FillsTyped(new, fills)
  BY <1>3, <1>5 DEF FillsTyped
<1> HIDE DEF V, new, v, D, z
<1>7. \A T \in SUBSET D : Sum(V, T) = Sum(Values(rows), T) /\ Sum(V, T) \in Int
  <2> DEFINE old == Values(rows)
  <2>3. IsFiniteSet(D) /\ \A i \in D : V[i] = old[i]
    BY <1>4, <1>5
  <2> HIDE DEF old
  <2>4. \A T \in SUBSET D : Sum(V, T) = Sum(old, T)
    BY <2>3, SumAgrees
  <2>1. \A T \in SUBSET D : Sum(V, T) = Sum(Values(rows), T)
    BY <2>4 DEF old
  <2>2. \A T \in SUBSET D : Sum(V, T) \in Int
    BY <1>4, <1>5, SumType
  <2> QED
    BY <2>1, <2>2
<1>8. PICK lost, extra : /\ Wrong(rows, fills, lost, extra, n)
                         /\ x = Sum(Values(rows), D \ lost) + Sum(Sizes(extra), extra)
  BY DEF AllBut, D
<1>9. lost \in SUBSET D /\ extra \in SUBSET fills /\ Cardinality(lost) + Cardinality(extra) <= n
  BY <1>8 DEF Wrong, D
<1>10. v \in Int
  BY DEF v
<1>11. AllBut(new, fills, x + v, n)
  <2> DEFINE R == D \ lost
  <2>1. IsFiniteSet(R) /\ z \notin R /\ (D \cup {z}) \ lost = R \cup {z} /\ R \in SUBSET D
    BY <1>4, <1>9, FS_Subset
  <2>2. \A i \in R \cup {z} : V[i] \in Int
    BY <1>5, <1>10, <2>1
  <2> HIDE DEF R
  <2>3. Sum(V, R \cup {z}) = Sum(V, R) + v
    BY <1>5, <2>1, <2>2, SumAdd
  <2>4. x = Sum(V, R) + Sum(Sizes(extra), extra) /\ Sum(V, R) \in Int
    BY <1>7, <1>8, <2>1 DEF R
  <2>5. x + v = Sum(V, R \cup {z}) + Sum(Sizes(extra), extra)
    BY <1>4, <1>9, <1>10, <2>3, <2>4
  <2>6. Wrong(new, fills, lost, extra, n)
    BY <1>3, <1>9 DEF Wrong
  <2> QED
    BY <1>3, <2>1, <2>5, <2>6 DEF AllBut, V
<1>12. AllBut(new, fills, x, n + 1)
  <2> DEFINE more == lost \cup {z}
  <2>1. Cardinality(more) = Cardinality(lost) + 1 /\ Cardinality(lost) \in Nat
    BY <1>4, <1>9, FS_AddElement
  <2>2. (D \cup {z}) \ more = D \ lost /\ more \in SUBSET (D \cup {z})
    BY <1>4, <1>9
  <2> HIDE DEF more
  <2>3. Wrong(new, fills, more, extra, n + 1)
    BY <1>3, <1>4, <1>9, <2>1, <2>2 DEF Wrong
  <2>4. D \ lost \in SUBSET D
    OBVIOUS
  <2>5. Sum(V, D \ lost) = Sum(Values(rows), D \ lost)
    BY <1>7, <2>4
  <2>6. x = Sum(V, (D \cup {z}) \ more) + Sum(Sizes(extra), extra)
    BY <1>8, <2>2, <2>5
  <2> QED
    BY <1>3, <2>3, <2>6 DEF AllBut, V
<1> QED
  BY <1>6, <1>11, <1>12 DEF new, v

(* A fill is counted and not stored.                                       *)
LEMMA AllButUnstored ==
  ASSUME NEW rows, NEW fills, FillsTyped(rows, fills), NEW k, k \notin fills,
         k.side * k.qty \in Int,
         NEW x \in Int, NEW n \in Nat, AllBut(rows, fills, x, n)
  PROVE  /\ FillsTyped(rows, fills \cup {k})
         /\ AllBut(rows, fills \cup {k}, x + k.side * k.qty, n + 1)
         /\ AllBut(rows, fills \cup {k}, x, n + 1)
<1> DEFINE v == k.side * k.qty
           T(extra) == Sum(Sizes(extra), extra)
<1>1. FillsTyped(rows, fills \cup {k})
  BY FS_AddElement DEF FillsTyped
<1>2. PICK lost, extra : /\ Wrong(rows, fills, lost, extra, n)
                         /\ x = Sum(Values(rows), DOMAIN rows \ lost) + T(extra)
  BY DEF AllBut
<1>3. /\ lost \in SUBSET DOMAIN rows /\ extra \in SUBSET fills
      /\ Cardinality(lost) + Cardinality(extra) <= n
      /\ Cardinality(lost) \in Nat /\ Cardinality(extra) \in Nat /\ IsFiniteSet(extra)
      /\ T(extra) \in Int /\ Sum(Values(rows), DOMAIN rows \ lost) \in Int
  BY <1>2, FiniteFills DEF Wrong
<1> DEFINE more == extra \cup {k}
           f == Sizes(more)
<1>4. Cardinality(more) = Cardinality(extra) + 1 /\ k \notin extra /\ more \in SUBSET (fills \cup {k})
  BY <1>3, FS_AddElement
<1>5. T(more) = T(extra) + v
  <2>1. f[k] = v /\ \A j \in extra : f[j] = Sizes(extra)[j]
    BY DEF Sizes
  <2>2. \A j \in more : f[j] \in Int
    BY <1>3 DEF Sizes, FillsTyped
  <2>3. T(more) = Sum(f, extra \cup {k})
    OBVIOUS
  <2>4. \A j \in extra \cup {k} : f[j] \in Int
    BY <2>2
  <2> HIDE DEF f
  <2>5. Sum(f, extra \cup {k}) = Sum(f, extra) + f[k]
    BY <1>3, <1>4, <2>4, SumAdd
  <2>6. Sum(f, extra) = Sum(Sizes(extra), extra)
    BY <1>3, <2>1, SumAgrees
  <2> QED
    BY <2>1, <2>3, <2>5, <2>6
<1> HIDE DEF T, more, v
<1>6. /\ Wrong(rows, fills \cup {k}, lost, more, n + 1)
      /\ Wrong(rows, fills \cup {k}, lost, extra, n + 1)
  BY <1>3, <1>4 DEF Wrong
<1>7. v \in Int
  BY DEF v
<1>8. x + v = Sum(Values(rows), DOMAIN rows \ lost) + T(more)
  BY <1>2, <1>3, <1>5, <1>7
<1>9. AllBut(rows, fills \cup {k}, x + v, n + 1)
  BY <1>6, <1>8 DEF AllBut, T
<1>10. AllBut(rows, fills \cup {k}, x, n + 1)
  BY <1>2, <1>6 DEF AllBut, T
<1> QED
  BY <1>1, <1>9, <1>10 DEF v

Storing == Phase \in {"read", "write"}
Slack   == crashes + raises

StoreInv ==
  /\ FillsTyped(dbFills, unstored) /\ crashes \in Nat
  /\ unstored \subseteq claimed
  /\ Phase \in Placed => intent \notin unstored
  /\ AllBut(dbFills, unstored, position, Slack)
  /\ AllBut(dbFills, unstored, dbPosition, IF Storing THEN Slack + 1 ELSE Slack)

LEMMA SlackTyped == PaperInv /\ StoreInv => Slack \in Nat /\ crashes \in Nat /\ raises \in Nat
BY DEF PaperInv, PaperTypes, StoreInv, Slack

LEMMA InitStore == Init => StoreInv
<1> SUFFICES ASSUME Init PROVE StoreInv
  OBVIOUS
<1>1. /\ dbFills = <<>> /\ crashes = 0 /\ raises = 0 /\ position = 0 /\ dbPosition = 0
      /\ unstored = {} /\ Phase = "idle"
  BY RunnerAssumption DEF Init, RunnerInit, Phase
<1>2. <<>> \in Seq({}) /\ DOMAIN <<>> = {}
  OBVIOUS
<1>3. FillsTyped(<<>>, {})
  BY <1>2, FS_EmptySet DEF FillsTyped
<1>4. Sum(Values(<<>>), {}) = 0 /\ Sum(Sizes({}), {}) = 0
  BY FS_EmptySet, SumFirst
<1>5. Wrong(<<>>, {}, {}, {}, 0) /\ DOMAIN <<>> \ {} = {}
  <2>1. Cardinality({}) = 0
    BY FS_EmptySet
  <2> QED
    BY <1>2, <2>1 DEF Wrong
<1>6. AllBut(<<>>, {}, 0, 0)
  BY <1>4, <1>5 DEF AllBut
<1> QED
  BY <1>1, <1>3, <1>6 DEF StoreInv, Storing, Slack, Placed

(* Nothing is filled and nothing stored.                                   *)
LEMMA StoreFrame ==
  ASSUME StoreInv, UNCHANGED <<dbFills, unstored, crashes, raises, position, dbPosition>>,
         claimed \subseteq claimed', Phase' \in Placed => intent' \notin unstored,
         Storing' <=> Storing
  PROVE  StoreInv'
<1>1. Slack' = Slack
  BY DEF Slack
<1> QED
  BY <1>1 DEF StoreInv

LEMMA StoreFill ==
  ASSUME PaperInv, StoreInv, SubmitFill
  PROVE  StoreInv'
<1>1. /\ dbFills' = Append(dbFills, intent) /\ position' = position + intent.side * intent.qty
      /\ UNCHANGED <<dbPosition, crashes, raises, unstored, claimed, Slack>>
      /\ Phase = "fill" /\ Goto("bus", "read")
  BY DEF SubmitFill, OnFill, feed, Phase, Slack
<1>2. Phase' = "read" /\ Storing' /\ Phase' \notin Placed
  BY <1>1, Moves DEF PaperInv, Phases, Storing, Placed
<1>3. intent.side * intent.qty \in Int /\ position \in Int /\ dbPosition \in Int
  BY <1>1, SignedTyped DEF PaperInv, PaperTypes, Signed, Placed
<1>4. /\ FillsTyped(dbFills, unstored) /\ Slack \in Nat
      /\ AllBut(dbFills, unstored, position, Slack)
      /\ AllBut(dbFills, unstored, dbPosition, Slack)
  BY <1>1, SlackTyped DEF StoreInv, Storing
<1>5. /\ FillsTyped(dbFills', unstored)
      /\ AllBut(dbFills', unstored, position', Slack)
      /\ AllBut(dbFills', unstored, dbPosition, Slack + 1)
  BY <1>1, <1>3, <1>4, AllButStored
<1> QED
  BY <1>1, <1>2, <1>5 DEF StoreInv

LEMMA StoreRaise ==
  ASSUME PaperInv, StoreInv, CallRaises \/ InsertRaises
  PROVE  StoreInv'
<1>1. /\ UNCHANGED <<dbFills, dbPosition, crashes, claimed>>
      /\ Goto("bus", "idle") /\ raises' = raises + 1
  BY DEF CallRaises, InsertRaises, Raise, OnFillUnstored, durable
<1>2. ~Storing' /\ Phase' \notin Placed
  BY <1>1, Moves DEF PaperInv, Phases, Storing, Placed
<1>3. Slack' = Slack + 1 /\ Slack \in Nat /\ crashes' \in Nat
  BY <1>1, SlackTyped DEF Slack
<1>4. /\ FillsTyped(dbFills, unstored)
      /\ AllBut(dbFills, unstored, position, Slack)
  BY DEF StoreInv
<1>5. CASE CallRaises
  <2>1. UNCHANGED <<position, unstored>>
    BY <1>5 DEF CallRaises, books, durable
  <2>2. AllBut(dbFills, unstored, position, Slack + 1)
    BY <1>3, <1>4, AllButMore
  <2>3. AllBut(dbFills, unstored, dbPosition, Slack + 1)
    <3>1. CASE Storing
      BY <3>1 DEF StoreInv
    <3>2. CASE ~Storing
      <4>1. AllBut(dbFills, unstored, dbPosition, Slack)
        BY <3>2 DEF StoreInv
      <4> QED
        BY <1>3, <1>4, <4>1, AllButMore
    <3> QED
      BY <3>1, <3>2
  <2>4. unstored \subseteq claimed
    BY DEF StoreInv
  <2> QED
    BY <1>1, <1>2, <1>3, <1>4, <2>1, <2>2, <2>3, <2>4 DEF StoreInv
<1>6. CASE InsertRaises
  <2>1. /\ position' = position + intent.side * intent.qty
        /\ unstored' = unstored \cup {intent} /\ Phase = "fill"
    BY <1>6 DEF InsertRaises, OnFillUnstored, Phase
  <2>2. /\ intent.side * intent.qty \in Int /\ position \in Int /\ dbPosition \in Int
        /\ intent \notin unstored /\ intent \in claimed /\ unstored \subseteq claimed
    BY <2>1, SignedTyped DEF PaperInv, PaperTypes, Booked, Signed, Placed, StoreInv
  <2>3. AllBut(dbFills, unstored, dbPosition, Slack)
    BY <2>1 DEF StoreInv, Storing
  <2>4. /\ FillsTyped(dbFills, unstored')
        /\ AllBut(dbFills, unstored', position', Slack + 1)
        /\ AllBut(dbFills, unstored', dbPosition, Slack + 1)
    BY <1>3, <1>4, <2>1, <2>2, <2>3, AllButUnstored
  <2> QED
    BY <1>1, <1>2, <1>3, <2>1, <2>2, <2>4 DEF StoreInv
<1> QED
  BY <1>5, <1>6

LEMMA StoreStep ==
  ASSUME PaperInv, StoreInv, [Next]_vars
  PROVE  StoreInv'
<1>1. CASE OnTarget \/ ReadWorking \/ Validate \/ Finish \/ SubmitNoMark \/ SubmitSent
             \/ SubmitFilled \/ ReadPosition("bus") \/ UNCHANGED vars
  <2>1. UNCHANGED <<dbFills, unstored, crashes, raises, position, dbPosition, claimed>>
    BY <1>1 DEF OnTarget, ReadWorking, Validate, Finish, SubmitNoMark, SubmitSent,
                SubmitFilled, ReadPosition, vars, runnerVars, feed, books, durable
  <2>2. \/ UNCHANGED pc
        \/ /\ Phase \notin {"read", "write"}
           /\ \E p \in Phases \ {"read", "write"} : Goto("bus", p)
        \/ Phase = "read" /\ Goto("bus", "write")
    BY <1>1 DEF OnTarget, ReadWorking, Validate, Finish, SubmitNoMark, SubmitSent,
                SubmitFilled, ReadPosition, vars, runnerVars, Phase, Phases
  <2>3. Storing' <=> Storing
    <3>1. CASE UNCHANGED pc
      BY <3>1 DEF Storing, Phase
    <3>2. CASE /\ Phase \notin {"read", "write"}
               /\ \E p \in Phases \ {"read", "write"} : Goto("bus", p)
      BY <3>2, Moves DEF Storing, PaperInv
    <3>3. CASE Phase = "read" /\ Goto("bus", "write")
      BY <3>3, Moves DEF Storing, PaperInv, Phases
    <3> QED
      BY <2>2, <3>1, <3>2, <3>3
  <2>4. Phase' \in Placed => intent' \notin unstored
    <3>1. CASE SubmitSent \/ UNCHANGED vars
      BY <3>1 DEF SubmitSent, vars, runnerVars, locals, Phase, StoreInv, Placed
    <3>2. CASE OnTarget \/ ReadWorking \/ Validate \/ Finish \/ SubmitNoMark
                 \/ SubmitFilled \/ ReadPosition("bus")
      <4>1. \E p \in Phases \ Placed : Goto("bus", p)
        BY <3>2 DEF OnTarget, ReadWorking, Validate, Finish, SubmitNoMark,
                    SubmitFilled, ReadPosition, Phases, Placed
      <4> QED
        BY <4>1, Moves DEF PaperInv
    <3> QED
      BY <1>1, <3>1, <3>2
  <2> QED
    BY <2>1, <2>3, <2>4, StoreFrame
<1>2. CASE ClaimAndRegister
  <2>1. /\ UNCHANGED <<dbFills, unstored, crashes, raises, position, dbPosition, intent>>
        /\ Phase = "claim" /\ claimed \subseteq claimed'
        /\ \/ Goto("bus", "idle")
           \/ Goto("bus", "submit") /\ intent \notin claimed
    BY <1>2 DEF ClaimAndRegister, ClaimWins, feed, locals, Phase
  <2>2. \/ Phase' = "idle"
        \/ Phase' = "submit" /\ intent \notin claimed
    BY <2>1, Moves DEF PaperInv, Phases
  <2> QED
    BY <2>1, <2>2, StoreFrame DEF StoreInv, Storing, Placed
<1>3. CASE WritePosition("bus", "filled")
  <2>1. /\ UNCHANGED <<dbFills, unstored, crashes, raises, position, claimed, Slack>>
        /\ dbPosition' = readPos["bus"] /\ Phase = "write" /\ Goto("bus", "filled")
    BY <1>3 DEF WritePosition, feed, books, Phase, Slack
  <2>2. dbPosition' = position /\ ~Storing' /\ Phase' \notin Placed
    BY <2>1, Moves DEF PaperInv, Limited, Storing, Phases, Placed
  <2> QED
    BY <2>1, <2>2 DEF StoreInv
<1>4. CASE Restart
  <2>1. /\ UNCHANGED <<dbFills, unstored, claimed, dbPosition>> /\ position' = dbPosition
        /\ crashes' = crashes + 1 /\ raises' = raises /\ Phase' = "idle"
    BY <1>4, RunnerAssumption DEF Restart, durable, Phase
  <2>2. ~Storing' /\ Phase' \notin Placed
    BY <2>1 DEF Storing, Placed
  <2>3. Slack' = Slack + 1 /\ Slack \in Nat /\ crashes' \in Nat
    BY <2>1, SlackTyped DEF Slack
  <2>4. AllBut(dbFills, unstored, dbPosition, Slack + 1)
    <3>1. CASE Storing
      BY <3>1 DEF StoreInv
    <3>2. CASE ~Storing
      <4>1. AllBut(dbFills, unstored, dbPosition, Slack) /\ FillsTyped(dbFills, unstored)
        BY <3>2 DEF StoreInv
      <4> QED
        BY <2>3, <4>1, AllButMore
    <3> QED
      BY <3>1, <3>2
  <2> QED
    BY <2>1, <2>2, <2>3, <2>4 DEF StoreInv
<1>5. CASE CallRaises \/ InsertRaises \/ SubmitFill
  BY <1>5, StoreRaise, StoreFill
<1> QED
  BY <1>1, <1>2, <1>3, <1>4, <1>5 DEF Next, BusStep, Submit

(* Between targets the stored position is the sum of the stored fills, but *)
(* for one fill for each crash or raise at most, left out or counted       *)
(* without being stored.                                                   *)
THEOREM StoredPositionIsAccounted == Spec => []StoredPositionAccounted
<1>1. PaperInv /\ StoreInv /\ [Next]_vars => StoreInv'
  BY StoreStep
<1>2. StoreInv => StoredPositionAccounted
  <2> SUFFICES ASSUME StoreInv, Phase = "idle"
               PROVE  \E lost \in SUBSET DOMAIN dbFills, extra \in SUBSET unstored :
                        /\ Cardinality(lost) + Cardinality(extra) <= crashes + raises
                        /\ dbPosition = FilledQty(DOMAIN dbFills \ lost) + SignedQty(extra)
    BY DEF StoredPositionAccounted, Phase
  <2>1. PICK lost, extra :
          /\ Wrong(dbFills, unstored, lost, extra, crashes + raises)
          /\ dbPosition = Sum(Values(dbFills), DOMAIN dbFills \ lost) + Sum(Sizes(extra), extra)
    BY DEF StoreInv, Storing, Slack, AllBut
  <2>2. /\ FilledQty(DOMAIN dbFills \ lost) = Sum(Values(dbFills), DOMAIN dbFills \ lost)
        /\ SignedQty(extra) = Sum(Sizes(extra), extra)
    BY FilledIsSum, SignedIsSum
  <2> QED
    BY <2>1, <2>2 DEF Wrong
<1> QED
  BY <1>1, <1>2, InitStore, PaperInvariant, PTL DEF Spec

-----------------------------------------------------------------------------
(* Ticks with a price, bars and messages.                                  *)
Heard    == {t \in UNION {UNION {c.ticks[n] : n \in DOMAIN c.ticks} : c \in Conducts} :
               t.price # NoPrice}
Bar      == [start : Int, open : Int, high : Int, low : Int, close : Int, volume : Int]
Messages == [kind : {"bar", "garbled", "unfit"}, bar : Bar \cup {NoBar}]

FeedTypes ==
  /\ conduct \in Conducts
  /\ heard \in Seq(Heard) /\ openBar \in Bar \cup {NoBar} /\ emitted \in Seq(Bar)
  /\ outbox \in Seq(Messages) /\ topic \in Seq(Messages)

(* What is in hand are the last messages read, in order; only Redis has    *)
(* one that is handled and waits for its XACK.                             *)
InHand ==
  /\ readTo \in Nat /\ readTo <= Len(topic)
  /\ group # Unset => Redis /\ group \in Nat /\ group <= readTo
  /\ committed # Unset => committed \in Nat /\ committed <= Len(topic)
  /\ hand \in Seq(Nat) /\ Len(hand) <= readTo
  /\ \A i \in DOMAIN hand : hand[i] = readTo - Len(hand) + i
  /\ proc = "down" => thread = "none"
  /\ thread # "running" => hand = <<>>
  /\ thread = "joining" => ~Redis
  /\ acking \in BOOLEAN
  /\ acking => Redis /\ hand # <<>> /\ \E k \in DOMAIN handled : handled[k].at = Head(hand)

Through == IF acking THEN 1 ELSE 0

(* What was handled, in Redis ever and in Kafka in this life, was read     *)
(* before what is in hand.                                                 *)
HandledBefore ==
  /\ handled \in Seq([at : Nat, life : Nat]) /\ lives \in Nat
  /\ \A k \in DOMAIN handled :
       /\ handled[k].life <= lives
       /\ thread = "joining" => handled[k].life < lives
       /\ Redis \/ handled[k].life = lives =>
            handled[k].at <= readTo - Len(hand) + Through

DeliveryInv == FeedTypes /\ InHand /\ HandledBefore /\ HandledInOrder /\ LostStaysPending

-----------------------------------------------------------------------------
StartOf(i) == BarStart(heard[i], conduct.interval)

(* r says which bar was reached up to each tick.                           *)
IsReached(r) ==
  /\ r \in [DOMAIN heard -> Int]
  /\ \A i \in DOMAIN heard :
       /\ \E j \in 1..i : r[i] = StartOf(j)
       /\ \A j \in 1..i : StartOf(j) <= r[i]

(* A bar that holds the ticks of a set.                                    *)
Volumes == [i \in DOMAIN heard |-> heard[i].volume]
Holds(b, of) ==
  /\ \E i \in of : b.open = heard[i].price /\ \A j \in of : i <= j
  /\ \E i \in of : b.close = heard[i].price /\ \A j \in of : j <= i
  /\ \E i \in of : b.high = heard[i].price
  /\ \E i \in of : b.low = heard[i].price
  /\ \A i \in of : heard[i].price <= b.high /\ b.low <= heard[i].price
  /\ b.volume = Sum(Volumes, of)

In(r, start) == {i \in DOMAIN heard : r[i] = start}
Blocks == {q * conduct.interval : q \in Int}

BarsOf(r) ==
  /\ IsReached(r)
  /\ openBar = NoBar => heard = <<>> /\ emitted = <<>>
  /\ openBar # NoBar => heard # <<>> /\ openBar.start = r[Len(heard)]
  /\ \A i \in DOMAIN heard : \E k \in DOMAIN Bars : Bars[k].start = r[i]
  /\ \A k \in DOMAIN Bars : Holds(Bars[k], In(r, Bars[k].start))
  /\ \A j, k \in DOMAIN Bars : j < k => Bars[j].start < Bars[k].start
  /\ Hour % conduct.interval = 0 => \A k \in DOMAIN Bars : Bars[k].start \in Blocks

BarsInv == FeedTypes /\ \E r : BarsOf(r)
-----------------------------------------------------------------------------
LEMMA HeardTyped ==
  ASSUME NEW t \in Heard
  PROVE  t.minute \in Int /\ t.price \in Int /\ t.volume \in Int
BY TicksAssumption DEF Heard

LEMMA IntervalTyped ==
  ASSUME conduct \in Conducts
  PROVE  conduct.interval \in Int /\ conduct.interval > 0
BY TicksAssumption

LEMMA StartTyped ==
  ASSUME NEW t \in Heard, NEW I \in Int, I > 0
  PROVE  BarStart(t, I) \in Int
<1>1. t.minute \in Int /\ Hour \in Int /\ Hour > 0
  BY HeardTyped, BuilderAssumption
<1> DEFINE h == t.minute % Hour
<1>2. h \in Int
  BY <1>1
<1> HIDE DEF h
<1> DEFINE q == h \div I
<1>3. q \in Int
  BY <1>2
<1> HIDE DEF q
<1>4. t.minute - h + q * I \in Int
  BY <1>1, <1>2, <1>3
<1> QED
  BY <1>4 DEF BarStart, h, q

LEMMA OpenTyped ==
  ASSUME NEW t \in Heard, NEW I \in Int, I > 0
  PROVE  OpenBar(t, I) \in Bar
BY HeardTyped, StartTyped DEF OpenBar, Bar

LEMMA MergeTyped ==
  ASSUME NEW b \in Bar, NEW t \in Heard
  PROVE  /\ Merge(b, t) \in Bar
         /\ Merge(b, t).start = b.start /\ Merge(b, t).open = b.open
         /\ Merge(b, t).high = Larger(b.high, t.price) /\ Merge(b, t).low = Smaller(b.low, t.price)
         /\ Merge(b, t).close = t.price /\ Merge(b, t).volume = b.volume + t.volume
<1>1. t.price \in Int /\ t.volume \in Int
  BY HeardTyped
<1>2. Larger(b.high, t.price) \in Int /\ Smaller(b.low, t.price) \in Int
  BY <1>1 DEF Larger, Smaller, Bar
<1>3. Merge(b, t) = [b EXCEPT !.high = Larger(b.high, t.price), !.low = Smaller(b.low, t.price),
                              !.close = t.price, !.volume = b.volume + t.volume]
  BY DEF Merge
<1> DEFINE b1 == [b EXCEPT !.high = Larger(b.high, t.price)]
           b2 == [b1 EXCEPT !.low = Smaller(b.low, t.price)]
           b3 == [b2 EXCEPT !.close = t.price]
           b4 == [b3 EXCEPT !.volume = b.volume + t.volume]
<1>4. /\ b1 \in Bar /\ b1.start = b.start /\ b1.open = b.open
      /\ b1.high = Larger(b.high, t.price) /\ b1.volume = b.volume
  BY <1>2 DEF Bar
<1>5. Merge(b, t) = b4
  BY <1>3
<1> HIDE DEF b1
<1>6. /\ b2 \in Bar /\ b2.start = b.start /\ b2.open = b.open /\ b2.volume = b.volume
      /\ b2.high = Larger(b.high, t.price) /\ b2.low = Smaller(b.low, t.price)
  BY <1>2, <1>4 DEF Bar
<1> HIDE DEF b2
<1>7. /\ b3 \in Bar /\ b3.start = b.start /\ b3.open = b.open /\ b3.volume = b.volume
      /\ b3.high = Larger(b.high, t.price) /\ b3.low = Smaller(b.low, t.price)
      /\ b3.close = t.price
  BY <1>1, <1>6 DEF Bar
<1> HIDE DEF b3
<1>8. b.volume + t.volume \in Int
  BY <1>1 DEF Bar
<1>9. /\ b4 \in Bar /\ b4.start = b.start /\ b4.open = b.open
      /\ b4.high = Larger(b.high, t.price) /\ b4.low = Smaller(b.low, t.price)
      /\ b4.close = t.price /\ b4.volume = b.volume + t.volume
  BY <1>7, <1>8 DEF Bar
<1> QED
  BY <1>5, <1>9

(* The same tick in the set all ticks are from.                            *)
LEMMA TickHeard ==
  ASSUME conduct \in Conducts, NEW n \in DOMAIN conduct.ticks, NEW t \in conduct.ticks[n],
         t.price # NoPrice
  PROVE  t \in Heard
BY DEF Heard

LEMMA NoBarIsNoBar == NoBar \notin Bar
BY TicksAssumption DEF Bar

LEMMA MessageTyped ==
  ASSUME NEW b \in Bar
  PROVE  Message(b) \in Messages
BY DEF Message, Messages

LEMMA InitTypes == FeedInit => FeedTypes
<1> SUFFICES ASSUME FeedInit PROVE FeedTypes
  OBVIOUS
<1>1. <<>> \in Seq(Heard) /\ <<>> \in Seq(Bar) /\ <<>> \in Seq(Messages)
  OBVIOUS
<1> QED
  BY <1>1 DEF FeedInit, FeedTypes

LEMMA TypesStep == FeedTypes /\ [FeedNext]_feedVars => FeedTypes'
<1> SUFFICES ASSUME FeedTypes, [FeedNext]_feedVars PROVE FeedTypes'
  OBVIOUS
<1> USE DEF FeedTypes
<1>1. ASSUME NEW n \in DOMAIN conduct.ticks, NEW t \in conduct.ticks[n], OnTick(t)
      PROVE  FeedTypes'
  <2>1. CASE t.price = NoPrice
    BY <1>1, <2>1 DEF OnTick, NoEmit
  <2>2. CASE t.price # NoPrice
    <3>1. t \in Heard /\ OpenBar(t, conduct.interval) \in Bar
      BY <2>2, TickHeard, OpenTyped, IntervalTyped
    <3>2. heard' \in Seq(Heard) /\ conduct' = conduct
      BY <1>1, <2>2, <3>1, AppendProperties DEF OnTick
    <3>3. CASE openBar = NoBar
      <4>1. openBar' = OpenBar(t, conduct.interval) /\ NoEmit
        BY <1>1, <2>2, <3>3 DEF OnTick
      <4> QED
        BY <3>1, <3>2, <4>1 DEF NoEmit
    <3>4. CASE openBar # NoBar
      <4>1. openBar \in Bar /\ Merge(openBar, t) \in Bar /\ Message(openBar) \in Messages
        BY <3>1, <3>4, MergeTyped, MessageTyped
      <4>2. /\ openBar' \in {OpenBar(t, conduct.interval), Merge(openBar, t)}
            /\ NoEmit \/ Emit(openBar)
        BY <1>1, <2>2, <3>4 DEF OnTick
      <4>3. /\ Append(emitted, openBar) \in Seq(Bar)
            /\ Append(outbox, Message(openBar)) \in Seq(Messages)
            /\ Append(topic, Message(openBar)) \in Seq(Messages)
        BY <4>1, AppendProperties
      <4>4. emitted' \in Seq(Bar) /\ outbox' \in Seq(Messages) /\ topic' \in Seq(Messages)
        BY <4>2, <4>3 DEF NoEmit, Emit
      <4> QED
        BY <3>1, <3>2, <4>1, <4>2, <4>4
    <3> QED
      BY <3>3, <3>4
  <2> QED
    BY <2>1, <2>2
<1>2. ASSUME RestartFeed PROVE FeedTypes'
  BY <1>2 DEF RestartFeed
<1>3. ASSUME Deliver PROVE FeedTypes'
  <2>1. Head(outbox) \in Messages /\ Tail(outbox) \in Seq(Messages)
    BY <1>3 DEF Deliver
  <2>2. Append(topic, Head(outbox)) \in Seq(Messages)
    BY <2>1, AppendProperties
  <2> QED
    BY <1>3, <2>1, <2>2 DEF Deliver
<1>4. ASSUME NEW kind \in {"garbled", "unfit"}, PublishAlien(kind) PROVE FeedTypes'
  <2>1. [kind |-> kind, bar |-> NoBar] \in Messages
    BY DEF Messages
  <2>2. Append(topic, [kind |-> kind, bar |-> NoBar]) \in Seq(Messages)
    BY <2>1, AppendProperties
  <2> QED
    BY <1>4, <2>2 DEF PublishAlien, market
<1>5. ASSUME UNCHANGED <<market, topic, conduct>> PROVE FeedTypes'
  BY <1>5 DEF market
<1>6. UNCHANGED feedVars => UNCHANGED <<market, topic, conduct>>
  BY DEF feedVars
<1>7. Start \/ ConsumerStep \/ RedisRaises \/ AutoCommit \/ Stop \/ Exit \/ Crash
      => UNCHANGED <<market, topic, conduct>>
  BY DEF Start, ConsumerStep, Assign, Fetch, Handle, Ack, RedisRaises, AutoCommit, Stop, Exit,
         Crash, Down
<1> QED
  BY <1>1, <1>2, <1>3, <1>4, <1>5, <1>6, <1>7 DEF FeedNext, FeedStep

-----------------------------------------------------------------------------
LEMMA InitDelivery == FeedInit => DeliveryInv
<1> SUFFICES ASSUME FeedInit PROVE DeliveryInv
  OBVIOUS
<1>1. FeedTypes
  BY InitTypes
<1>2. InHand
  <2>1. <<>> \in Seq(Nat) /\ Len(<<>>) = 0 /\ DOMAIN <<>> = {}
    OBVIOUS
  <2>2. /\ topic = <<>> /\ hand = <<>> /\ readTo = 0 /\ group = Unset /\ committed = Unset
        /\ acking = FALSE /\ thread = "none"
    BY DEF FeedInit
  <2>3. /\ readTo \in Nat /\ readTo <= Len(topic) /\ hand \in Seq(Nat) /\ Len(hand) <= readTo
        /\ \A i \in DOMAIN hand : hand[i] = readTo - Len(hand) + i
    BY <2>1, <2>2
  <2> QED
    BY <2>2, <2>3 DEF InHand
<1>3. HandledBefore /\ HandledInOrder /\ LostStaysPending
  <2>1. <<>> \in Seq([at : Nat, life : Nat]) /\ DOMAIN <<>> = {}
    OBVIOUS
  <2> QED
    BY <2>1 DEF FeedInit, HandledBefore, HandledInOrder, LostStaysPending
<1> QED
  BY <1>1, <1>2, <1>3 DEF DeliveryInv

(* The topic grows, and nothing else.                                      *)
LEMMA TopicGrows ==
  ASSUME DeliveryInv, FeedTypes', UNCHANGED <<consumer, strategy, conduct>>,
         Len(topic) <= Len(topic')
  PROVE  DeliveryInv'
<1>1. Len(topic) \in Int /\ Len(topic') \in Int
  BY DEF DeliveryInv, FeedTypes
<1>2. InHand'
  BY <1>1 DEF DeliveryInv, InHand, consumer, strategy, Redis
<1>3. HandledBefore' /\ HandledInOrder' /\ LostStaysPending'
  BY DEF DeliveryInv, HandledBefore, Through, HandledInOrder, LostStaysPending, consumer, strategy, Redis
<1> QED
  BY <1>2, <1>3 DEF DeliveryInv

LEMMA FeedGrows ==
  ASSUME FeedTypes,
         \/ FeedStep \/ Deliver \/ \E kind \in {"garbled", "unfit"} : PublishAlien(kind)
         \/ UNCHANGED feedVars
  PROVE  UNCHANGED <<consumer, strategy, conduct>> /\ Len(topic) <= Len(topic')
<1>1. topic \in Seq(Messages) /\ Len(topic) \in Nat
  BY DEF FeedTypes
<1>2. \A m : Len(Append(topic, m)) = Len(topic) + 1
  BY <1>1
<1>3. topic' = topic \/ \E m : topic' = Append(topic, m)
  BY DEF FeedStep, OnTick, NoEmit, Emit, RestartFeed, Deliver, PublishAlien, feedVars, market
<1>4. UNCHANGED <<consumer, strategy, conduct>>
  BY DEF FeedStep, OnTick, RestartFeed, Deliver, PublishAlien, feedVars
<1> QED
  BY <1>1, <1>2, <1>3, <1>4

(* The head and the tail of what is in hand.                               *)
LEMMA HeadOfHand ==
  ASSUME InHand, hand # <<>>
  PROVE  /\ Head(hand) = readTo - Len(hand) + 1 /\ Head(hand) \in Nat
         /\ Tail(hand) \in Seq(Nat) /\ Len(Tail(hand)) = Len(hand) - 1
         /\ \A i \in DOMAIN Tail(hand) : Tail(hand)[i] = readTo - (Len(hand) - 1) + i
<1>1. hand \in Seq(Nat) /\ readTo \in Nat /\ Len(hand) <= readTo
      /\ \A i \in DOMAIN hand : hand[i] = readTo - Len(hand) + i
  BY DEF InHand
<1>2. /\ Head(hand) = hand[1] /\ 1 \in DOMAIN hand /\ Tail(hand) \in Seq(Nat)
      /\ Len(hand) \in Nat /\ Len(hand) >= 1
      /\ Len(Tail(hand)) = Len(hand) - 1
      /\ DOMAIN Tail(hand) = 1..(Len(hand) - 1) /\ DOMAIN hand = 1..Len(hand)
      /\ \A i \in DOMAIN Tail(hand) : Tail(hand)[i] = hand[i + 1]
  BY <1>1, HeadTailProperties
<1>3. ASSUME NEW i \in DOMAIN Tail(hand) PROVE Tail(hand)[i] = readTo - (Len(hand) - 1) + i
  <2>1. i + 1 \in DOMAIN hand /\ i \in Int
    BY <1>2
  <2>2. hand[i + 1] = readTo - Len(hand) + (i + 1)
    BY <1>1, <2>1
  <2> QED
    BY <1>1, <1>2, <2>1, <2>2
<1> QED
  BY <1>1, <1>2, <1>3

LEMMA NothingInHand == <<>> \in Seq(Nat) /\ Len(<<>>) = 0 /\ DOMAIN <<>> = {}
OBVIOUS

LEMMA EmptyHand ==
  ASSUME hand' = <<>>, acking' = FALSE, proc' = "down" => thread' = "none",
         thread' = "joining" => ~Redis', readTo' \in Nat, readTo' <= Len(topic'),
         group' # Unset => Redis' /\ group' \in Nat /\ group' <= readTo',
         committed' # Unset => committed' \in Nat /\ committed' <= Len(topic')
  PROVE  InHand'
<1>1. hand' \in Seq(Nat) /\ Len(hand') = 0 /\ DOMAIN hand' = {}
  BY NothingInHand
<1>2. Len(hand') <= readTo' /\ (thread' = "joining" => ~Redis')
  BY <1>1
<1> QED
  BY <1>1, <1>2 DEF InHand

(* A step that handles nothing keeps the order.                            *)
LEMMA StillInOrder ==
  ASSUME HandledInOrder, UNCHANGED <<handled, conduct>>
  PROVE  HandledInOrder'
BY DEF HandledInOrder, Redis

LEMMA HandledTyped ==
  ASSUME HandledBefore, NEW k \in DOMAIN handled
  PROVE  handled[k].life \in Nat /\ handled[k].at \in Nat
<1>1. handled \in Seq([at : Nat, life : Nat])
  BY DEF HandledBefore
<1>2. k \in 1..Len(handled)
  BY <1>1
<1>3. handled[k] \in [at : Nat, life : Nat]
  BY <1>1, <1>2, ElementOfSeq
<1> QED
  BY <1>3

LEMMA StartStep ==
  ASSUME DeliveryInv, Start
  PROVE  InHand' /\ HandledBefore' /\ HandledInOrder' /\ LostStaysPending'
<1> USE DEF DeliveryInv
<1>1. /\ lives \in Nat /\ Len(topic) \in Nat /\ readTo \in Nat /\ readTo <= Len(topic)
      /\ thread = "none" /\ hand = <<>> /\ acking = FALSE
      /\ group # Unset => Redis /\ group \in Nat /\ group <= readTo
      /\ committed # Unset => committed \in Nat /\ committed <= Len(topic)
  BY DEF FeedTypes, InHand, HandledBefore, Start
<1>2. /\ UNCHANGED <<topic, committed, hand, acking, pel, handled, conduct>>
      /\ Redis' = Redis /\ proc' = "up" /\ lives' = lives + 1
      /\ Redis \/ (thread' = "joining" /\ UNCHANGED <<group, readTo>>)
      /\ Redis => /\ thread' = "running"
                  /\ \/ group = Unset /\ group' = Len(topic) /\ readTo' = Len(topic)
                     \/ group # Unset /\ UNCHANGED <<group, readTo>>
  BY DEF Start, Redis
<1>3. /\ readTo' \in Nat /\ readTo <= readTo' /\ readTo' <= Len(topic)
      /\ group' # Unset => Redis' /\ group' \in Nat /\ group' <= readTo'
      /\ hand' = <<>> /\ acking' = FALSE /\ Len(hand') = 0
  BY <1>1, <1>2, NothingInHand
<1>4. InHand'
  BY <1>1, <1>2, <1>3, EmptyHand
<1>5. HandledBefore'
  <2>1. \A k \in DOMAIN handled : handled[k].life \in Nat /\ handled[k].at \in Nat
    BY HandledTyped
  <2>2. ASSUME NEW k \in DOMAIN handled
        PROVE  /\ handled[k].life <= lives' /\ handled[k].life < lives'
               /\ Redis => handled[k].at <= readTo'
    <3>1. handled[k].life <= lives /\ (Redis => handled[k].at <= readTo - Len(hand) + Through)
      BY DEF HandledBefore
    <3>2. Through = 0 /\ Len(hand) = 0
      BY <1>1, NothingInHand DEF Through
    <3> QED
      BY <1>1, <1>2, <1>3, <2>1, <3>1, <3>2
  <2>3. lives' \in Nat /\ handled' \in Seq([at : Nat, life : Nat])
    BY <1>1, <1>2 DEF HandledBefore
  <2>4. ASSUME NEW k \in DOMAIN handled' PROVE
         /\ handled'[k].life <= lives'
         /\ thread' = "joining" => handled'[k].life < lives'
         /\ Redis' \/ handled'[k].life = lives' =>
            handled'[k].at <= readTo' - Len(hand') + Through'
    <3>1. k \in DOMAIN handled /\ handled'[k] = handled[k]
      BY <1>2
    <3>2. handled[k].life # lives' /\ handled[k].life < lives'
      BY <1>1, <1>2, <2>1, <2>2, <3>1
    <3>3. thread' = "joining" => ~Redis
      BY <1>2
    <3>4. handled[k].at <= readTo' => handled[k].at <= readTo' - Len(hand') + Through'
      <4>1. Through' = 0 /\ Len(hand') = 0 /\ readTo' \in Int /\ handled[k].at \in Int
        BY <1>3, <2>1, <3>1 DEF Through
      <4> QED
        BY <4>1
    <3> QED
      BY <1>2, <2>2, <3>1, <3>2, <3>3, <3>4
  <2> QED
    BY <2>3, <2>4 DEF HandledBefore
<1>6. HandledInOrder'
  BY <1>2, StillInOrder
<1>7. LostStaysPending'
  BY <1>1, <1>2, <1>3 DEF LostStaysPending
<1> QED
  BY <1>4, <1>5, <1>6, <1>7

LEMMA AssignStep ==
  ASSUME DeliveryInv, Assign
  PROVE  InHand' /\ HandledBefore' /\ HandledInOrder' /\ LostStaysPending'
<1> USE DEF DeliveryInv
<1>1. /\ Len(topic) \in Nat /\ hand = <<>> /\ acking = FALSE /\ proc # "down" /\ ~Redis
      /\ committed # Unset => committed \in Nat /\ committed <= Len(topic)
      /\ thread = "joining"
  BY DEF FeedTypes, InHand, Assign
<1>2. /\ UNCHANGED <<topic, committed, hand, acking, pel, handled, conduct, group, lives, proc>>
      /\ Redis' = Redis /\ thread' = "running"
      /\ readTo' = IF committed = Unset THEN Len(topic) ELSE committed
  BY DEF Assign, strategy, Redis
<1>3. readTo' \in Nat /\ readTo' <= Len(topic)
  BY <1>1, <1>2
<1>4. lives \in Nat /\ \A k \in DOMAIN handled :
        handled[k].life < lives /\ handled[k].life \in Nat
  BY <1>1, HandledTyped DEF HandledBefore
<1>5. HandledBefore'
  BY <1>1, <1>2, <1>4 DEF HandledBefore
<1>6. HandledInOrder'
  BY <1>2, StillInOrder
<1>7. group' = Unset
  BY <1>1, <1>2, <1>4 DEF InHand
<1>8. InHand'
  BY <1>1, <1>2, <1>3, <1>7, EmptyHand
<1>9. LostStaysPending'
  BY <1>7 DEF LostStaysPending
<1> QED
  BY <1>5, <1>6, <1>8, <1>9

LEMMA Distance ==
  ASSUME NEW a \in Nat, NEW b \in Nat, a < b
  PROVE  /\ b - a \in Nat /\ b - a <= b
         /\ \A i \in 1..(b - a) : a + i \in Nat /\ a + i = b - (b - a) + i
         /\ \A i \in Int : a < i /\ i <= b => i - a \in 1..(b - a) /\ a + (i - a) = i
OBVIOUS

LEMMA FetchStep ==
  ASSUME DeliveryInv, Fetch
  PROVE  InHand' /\ HandledBefore' /\ HandledInOrder' /\ LostStaysPending'
<1>1. /\ Len(topic) \in Nat /\ hand = <<>> /\ acking = FALSE /\ proc = "up"
      /\ readTo \in Nat /\ readTo <= Len(topic) /\ thread = "running"
      /\ committed # Unset => committed \in Nat /\ committed <= Len(topic)
      /\ group # Unset => Redis /\ group \in Nat /\ group <= readTo
  BY DEF DeliveryInv, FeedTypes, InHand, Fetch
<1>2. /\ UNCHANGED <<topic, committed, acking, handled, conduct, group, lives, proc, thread>>
      /\ Redis' = Redis /\ readTo < Len(topic)
      /\ readTo' = Smaller(readTo + (IF Redis THEN BatchSize ELSE 1), Len(topic))
      /\ hand' = [i \in 1..(readTo' - readTo) |-> readTo + i]
      /\ pel' = IF Redis THEN pel \cup Range(hand') ELSE pel
  BY DEF Fetch, strategy, Redis
<1>3. readTo' \in Nat /\ readTo < readTo' /\ readTo' <= Len(topic)
  <2>1. BatchSize \in Nat /\ BatchSize > 0
    BY FeedAssumption
  <2>2. CASE Redis
    BY <1>1, <1>2, <2>1, <2>2 DEF Smaller
  <2>3. CASE ~Redis
    BY <1>1, <1>2, <2>3 DEF Smaller
  <2> QED
    BY <2>2, <2>3
<1>4. /\ hand' \in Seq(Nat) /\ Len(hand') = readTo' - readTo /\ DOMAIN hand' = 1..(readTo' - readTo)
      /\ \A i \in DOMAIN hand' : hand'[i] = readTo + i
  <2>1. readTo' - readTo \in Nat
    BY <1>1, <1>3, Distance
  <2>2. \A i \in 1..(readTo' - readTo) : readTo + i \in Nat
    BY <1>1, <1>3, Distance
  <2> QED
    BY <1>2, <2>1, <2>2
<1>5. InHand'
  <2>1. \A i \in DOMAIN hand' : hand'[i] = readTo' - Len(hand') + i
    BY <1>1, <1>3, <1>4, Distance
  <2>2. Len(hand') <= readTo'
    BY <1>1, <1>3, <1>4, Distance
  <2>3. group' # Unset => Redis' /\ group' \in Nat /\ group' <= readTo'
    BY <1>1, <1>2, <1>3
  <2> QED
    BY <1>1, <1>2, <1>3, <1>4, <2>1, <2>2, <2>3 DEF InHand
<1>6. HandledBefore'
  <2>1. Through = 0 /\ Through' = 0 /\ Len(hand) = 0
    BY <1>1, <1>2, NothingInHand DEF Through
  <2>2. ASSUME NEW k \in DOMAIN handled, handled[k].at <= readTo - Len(hand) + Through
        PROVE  handled[k].at <= readTo' - Len(hand') + Through'
    <3>1. handled[k].at \in Nat
      BY HandledTyped DEF DeliveryInv
    <3> QED
      BY <1>1, <1>3, <1>4, <2>1, <2>2, <3>1
  <2> QED
    BY <1>1, <1>2, <2>2 DEF DeliveryInv, HandledBefore
<1>7. HandledInOrder'
  BY <1>2, StillInOrder DEF DeliveryInv
<1>8. LostStaysPending'
  <2>1. ASSUME Redis, group # Unset, NEW i \in (group + 1)..readTo'
        PROVE  i \in pel' \/ \E k \in DOMAIN handled : handled[k].at = i
    <3>1. i \in Int /\ group + 1 <= i /\ i <= readTo' /\ group \in Nat
      BY <1>1, <1>3, <2>1
    <3>2. CASE i <= readTo
      <4>1. i \in (group + 1)..readTo
        BY <1>1, <3>1, <3>2
      <4>2. i \in pel \/ \E k \in DOMAIN handled : handled[k].at = i
        BY <2>1, <4>1 DEF DeliveryInv, LostStaysPending
      <4> QED
        BY <1>2, <4>2
    <3>3. CASE ~(i <= readTo)
      <4>1. i - readTo \in DOMAIN hand' /\ readTo + (i - readTo) = i
        <5>1. readTo < i
          BY <1>1, <3>1, <3>3
        <5>2. i - readTo \in 1..(readTo' - readTo) /\ readTo + (i - readTo) = i
          BY <1>1, <1>3, <3>1, <5>1, Distance
        <5> QED
          BY <1>4, <5>2
      <4>2. hand'[i - readTo] = i
        BY <1>4, <4>1
      <4>3. i \in Range(hand')
        BY <4>1, <4>2 DEF Range
      <4> QED
        BY <1>2, <2>1, <4>3
    <3> QED
      BY <3>2, <3>3
  <2> QED
    BY <1>2, <2>1 DEF LostStaysPending
<1> QED
  BY <1>5, <1>6, <1>7, <1>8

LEMMA Throughs == (acking = FALSE => Through = 0) /\ (acking = TRUE => Through = 1)
BY DEF Through

(* Whatever was in hand is dropped.                                        *)
LEMMA DropStep ==
  ASSUME DeliveryInv, UNCHANGED <<topic, lives, group, readTo, pel, handled, conduct>>,
         hand' = <<>>, acking' = FALSE, proc' = "down" => thread' = "none",
         thread' # "joining", committed' \in {committed, readTo}
  PROVE  InHand' /\ HandledBefore' /\ HandledInOrder' /\ LostStaysPending'
<1>1. /\ readTo' \in Nat /\ readTo' <= Len(topic') /\ Redis' = Redis
      /\ group' # Unset => Redis' /\ group' \in Nat /\ group' <= readTo'
      /\ committed' # Unset => committed' \in Nat /\ committed' <= Len(topic')
  BY DEF DeliveryInv, InHand, Redis
<1>2. InHand'
  BY <1>1, EmptyHand
<1>3. HandledBefore'
  <2>1. Through' = 0 /\ Len(hand') = 0
    BY NothingInHand DEF Through
  <2>2. ASSUME NEW k \in DOMAIN handled, handled[k].at <= readTo - Len(hand) + Through
        PROVE  handled[k].at <= readTo' - Len(hand') + Through'
    <3>1. handled[k].at \in Nat
      BY HandledTyped DEF DeliveryInv
    <3>2. hand \in Seq(Nat) /\ acking \in BOOLEAN /\ (acking => hand # <<>>)
      BY DEF DeliveryInv, InHand
    <3>3. Len(hand) \in Nat /\ (hand # <<>> => Len(hand) >= 1)
      BY <3>2
    <3>4. Through \in {0, 1} /\ Through <= Len(hand)
      BY <3>2, <3>3, Throughs
    <3> QED
      BY <1>1, <2>1, <2>2, <3>1, <3>3, <3>4
  <2> QED
    BY <1>1, <2>2 DEF DeliveryInv, HandledBefore
<1>4. HandledInOrder'
  BY StillInOrder DEF DeliveryInv
<1>5. LostStaysPending'
  BY <1>1 DEF DeliveryInv, LostStaysPending
<1> QED
  BY <1>2, <1>3, <1>4, <1>5

LEMMA CommitStep ==
  ASSUME DeliveryInv, AutoCommit
  PROVE  InHand' /\ HandledBefore' /\ HandledInOrder' /\ LostStaysPending'
<1>1. /\ UNCHANGED <<topic, lives, group, readTo, pel, handled, conduct, hand, acking, proc, thread>>
      /\ Redis' = Redis /\ Through' = Through /\ committed' = readTo
  BY DEF AutoCommit, strategy, Redis, Through
<1>2. InHand'
  BY <1>1 DEF DeliveryInv, InHand
<1>3. HandledBefore' /\ LostStaysPending'
  BY <1>1 DEF DeliveryInv, HandledBefore, LostStaysPending
<1> QED
  BY <1>1, <1>2, <1>3, StillInOrder DEF DeliveryInv

LEMMA StopStep ==
  ASSUME DeliveryInv, Stop
  PROVE  InHand' /\ HandledBefore' /\ HandledInOrder' /\ LostStaysPending'
<1>1. /\ UNCHANGED <<topic, lives, group, readTo, pel, handled, conduct, hand, acking, thread,
                     committed>>
      /\ Redis' = Redis /\ Through' = Through /\ proc' = "stopping"
  BY DEF Stop, strategy, Redis, Through
<1>2. InHand'
  BY <1>1 DEF DeliveryInv, InHand
<1>3. HandledBefore' /\ LostStaysPending'
  BY <1>1 DEF DeliveryInv, HandledBefore, LostStaysPending
<1> QED
  BY <1>1, <1>2, <1>3, StillInOrder DEF DeliveryInv

LEMMA HandleStep ==
  ASSUME DeliveryInv, Handle
  PROVE  InHand' /\ HandledBefore' /\ HandledInOrder' /\ LostStaysPending'
<1>1. /\ Len(topic) \in Nat /\ hand # <<>> /\ acking = FALSE /\ thread = "running"
      /\ readTo \in Nat /\ readTo <= Len(topic) /\ lives \in Nat
      /\ hand \in Seq(Nat) /\ Len(hand) \in Nat /\ proc # "down"
      /\ InHand /\ HandledBefore /\ HandledInOrder /\ LostStaysPending
  <2>1. FeedTypes /\ InHand /\ HandledBefore /\ HandledInOrder /\ LostStaysPending
    BY DEF DeliveryInv
  <2>2. hand # <<>> /\ acking = FALSE /\ thread = "running"
    BY <2>1 DEF Handle, FeedTypes
  <2>3. /\ readTo \in Nat /\ readTo <= Len(topic) /\ lives \in Nat
        /\ hand \in Seq(Nat) /\ proc # "down"
    BY <2>1, <2>2 DEF InHand, HandledBefore
  <2>4. Len(topic) \in Nat /\ Len(hand) \in Nat
    BY <2>1, <2>3 DEF FeedTypes
  <2> QED
    BY <2>1, <2>2, <2>3, <2>4
<1>2. /\ UNCHANGED <<topic, lives, group, readTo, pel, conduct, proc, committed>> /\ Redis' = Redis
  BY DEF Handle, Redis
<1>3. /\ Head(hand) = readTo - Len(hand) + 1 /\ Head(hand) \in Nat
      /\ Tail(hand) \in Seq(Nat) /\ Len(Tail(hand)) = Len(hand) - 1
      /\ \A i \in DOMAIN Tail(hand) : Tail(hand)[i] = readTo - (Len(hand) - 1) + i
  BY <1>1, HeadOfHand
<1>4. ASSUME thread' = thread, acking' = acking, hand' = Tail(hand),
             \A k \in DOMAIN handled : k \in DOMAIN handled' /\ handled'[k] = handled[k]
      PROVE  InHand' /\ LostStaysPending'
  <2>1. Len(hand') <= readTo' /\ Len(hand') = Len(hand) - 1
    BY <1>1, <1>2, <1>3, <1>4 DEF InHand
  <2>2. \A i \in DOMAIN hand' : hand'[i] = readTo' - Len(hand') + i
    BY <1>2, <1>3, <1>4, <2>1
  <2>3. InHand'
    BY <1>1, <1>2, <1>3, <1>4, <2>1, <2>2 DEF InHand
  <2> QED
    BY <1>1, <1>2, <1>4, <2>3 DEF LostStaysPending
<1>5. CASE UNCHANGED <<thread, acking, strategy>> /\ hand' = Tail(hand)
  <2>1. handled' = handled /\ thread' = thread /\ Through' = Through
    BY <1>5 DEF strategy, Through
  <2>2. ASSUME NEW k \in DOMAIN handled, handled[k].at <= readTo - Len(hand) + Through
        PROVE  handled[k].at <= readTo' - Len(hand') + Through'
    <3>1. handled[k].at \in Nat /\ Through = 0
      BY <1>1, HandledTyped, Throughs
    <3> QED
      BY <1>1, <1>2, <1>3, <1>5, <2>1, <2>2, <3>1
  <2>3. HandledBefore'
    BY <1>1, <1>2, <2>1, <2>2 DEF HandledBefore
  <2> QED
    BY <1>1, <1>2, <1>4, <1>5, <2>1, <2>3, StillInOrder
<1>6. CASE thread' = "dead" /\ hand' = <<>> /\ UNCHANGED <<acking, strategy>>
  BY <1>1, <1>2, <1>6, DropStep DEF strategy
<1>7. CASE /\ handled' = Append(handled, [at |-> Head(hand), life |-> lives])
           /\ thread' = thread
           /\ IF Redis THEN acking' = TRUE /\ UNCHANGED hand
                       ELSE hand' = Tail(hand) /\ UNCHANGED acking
  <2> DEFINE new == [at |-> Head(hand), life |-> lives]
             n == Len(handled) + 1
  <2>1. handled \in Seq([at : Nat, life : Nat]) /\ new \in [at : Nat, life : Nat]
    BY <1>1, <1>3 DEF HandledBefore
  <2>2. /\ handled' \in Seq([at : Nat, life : Nat]) /\ Len(handled) \in Nat
        /\ DOMAIN handled' = 1..n /\ DOMAIN handled = 1..Len(handled)
        /\ handled'[n] = new /\ \A k \in 1..Len(handled) : handled'[k] = handled[k]
    BY <1>7, <2>1
  <2>3. /\ \A k \in DOMAIN handled : k \in DOMAIN handled' /\ handled'[k] = handled[k]
        /\ n \in DOMAIN handled' /\ \A k \in DOMAIN handled' : k = n \/ k \in DOMAIN handled
        /\ \A k \in DOMAIN handled : k < n
    BY <2>2
  <2> HIDE DEF n, new
  <2>4. InHand' /\ LostStaysPending'
    <3>1. CASE Redis
      <4>1. acking' = TRUE /\ hand' = hand
        BY <1>7, <3>1
      <4>2. handled'[n].at = Head(hand')
        BY <2>2, <4>1 DEF new
      <4>3. InHand'
        BY <1>1, <1>2, <1>7, <2>3, <3>1, <4>1, <4>2 DEF InHand
      <4> QED
        BY <1>1, <1>2, <2>3, <4>3 DEF LostStaysPending
    <3>2. CASE ~Redis
      BY <1>4, <1>7, <2>3, <3>2
    <3> QED
      BY <3>1, <3>2
  <2>5. Head(hand) <= readTo' - Len(hand') + Through'
    <3>1. CASE Redis
      <4>1. Through' = 1 /\ hand' = hand
        BY <1>7, <3>1 DEF Through
      <4> QED
        BY <1>1, <1>2, <1>3, <4>1
    <3>2. CASE ~Redis
      <4>1. Through' = 0 /\ hand' = Tail(hand)
        BY <1>1, <1>7, <3>2 DEF Through
      <4> QED
        BY <1>1, <1>2, <1>3, <4>1
    <3> QED
      BY <3>1, <3>2
  <2>6. ASSUME NEW k \in DOMAIN handled, Redis \/ handled[k].life = lives
        PROVE  handled[k].at < Head(hand)
    <3>1. handled[k].at \in Nat /\ handled[k].at <= readTo - Len(hand) + Through /\ Through = 0
      BY <1>1, <2>6, HandledTyped, Throughs DEF HandledBefore
    <3> QED
      BY <1>1, <1>3, <3>1
  <2>7. readTo' - Len(hand') + Through' \in Int
    <3>1. Len(hand') \in Int
      BY <2>4 DEF InHand
    <3>2. Through' \in Int
      BY DEF Through
    <3> QED
      BY <1>1, <1>2, <3>1, <3>2
  <2>8. HandledBefore'
    <3>1. ASSUME NEW k \in DOMAIN handled'
          PROVE  /\ handled'[k].life <= lives' /\ thread' # "joining"
                 /\ Redis' \/ handled'[k].life = lives'
                      => handled'[k].at <= readTo' - Len(hand') + Through'
      <4>1. CASE k = n
        BY <1>1, <1>2, <1>7, <2>2, <2>5, <4>1 DEF new
      <4>2. CASE k \in DOMAIN handled
        <5>1. handled'[k] = handled[k] /\ handled[k].at \in Nat /\ handled[k].life <= lives
          BY <1>1, <2>3, <4>2, HandledTyped DEF HandledBefore
        <5>2. Redis \/ handled[k].life = lives => handled[k].at < Head(hand)
          BY <2>6, <4>2
        <5> QED
          BY <1>1, <1>2, <1>3, <1>7, <2>5, <2>7, <5>1, <5>2
      <4> QED
        BY <2>3, <4>1, <4>2
    <3> QED
      BY <1>1, <1>2, <2>2, <3>1 DEF HandledBefore
  <2>9. HandledInOrder'
    <3>1. ASSUME NEW i \in DOMAIN handled', NEW j \in DOMAIN handled', i < j,
                 Redis \/ handled'[i].life = handled'[j].life
          PROVE  handled'[i].at < handled'[j].at
      <4>1. i \in DOMAIN handled /\ handled'[i] = handled[i]
        BY <2>2, <2>3, <3>1 DEF n
      <4>2. CASE j = n
        <5>1. handled'[j] = [at |-> Head(hand), life |-> lives]
          BY <2>2, <4>2 DEF new
        <5> QED
          BY <2>6, <3>1, <4>1, <5>1
      <4>3. CASE j \in DOMAIN handled
        <5>1. handled'[j] = handled[j]
          BY <2>3, <4>3
        <5> QED
          BY <1>1, <3>1, <4>1, <4>3, <5>1 DEF HandledInOrder
      <4> QED
        BY <2>3, <4>2, <4>3
    <3> QED
      BY <1>2, <3>1 DEF HandledInOrder
  <2> QED
    BY <2>4, <2>8, <2>9
<1> QED
  BY <1>5, <1>6, <1>7 DEF Handle

LEMMA AckStep ==
  ASSUME DeliveryInv, Ack
  PROVE  InHand' /\ HandledBefore' /\ HandledInOrder' /\ LostStaysPending'
<1>1. /\ acking = TRUE /\ hand # <<>> /\ Redis /\ thread = "running"
      /\ readTo \in Nat /\ hand \in Seq(Nat) /\ Len(hand) \in Nat /\ proc # "down"
      /\ InHand /\ HandledBefore /\ HandledInOrder /\ LostStaysPending
  BY DEF DeliveryInv, InHand, Ack
<1>2. /\ UNCHANGED <<topic, lives, group, readTo, handled, conduct, proc, committed, thread>>
      /\ Redis' = Redis /\ acking' = FALSE /\ hand' = Tail(hand) /\ pel' = pel \ {Head(hand)}
  BY DEF Ack, strategy, Redis
<1>3. /\ Tail(hand) \in Seq(Nat) /\ Len(Tail(hand)) = Len(hand) - 1
      /\ \A i \in DOMAIN Tail(hand) : Tail(hand)[i] = readTo - (Len(hand) - 1) + i
  BY <1>1, HeadOfHand
<1>4. InHand'
  <2>1. Len(hand') <= readTo' /\ Len(hand') = Len(hand) - 1
    BY <1>1, <1>2, <1>3 DEF InHand
  <2>2. \A i \in DOMAIN hand' : hand'[i] = readTo' - Len(hand') + i
    BY <1>2, <1>3, <2>1
  <2> QED
    BY <1>1, <1>2, <1>3, <2>1, <2>2 DEF InHand
<1>5. HandledBefore'
  <2>1. ASSUME NEW k \in DOMAIN handled, handled[k].at <= readTo - Len(hand) + Through
        PROVE  handled[k].at <= readTo' - Len(hand') + Through'
    <3>1. handled[k].at \in Nat /\ Through = 1
      BY <1>1, HandledTyped, Throughs
    <3>2. Through' = 0
      BY <1>2 DEF Through
    <3> QED
      BY <1>1, <1>2, <1>3, <2>1, <3>1, <3>2
  <2> QED
    BY <1>1, <1>2, <2>1 DEF HandledBefore
<1>6. LostStaysPending'
  <2>1. \E k \in DOMAIN handled : handled[k].at = Head(hand)
    BY <1>1 DEF InHand
  <2> QED
    BY <1>1, <1>2, <2>1 DEF LostStaysPending
<1> QED
  BY <1>1, <1>2, <1>4, <1>5, <1>6, StillInOrder

LEMMA DeliveryStep == DeliveryInv /\ [FeedNext]_feedVars => DeliveryInv'
<1> SUFFICES ASSUME DeliveryInv, [FeedNext]_feedVars PROVE DeliveryInv'
  OBVIOUS
<1>1. FeedTypes /\ FeedTypes'
  BY TypesStep DEF DeliveryInv
<1>2. CASE \/ FeedStep \/ Deliver \/ \E kind \in {"garbled", "unfit"} : PublishAlien(kind)
           \/ UNCHANGED feedVars
  BY <1>1, <1>2, FeedGrows, TopicGrows
<1>3. CASE Start
  BY <1>1, <1>3, StartStep DEF DeliveryInv
<1>4. CASE ConsumerStep
  BY <1>1, <1>4, AssignStep, FetchStep, HandleStep, AckStep DEF ConsumerStep, DeliveryInv
<1>5. CASE RedisRaises
  <2>1. /\ UNCHANGED <<topic, lives, group, readTo, pel, handled, conduct>>
        /\ hand' = <<>> /\ acking' = FALSE /\ thread' = "dead" /\ committed' = committed
        /\ proc' # "down"
    BY <1>5 DEF RedisRaises, strategy, DeliveryInv, InHand
  <2> QED
    BY <1>1, <2>1, DropStep DEF DeliveryInv
<1>6. CASE AutoCommit
  BY <1>1, <1>6, CommitStep DEF DeliveryInv
<1>7. CASE Stop
  BY <1>1, <1>7, StopStep DEF DeliveryInv
<1>8. CASE Exit \/ Crash
  <2>1. /\ UNCHANGED <<topic, lives, group, readTo, pel, handled, conduct>>
        /\ hand' = <<>> /\ acking' = FALSE /\ thread' = "none" /\ committed' \in {committed, readTo}
    BY <1>8 DEF Exit, Crash, Down, strategy
  <2> QED
    BY <1>1, <2>1, DropStep DEF DeliveryInv
<1> QED
  BY <1>2, <1>3, <1>4, <1>5, <1>6, <1>7, <1>8 DEF FeedNext

LEMMA DeliveryInvariant == FeedSpec => []DeliveryInv
BY InitDelivery, DeliveryStep, PTL DEF FeedSpec

(* HandledInOrder: bars are handled in the order of the topic and none     *)
(* twice, but for a Kafka consumer that goes back in a later life.         *)
THEOREM BarsHandledInOrder == FeedSpec => []HandledInOrder
<1>1. DeliveryInv => HandledInOrder
  BY DEF DeliveryInv
<1> QED
  BY <1>1, DeliveryInvariant, PTL

(* LostStaysPending: on Redis what a life read and did not handle is       *)
(* pending for good.                                                       *)
THEOREM UnhandledStaysPending == FeedSpec => []LostStaysPending
<1>1. DeliveryInv => LostStaysPending
  BY DEF DeliveryInv
<1> QED
  BY <1>1, DeliveryInvariant, PTL

-----------------------------------------------------------------------------
(* The bars.  Where a bar starts: a multiple of the interval, if the hour  *)
(* is one.                                                                 *)
LEMMA MaxIs ==
  ASSUME NEW S \in SUBSET Int, NEW m \in S, \A x \in S : x <= m
  PROVE  Max(S) = m
<1> PICK x : x = Max(S)
  OBVIOUS
<1>1. x \in S /\ \A y \in S : x >= y
  BY DEF Max
<1>2. x \in Int /\ m \in Int /\ x <= m /\ m <= x
  BY <1>1
<1>3. x = m
  BY <1>2
<1> QED
  BY <1>3

LEMMA MinIs ==
  ASSUME NEW S \in SUBSET Int, NEW m \in S, \A x \in S : m <= x
  PROVE  Min(S) = m
<1> PICK x : x = Min(S)
  OBVIOUS
<1>1. x \in S /\ \A y \in S : x <= y
  BY DEF Min
<1>2. x \in Int /\ m \in Int /\ x <= m /\ m <= x
  BY <1>1
<1>3. x = m
  BY <1>2
<1> QED
  BY <1>3

LEMMA BlockStart ==
  ASSUME NEW t \in Heard, conduct \in Conducts, Hour % conduct.interval = 0
  PROVE  BarStart(t, conduct.interval) \in Blocks
<1> DEFINE I == conduct.interval
           h == t.minute % Hour
           a == t.minute \div Hour
           p == Hour \div I
           q == h \div I
<1>1. I \in Int /\ I > 0 /\ Hour \in Int /\ Hour > 0 /\ t.minute \in Int
  BY IntervalTyped, BuilderAssumption, HeardTyped
<1>2. a \in Int /\ h \in Int /\ t.minute = Hour * a + h
  BY <1>1
<1>3. p \in Int /\ Hour = I * p
  BY <1>1
<1>4. q \in Int
  BY <1>1, <1>2
<1>5. BarStart(t, I) = t.minute - h + q * I
  BY DEF BarStart
<1> HIDE DEF I, h, a, p, q
<1>6. t.minute - h = Hour * a
  <2>1. Hour * a \in Int
    BY <1>1, <1>2
  <2> QED
    BY <1>1, <1>2, <2>1
<1>7. Hour * a = (p * a) * I
  BY <1>1, <1>2, <1>3
<1>8. (p * a) * I + q * I = (p * a + q) * I /\ p * a + q \in Int
  BY <1>1, <1>2, <1>3, <1>4
<1> QED
  BY <1>5, <1>6, <1>7, <1>8 DEF Blocks, I

LEMMA BlocksApart ==
  ASSUME NEW a \in Blocks, NEW b \in Blocks, a < b, conduct \in Conducts
  PROVE  a + conduct.interval <= b
<1> DEFINE I == conduct.interval
<1>1. I \in Int /\ I > 0
  BY IntervalTyped
<1>2. PICK p \in Int : a = p * I
  BY DEF Blocks
<1>3. PICK q \in Int : b = q * I
  BY DEF Blocks
<1> HIDE DEF I
<1>4. p < q
  BY <1>1, <1>2, <1>3
<1>5. p + 1 <= q
  BY <1>4
<1>6. (p + 1) * I <= q * I
  BY <1>1, <1>5
<1>7. (p + 1) * I = p * I + I
  BY <1>1
<1> QED
  BY <1>2, <1>3, <1>6, <1>7 DEF I

-----------------------------------------------------------------------------
(* What a tick does to the ticks heard and to a bar that holds some.       *)
Hears(t) == heard \in Seq(Heard) /\ t \in Heard /\ heard' = Append(heard, t)

LEMMA HeardGrows ==
  ASSUME NEW t, Hears(t), NEW n, n = Len(heard) + 1
  PROVE  /\ Len(heard) \in Nat /\ n \in Nat /\ n >= 1
         /\ DOMAIN heard = 1..Len(heard) /\ DOMAIN heard' = 1..n /\ Len(heard') = n
         /\ DOMAIN heard' = DOMAIN heard \cup {n} /\ n \notin DOMAIN heard
         /\ heard'[n] = t /\ \A i \in DOMAIN heard : heard'[i] = heard[i] /\ i < n /\ i \in Nat
<1>1. heard \in Seq(Heard) /\ t \in Heard /\ heard' = Append(heard, t)
  BY DEF Hears
<1>2. /\ Len(heard) \in Nat /\ DOMAIN heard = 1..Len(heard) /\ DOMAIN heard' = 1..n
      /\ Len(heard') = n /\ heard'[n] = t /\ \A i \in 1..Len(heard) : heard'[i] = heard[i]
  BY <1>1
<1>3. 1..n = 1..Len(heard) \cup {n} /\ n \notin 1..Len(heard) /\ n \in Nat /\ n >= 1
  BY <1>2
<1> QED
  BY <1>2, <1>3

LEMMA HeardAt ==
  ASSUME heard \in Seq(Heard), NEW i \in DOMAIN heard
  PROVE  /\ heard[i] \in Heard /\ i \in Nat
         /\ heard[i].price \in Int /\ heard[i].volume \in Int /\ heard[i].minute \in Int
<1>1. i \in 1..Len(heard)
  OBVIOUS
<1>2. heard[i] \in Heard
  BY <1>1, ElementOfSeq
<1> QED
  BY <1>1, <1>2, HeardTyped

LEMMA FewHeard ==
  ASSUME heard \in Seq(Heard)
  PROVE  \A of \in SUBSET DOMAIN heard : IsFiniteSet(of)
<1>1. IsFiniteSet(1..Len(heard)) /\ DOMAIN heard = 1..Len(heard)
  BY FS_Interval
<1> QED
  BY <1>1, FS_Subset

LEMMA SumGrows ==
  ASSUME NEW t, Hears(t), NEW n, n = Len(heard) + 1, NEW of \in SUBSET DOMAIN heard
  PROVE  /\ Sum(Volumes', of) = Sum(Volumes, of) /\ Sum(Volumes, of) \in Int
         /\ Sum(Volumes', of \cup {n}) = Sum(Volumes, of) + t.volume
         /\ Sum(Volumes', {n}) = t.volume
<1> PICK f : f = Volumes
  OBVIOUS
<1> PICK g : g = Volumes'
  OBVIOUS
<1>1. /\ heard \in Seq(Heard) /\ t \in Heard /\ t.volume \in Int
      /\ \A i \in DOMAIN heard : heard[i].volume \in Int
  BY HeardAt, HeardTyped DEF Hears
<1>2. /\ g[n] = t.volume /\ \A i \in DOMAIN heard : f[i] \in Int /\ g[i] = f[i]
  BY <1>1, HeardGrows DEF Volumes
<1>3. IsFiniteSet(of) /\ IsFiniteSet(of \cup {n}) /\ n \notin of /\ IsFiniteSet({n}) /\ IsFiniteSet({})
  <2>1. IsFiniteSet(of) /\ n \notin of
    BY <1>1, HeardGrows, FewHeard
  <2> QED
    BY <2>1, FS_AddElement, FS_Singleton, FS_EmptySet
<1>4. Sum(f, of) \in Int
  BY <1>2, <1>3, SumType
<1>5. Sum(g, of) = Sum(f, of)
  BY <1>2, <1>3, SumAgrees
<1>6. \A i \in of \cup {n} : g[i] \in Int
  BY <1>1, <1>2
<1>7. Sum(g, of \cup {n}) = g[n] + Sum(g, (of \cup {n}) \ {n})
  BY <1>3, <1>6, SumWithout
<1>8. (of \cup {n}) \ {n} = of
  BY <1>3
<1>9. Sum(g, {n}) = g[n] + Sum(g, {n} \ {n}) /\ {n} \ {n} = {}
  BY <1>3, <1>6, SumWithout
<1>10. Sum(g, {}) = 0
  BY <1>3, SumFirst
<1>11. Sum(g, of \cup {n}) = t.volume + Sum(f, of)
  <2>1. Sum(g, (of \cup {n}) \ {n}) = Sum(f, of)
    BY <1>5, <1>8
  <2> QED
    BY <1>2, <1>7, <2>1
<1>12. Sum(g, {n}) = t.volume + 0
  <2>1. Sum(g, {n} \ {n}) = 0
    BY <1>9, <1>10
  <2> QED
    BY <1>2, <1>9, <2>1
<1>13. t.volume + 0 = t.volume /\ t.volume + Sum(f, of) = Sum(f, of) + t.volume
  <2>1. \A x, y \in Int : x + 0 = x /\ x + y = y + x
    OBVIOUS
  <2> QED
    BY <1>1, <1>4, <2>1
<1> QED
  BY <1>4, <1>5, <1>11, <1>12, <1>13

LEMMA HoldsStill ==
  ASSUME NEW t, Hears(t), NEW of \in SUBSET DOMAIN heard, NEW b, Holds(b, of)
  PROVE  Holds(b, of)'
<1>1. \A i \in of : heard'[i] = heard[i]
  BY HeardGrows
<1>2. Sum(Volumes', of) = Sum(Volumes, of)
  BY SumGrows
<1> QED
  BY <1>1, <1>2 DEF Holds

LEMMA HoldsOne ==
  ASSUME NEW t, Hears(t), NEW n, n = Len(heard) + 1, NEW I
  PROVE  Holds(OpenBar(t, I), {n})'
<1>1. heard'[n] = t /\ t.price \in Int /\ n \in Int
  BY HeardGrows, HeardTyped DEF Hears
<1>2. Sum(Volumes', {n}) = t.volume
  BY SumGrows
<1> PICK b : b = OpenBar(t, I)
  OBVIOUS
<1>3. /\ b.open = t.price /\ b.close = t.price /\ b.high = t.price /\ b.low = t.price
      /\ b.volume = t.volume
  BY DEF OpenBar
<1>4. Holds(b, {n})'
  BY <1>1, <1>2, <1>3 DEF Holds
<1> QED
  BY <1>4

LEMMA HoldsMore ==
  ASSUME NEW t, Hears(t), NEW n, n = Len(heard) + 1, NEW of \in SUBSET DOMAIN heard,
         NEW b \in Bar, Holds(b, of)
  PROVE  Holds(Merge(b, t), of \cup {n})'
<1> PICK c : c = Merge(b, t)
  OBVIOUS
<1>1. /\ t \in Heard /\ t.price \in Int /\ n \in Int /\ heard'[n] = t
      /\ \A i \in of : heard'[i] = heard[i] /\ i < n /\ i \in Nat /\ heard[i].price \in Int
  BY HeardGrows, HeardTyped, HeardAt DEF Hears
<1>2. /\ c.open = b.open /\ c.high = Larger(b.high, t.price) /\ c.low = Smaller(b.low, t.price)
      /\ c.close = t.price /\ c.volume = b.volume + t.volume
      /\ b.high \in Int /\ b.low \in Int
  BY <1>1, MergeTyped DEF Bar
<1>3. c.volume = Sum(Volumes', of \cup {n})
  <2>1. Sum(Volumes', of \cup {n}) = Sum(Volumes, of) + t.volume
    BY SumGrows
  <2>2. b.volume = Sum(Volumes, of)
    BY DEF Holds
  <2> QED
    BY <1>2, <2>1, <2>2
<1>4. \E i \in of \cup {n} : c.open = heard'[i].price /\ \A j \in of \cup {n} : i <= j
  <2>1. PICK i \in of : b.open = heard[i].price /\ \A j \in of : i <= j
    BY DEF Holds
  <2>2. i <= n
    BY <1>1
  <2> QED
    BY <1>1, <1>2, <2>1, <2>2
<1>5. \E i \in of \cup {n} : c.close = heard'[i].price /\ \A j \in of \cup {n} : j <= i
  <2>1. \A j \in of \cup {n} : j <= n
    BY <1>1
  <2> QED
    BY <1>1, <1>2, <2>1
<1>6. \E i \in of \cup {n} : c.high = heard'[i].price
  BY <1>1, <1>2 DEF Holds, Larger
<1>7. \E i \in of \cup {n} : c.low = heard'[i].price
  BY <1>1, <1>2 DEF Holds, Smaller
<1>8. \A i \in of \cup {n} : heard'[i].price <= c.high /\ c.low <= heard'[i].price
  <2>1. ASSUME NEW i \in of PROVE heard'[i].price <= c.high /\ c.low <= heard'[i].price
    <3>1. heard[i].price <= b.high /\ b.low <= heard[i].price
      BY DEF Holds
    <3> QED
      BY <1>1, <1>2, <3>1 DEF Larger, Smaller
  <2>2. heard'[n].price <= c.high /\ c.low <= heard'[n].price
    BY <1>1, <1>2 DEF Larger, Smaller
  <2> QED
    BY <2>1, <2>2
<1>9. Holds(c, of \cup {n})'
  BY <1>3, <1>4, <1>5, <1>6, <1>7, <1>8 DEF Holds
<1> QED
  BY <1>9

-----------------------------------------------------------------------------
LEMMA Reaches ==
  ASSUME NEW r, IsReached(r), heard \in Seq(Heard), conduct \in Conducts, NEW i \in DOMAIN heard
  PROVE  /\ r[i] \in Int /\ i \in 1..Len(heard)
         /\ \A j \in 1..i : j \in DOMAIN heard /\ StartOf(j) \in Int /\ StartOf(j) <= r[i]
         /\ heard # <<>> /\ Len(heard) \in DOMAIN heard
         /\ r[Len(heard)] \in Int /\ r[i] <= r[Len(heard)]
<1>1. r[i] \in Int /\ i \in 1..Len(heard) /\ Len(heard) \in Nat /\ DOMAIN heard = 1..Len(heard)
  BY DEF IsReached
<1>2. \A j \in 1..i : j \in DOMAIN heard /\ StartOf(j) <= r[i]
  BY <1>1 DEF IsReached
<1>3. \A j \in DOMAIN heard : StartOf(j) \in Int
  BY HeardAt, StartTyped, IntervalTyped DEF StartOf
<1>4. heard # <<>> /\ Len(heard) \in DOMAIN heard
  BY <1>1
<1>5. r[Len(heard)] \in Int /\ \A j \in 1..Len(heard) : StartOf(j) <= r[Len(heard)]
  BY <1>4 DEF IsReached
<1>6. PICK j \in 1..i : r[i] = StartOf(j)
  BY DEF IsReached
<1>7. j \in 1..Len(heard)
  BY <1>1, <1>6
<1> QED
  BY <1>1, <1>2, <1>3, <1>4, <1>5, <1>6, <1>7

Reaching(r, m, n) == [i \in DOMAIN heard' |-> IF i = n THEN m ELSE r[i]]

(* The bar reached once one more tick is heard.                            *)
LEMMA ReachMore ==
  ASSUME NEW t, Hears(t), conduct \in Conducts, UNCHANGED conduct, NEW n, n = Len(heard) + 1,
         NEW r, IsReached(r), NEW m \in Int, BarStart(t, conduct.interval) <= m,
         \/ m = BarStart(t, conduct.interval)
         \/ heard # <<>> /\ m = r[Len(heard)],
         \A i \in DOMAIN heard : r[i] <= m,
         NEW q, q = Reaching(r, m, n)
  PROVE  IsReached(q)' /\ q[n] = m /\ \A i \in DOMAIN heard : q[i] = r[i]
<1>1. heard \in Seq(Heard) /\ t \in Heard
  BY DEF Hears
<1>2. /\ Len(heard) \in Nat /\ n \in Nat /\ n >= 1
      /\ DOMAIN heard = 1..Len(heard) /\ DOMAIN heard' = 1..n
      /\ DOMAIN heard' = DOMAIN heard \cup {n} /\ n \notin DOMAIN heard
      /\ heard'[n] = t /\ \A i \in DOMAIN heard : heard'[i] = heard[i] /\ i < n /\ i \in Nat
  BY HeardGrows
<1>3. q[n] = m /\ \A i \in DOMAIN heard : q[i] = r[i]
  BY <1>2 DEF Reaching
<1>4. \A i \in DOMAIN heard : r[i] \in Int /\ StartOf(i)' = StartOf(i) /\ 1..i \in SUBSET DOMAIN heard
  BY <1>2 DEF StartOf, IsReached
<1>5. StartOf(n)' = BarStart(t, conduct.interval) /\ BarStart(t, conduct.interval) \in Int
  BY <1>1, <1>2, StartTyped, IntervalTyped DEF StartOf
<1>6. q \in [DOMAIN heard' -> Int]
  BY <1>2, <1>3, <1>4 DEF Reaching
<1>7. ASSUME NEW i \in DOMAIN heard
      PROVE  /\ \E j \in 1..i : q[i] = StartOf(j)'
             /\ \A j \in 1..i : StartOf(j)' <= q[i]
  <2>1. /\ \E j \in 1..i : r[i] = StartOf(j)
        /\ \A j \in 1..i : StartOf(j) <= r[i]
    BY DEF IsReached
  <2> QED
    BY <1>3, <1>4, <2>1
<1>8. \E j \in 1..n : q[n] = StartOf(j)'
  <2>1. CASE m = BarStart(t, conduct.interval)
    BY <1>2, <1>3, <1>5, <2>1
  <2>2. CASE heard # <<>> /\ m = r[Len(heard)]
    <3>1. Len(heard) \in DOMAIN heard
      BY <1>1, <1>2, <2>2
    <3>2. PICK j \in 1..Len(heard) : r[Len(heard)] = StartOf(j)
      BY <3>1 DEF IsReached
    <3>3. j \in DOMAIN heard /\ j \in 1..n
      BY <1>2, <3>2
    <3> QED
      BY <1>3, <1>4, <2>2, <3>2, <3>3
  <2> QED
    BY <2>1, <2>2
<1>9. \A j \in 1..n : StartOf(j)' <= q[n]
  <2>1. ASSUME NEW j \in DOMAIN heard PROVE StartOf(j)' <= q[n]
    <3>1. StartOf(j) <= r[j] /\ StartOf(j) \in Int /\ r[j] \in Int /\ r[j] <= m
      <4>1. j \in 1..j
        BY <1>2
      <4> QED
        BY <1>1, <4>1, Reaches
    <3>2. StartOf(j) <= m
      BY <3>1
    <3> QED
      BY <1>3, <1>4, <3>2
  <2> QED
    BY <1>2, <1>3, <1>5, <2>1
<1>10. IsReached(q)'
  BY <1>2, <1>6, <1>7, <1>8, <1>9 DEF IsReached
<1> QED
  BY <1>3, <1>10

LEMMA BarsTyped ==
  ASSUME FeedTypes
  PROVE  /\ Bars \in Seq(Bar) /\ Len(Bars) \in Nat /\ DOMAIN Bars = 1..Len(Bars)
         /\ \A k \in DOMAIN Bars : Bars[k] \in Bar /\ k \in Nat
<1>1. Bars \in Seq(Bar)
  BY AppendProperties DEF FeedTypes, Bars
<1>2. Len(Bars) \in Nat /\ DOMAIN Bars = 1..Len(Bars)
  BY <1>1
<1> QED
  BY <1>1, <1>2, ElementOfSeq

LEMMA AppendIs ==
  ASSUME NEW S, NEW s \in Seq(S), NEW x
  PROVE  /\ Len(s) \in Nat /\ DOMAIN s = 1..Len(s)
         /\ DOMAIN Append(s, x) = 1..(Len(s) + 1) /\ Append(s, x)[Len(s) + 1] = x
         /\ \A k \in DOMAIN s : Append(s, x)[k] = s[k]
         /\ \A k \in DOMAIN Append(s, x) : k = Len(s) + 1 \/ k \in DOMAIN s
         /\ \A k \in DOMAIN s : k < Len(s) + 1 /\ k \in DOMAIN Append(s, x)
OBVIOUS

(* Nothing heard, no bar.                                                  *)
LEMMA NoBars ==
  ASSUME heard = <<>>, openBar = NoBar, emitted = <<>>
  PROVE  \E r : BarsOf(r)
<1>1. DOMAIN heard = {} /\ Bars = <<>> /\ DOMAIN Bars = {}
  BY DEF Bars
<1> PICK r : r = [i \in DOMAIN heard |-> 0]
  OBVIOUS
<1>2. BarsOf(r)
  BY <1>1 DEF BarsOf, IsReached
<1> QED
  BY <1>2

(* A tick of a later bar, or the first one: one more bar.                  *)
LEMMA BarOpens ==
  ASSUME FeedTypes, FeedTypes', UNCHANGED conduct, NEW t, Hears(t), NEW r, BarsOf(r),
         openBar' = OpenBar(t, conduct.interval),
         \/ openBar = NoBar /\ emitted' = emitted
         \/ openBar # NoBar /\ emitted' = Append(emitted, openBar)
            /\ BarStart(t, conduct.interval) > openBar.start
  PROVE  \E q : BarsOf(q)'
<1> PICK n : n = Len(heard) + 1
  OBVIOUS
<1> PICK m : m = BarStart(t, conduct.interval)
  OBVIOUS
<1> PICK new : new = OpenBar(t, conduct.interval)
  OBVIOUS
<1> DEFINE last == Len(Bars) + 1
<1> PICK q : q = Reaching(r, m, n)
  OBVIOUS
<1>1. /\ heard \in Seq(Heard) /\ t \in Heard /\ conduct \in Conducts /\ IsReached(r)
      /\ m \in Int /\ new \in Bar /\ new.start = m /\ new # NoBar
  BY StartTyped, IntervalTyped, OpenTyped, NoBarIsNoBar DEF FeedTypes, Hears, BarsOf, OpenBar
<1>2. /\ Bars' = Append(Bars, new) /\ openBar' = new
  BY <1>1 DEF Bars
<1>3. \A i \in DOMAIN heard : r[i] \in Int /\ r[i] < m
  <2>1. CASE openBar = NoBar
    BY <2>1 DEF BarsOf
  <2>2. CASE openBar # NoBar
    <3>1. openBar.start = r[Len(heard)] /\ m > openBar.start
      BY <2>2 DEF BarsOf
    <3>2. ASSUME NEW i \in DOMAIN heard PROVE r[i] \in Int /\ r[i] < m
      <4>1. r[i] \in Int /\ r[Len(heard)] \in Int /\ r[i] <= r[Len(heard)]
        BY <1>1, Reaches
      <4> QED
        BY <1>1, <3>1, <4>1
    <3> QED
      BY <3>2
  <2> QED
    BY <2>1, <2>2
<1>4. /\ Len(heard) \in Nat /\ DOMAIN heard' = DOMAIN heard \cup {n} /\ Len(heard') = n
      /\ n \in DOMAIN heard' /\ n \notin DOMAIN heard /\ heard' # <<>>
  BY <1>1, HeardGrows DEF Hears
<1>5. /\ IsReached(q)' /\ q[n] = m /\ \A i \in DOMAIN heard : q[i] = r[i]
      /\ \A s : In(q, s)' = IF s = m THEN In(r, s) \cup {n} ELSE In(r, s)
  <2>1. \A i \in DOMAIN heard : r[i] <= m
    BY <1>1, <1>3
  <2>2. BarStart(t, conduct.interval) <= m
    BY <1>1
  <2> QED
    <3>1. IsReached(q)' /\ q[n] = m /\ \A i \in DOMAIN heard : q[i] = r[i]
      BY <1>1, <2>1, <2>2, ReachMore
    <3>2. ASSUME NEW s PROVE In(q, s)' = IF s = m THEN In(r, s) \cup {n} ELSE In(r, s)
      BY <1>4, <3>1 DEF In
    <3> QED
      BY <3>1, <3>2
<1>6. /\ Bars \in Seq(Bar) /\ last \in Nat
      /\ DOMAIN Bars' = 1..last /\ last \in DOMAIN Bars' /\ Bars'[last] = new
      /\ \A k \in DOMAIN Bars' : k = last \/ k \in DOMAIN Bars
      /\ \A k \in DOMAIN Bars : /\ Bars'[k] = Bars[k] /\ Bars[k] \in Bar /\ k \in Nat
                                /\ k < last /\ k \in DOMAIN Bars'
  <2>1. Bars \in Seq(Bar) /\ \A k \in DOMAIN Bars : Bars[k] \in Bar /\ k \in Nat
    BY BarsTyped
  <2> PICK s : s = Bars
    OBVIOUS
  <2>2. /\ Len(s) \in Nat /\ DOMAIN Append(s, new) = 1..(Len(s) + 1)
        /\ Append(s, new)[Len(s) + 1] = new
        /\ \A k \in DOMAIN s : Append(s, new)[k] = s[k]
        /\ \A k \in DOMAIN Append(s, new) : k = Len(s) + 1 \/ k \in DOMAIN s
        /\ \A k \in DOMAIN s : k < Len(s) + 1 /\ k \in DOMAIN Append(s, new)
    BY <2>1, AppendIs
  <2>3. Len(s) + 1 \in 1..(Len(s) + 1) /\ Len(s) + 1 \in Nat
    BY <2>2
  <2> QED
    BY <1>2, <2>1, <2>2, <2>3
<1> HIDE DEF last
<1>7. ASSUME NEW k \in DOMAIN Bars
      PROVE  Bars[k].start < m /\ Bars[k].start \in Int
  <2>1. Holds(Bars[k], In(r, Bars[k].start))
    BY DEF BarsOf
  <2>2. PICK i \in DOMAIN heard : r[i] = Bars[k].start
    BY <2>1 DEF Holds, In
  <2> QED
    BY <1>3, <2>2
<1>8. \A i \in DOMAIN heard' : \E k \in DOMAIN Bars' : Bars'[k].start = q[i]
  <2>1. \A i \in DOMAIN heard : \E k \in DOMAIN Bars : Bars[k].start = r[i]
    BY DEF BarsOf
  <2> QED
    BY <1>1, <1>4, <1>5, <1>6, <2>1
<1>9. \A k \in DOMAIN Bars' : Holds(Bars[k], In(q, Bars[k].start))'
  <2>1. In(r, m) = {}
    BY <1>1, <1>3 DEF In
  <2>2. In(q, m)' = {n}
    BY <1>5, <2>1
  <2>3. Holds(new, {n})'
    BY HoldsOne
  <2>4. ASSUME NEW b, NEW k \in DOMAIN Bars, b = Bars[k] PROVE Holds(b, In(q, b.start))'
    <3>1. Holds(b, In(r, b.start)) /\ b.start # m
      BY <1>1, <1>7, <2>4 DEF BarsOf
    <3> PICK of : of = In(r, b.start)
      OBVIOUS
    <3>2. of \in SUBSET DOMAIN heard
      BY DEF In
    <3>3. Holds(b, of)'
      BY <3>1, <3>2, HoldsStill
    <3>4. In(q, b.start)' = of
      BY <1>5, <3>1
    <3> QED
      BY <3>3, <3>4 DEF Holds
  <2>5. ASSUME NEW k \in DOMAIN Bars', NEW b, b = Bars'[k] PROVE Holds(b, In(q, b.start))'
    <3>1. CASE k = last
      <4>1. b = new /\ b.start = m
        BY <1>1, <1>6, <2>5, <3>1
      <4> PICK of : of = {n}
        OBVIOUS
      <4>2. Holds(b, of)'
        BY <2>3, <4>1
      <4>3. In(q, b.start)' = of
        BY <2>2, <4>1
      <4> QED
        BY <4>2, <4>3 DEF Holds
    <3>2. CASE k \in DOMAIN Bars
      BY <1>6, <2>4, <2>5, <3>2
    <3> QED
      BY <1>6, <3>1, <3>2
  <2> QED
    BY <2>5 DEF Holds, In
<1>10. \A j, k \in DOMAIN Bars' : j < k => Bars'[j].start < Bars'[k].start
  <2>1. \A j, k \in DOMAIN Bars : j < k => Bars[j].start < Bars[k].start
    BY DEF BarsOf
  <2>2. ASSUME NEW j \in DOMAIN Bars', NEW k \in DOMAIN Bars', j < k
        PROVE  Bars'[j].start < Bars'[k].start
    <3>1. j \in DOMAIN Bars
      BY <1>6, <2>2
    <3> QED
      BY <1>1, <1>6, <1>7, <2>1, <2>2, <3>1
  <2> QED
    BY <2>2
<1>11. Hour % conduct'.interval = 0 => \A k \in DOMAIN Bars' : Bars'[k].start \in Blocks'
  <2>1. Blocks' = Blocks
    BY DEF Blocks
  <2>2. Hour % conduct.interval = 0 => m \in Blocks /\ \A k \in DOMAIN Bars : Bars[k].start \in Blocks
    BY <1>1, BlockStart DEF BarsOf
  <2> QED
    BY <1>1, <1>6, <2>1, <2>2
<1>12. openBar' # NoBar /\ openBar'.start = q[Len(heard')]
  BY <1>1, <1>2, <1>4, <1>5
<1> QED
  BY <1>4, <1>5, <1>8, <1>9, <1>10, <1>11, <1>12 DEF BarsOf

(* Any other tick with a price goes into the open bar.                     *)
LEMMA BarMerges ==
  ASSUME FeedTypes, FeedTypes', UNCHANGED conduct, NEW t, Hears(t), NEW r, BarsOf(r),
         openBar # NoBar, openBar' = Merge(openBar, t), emitted' = emitted,
         BarStart(t, conduct.interval) <= openBar.start
  PROVE  \E q : BarsOf(q)'
<1> PICK n : n = Len(heard) + 1
  OBVIOUS
<1> PICK m : m = openBar.start
  OBVIOUS
<1> PICK old : old = openBar
  OBVIOUS
<1> PICK new : new = Merge(openBar, t)
  OBVIOUS
<1> PICK es : es = emitted
  OBVIOUS
<1> PICK last : last = Len(es) + 1
  OBVIOUS
<1> PICK q : q = Reaching(r, m, n)
  OBVIOUS
<1>1. /\ heard \in Seq(Heard) /\ t \in Heard /\ conduct \in Conducts /\ IsReached(r)
      /\ old \in Bar /\ m \in Int /\ new \in Bar /\ new.start = m /\ old.start = m /\ new # NoBar
      /\ es \in Seq(Bar)
  BY MergeTyped, NoBarIsNoBar DEF FeedTypes, Hears, BarsOf, Bar
<1>2. /\ Bars' = Append(es, new) /\ Bars = Append(es, old) /\ openBar' = new
  BY <1>1 DEF Bars
<1>3. m = r[Len(heard)] /\ heard # <<>>
  BY DEF BarsOf
<1>4. \A i \in DOMAIN heard : r[i] \in Int /\ r[i] <= m
  BY <1>1, <1>3, Reaches
<1>5. /\ Len(heard) \in Nat /\ DOMAIN heard' = DOMAIN heard \cup {n} /\ Len(heard') = n
      /\ n \in DOMAIN heard' /\ n \notin DOMAIN heard /\ heard' # <<>>
  BY <1>1, HeardGrows DEF Hears
<1>6. /\ IsReached(q)' /\ q[n] = m /\ \A i \in DOMAIN heard : q[i] = r[i]
      /\ \A s : In(q, s)' = IF s = m THEN In(r, s) \cup {n} ELSE In(r, s)
  <2>1. IsReached(q)' /\ q[n] = m /\ \A i \in DOMAIN heard : q[i] = r[i]
    BY <1>1, <1>3, <1>4, ReachMore
  <2>2. ASSUME NEW s PROVE In(q, s)' = IF s = m THEN In(r, s) \cup {n} ELSE In(r, s)
    BY <1>5, <2>1 DEF In
  <2> QED
    BY <2>1, <2>2
<1>7. /\ DOMAIN Bars = DOMAIN Bars' /\ last \in DOMAIN Bars'
      /\ Bars[last] = old /\ Bars'[last] = new
      /\ \A k \in DOMAIN Bars' : k = last \/ Bars'[k] = Bars[k]
  <2>1. /\ DOMAIN Bars' = 1..last /\ DOMAIN Bars = 1..last
        /\ Bars[last] = old /\ Bars'[last] = new
        /\ \A k \in DOMAIN es : Bars'[k] = es[k] /\ Bars[k] = es[k]
        /\ \A k \in DOMAIN Bars' : k = last \/ k \in DOMAIN es
    BY <1>1, <1>2, AppendIs
  <2>2. last \in 1..last
    BY <1>1, AppendIs
  <2> QED
    BY <2>1, <2>2
<1>8. \A k \in DOMAIN Bars' : Bars'[k].start = Bars[k].start
  BY <1>1, <1>7
<1>9. \A i \in DOMAIN heard' : \E k \in DOMAIN Bars' : Bars'[k].start = q[i]
  <2>1. \A i \in DOMAIN heard : \E k \in DOMAIN Bars : Bars[k].start = r[i]
    BY DEF BarsOf
  <2> QED
    BY <1>1, <1>5, <1>6, <1>7, <1>8, <2>1
<1>10. \A j, k \in DOMAIN Bars : j < k => Bars[j].start < Bars[k].start
  BY DEF BarsOf
<1>11. \A k \in DOMAIN Bars' : Holds(Bars[k], In(q, Bars[k].start))'
  <2>1. ASSUME NEW k \in DOMAIN Bars', NEW b, b = Bars'[k] PROVE Holds(b, In(q, b.start))'
    <3> PICK of : of = In(r, b.start)
      OBVIOUS
    <3>1. of \in SUBSET DOMAIN heard
      BY DEF In
    <3>2. Holds(Bars[k], of)
      BY <1>7, <1>8, <2>1 DEF BarsOf
    <3>3. CASE k = last
      <4>1. b = new /\ b.start = m /\ Bars[k] = old
        BY <1>1, <1>7, <2>1, <3>3
      <4> PICK more : more = of \cup {n}
        OBVIOUS
      <4>2. Holds(new, of \cup {n})'
        <5>1. Holds(old, of)
          BY <3>2, <4>1
        <5> QED
          BY <1>1, <3>1, <5>1, HoldsMore
      <4>3. Holds(b, more)'
        BY <4>1, <4>2
      <4>4. In(q, b.start)' = more
        BY <1>6, <4>1
      <4> QED
        BY <4>3, <4>4 DEF Holds
    <3>4. CASE k # last
      <4>1. Bars[k] = b /\ last \in Int /\ k \in Int
        BY <1>1, <1>7, <2>1, <3>4, BarsTyped
      <4>2. b.start # m
        <5>1. k < last \/ last < k
          BY <3>4, <4>1
        <5>2. Bars[k].start \in Int
          BY <1>7, <2>1, BarsTyped DEF Bar
        <5> QED
          BY <1>1, <1>7, <1>10, <4>1, <5>1, <5>2
      <4>3. Holds(b, of)'
        BY <3>1, <3>2, <4>1, HoldsStill
      <4>4. In(q, b.start)' = of
        BY <1>6, <4>2
      <4> QED
        BY <4>3, <4>4 DEF Holds
    <3> QED
      BY <3>3, <3>4
  <2> QED
    BY <2>1 DEF Holds, In
<1>12. \A j, k \in DOMAIN Bars' : j < k => Bars'[j].start < Bars'[k].start
  BY <1>7, <1>8, <1>10
<1>13. Hour % conduct'.interval = 0 => \A k \in DOMAIN Bars' : Bars'[k].start \in Blocks'
  <2>1. Blocks' = Blocks
    BY DEF Blocks
  <2> QED
    BY <1>7, <1>8, <2>1 DEF BarsOf
<1>14. openBar' # NoBar /\ openBar'.start = q[Len(heard')]
  BY <1>1, <1>2, <1>5, <1>6
<1> QED
  BY <1>5, <1>6, <1>9, <1>11, <1>12, <1>13, <1>14 DEF BarsOf

LEMMA BarsStep == BarsInv /\ [FeedNext]_feedVars => BarsInv'
<1> SUFFICES ASSUME BarsInv, [FeedNext]_feedVars PROVE BarsInv'
  OBVIOUS
<1>1. FeedTypes /\ FeedTypes' /\ \E r : BarsOf(r)
  BY TypesStep DEF BarsInv
<1> PICK r : BarsOf(r)
  BY <1>1
<1>2. ASSUME UNCHANGED <<heard, openBar, emitted, conduct>> PROVE BarsInv'
  <2>1. /\ Bars' = Bars /\ Blocks' = Blocks /\ IsReached(r)'
        /\ \A s : In(r, s)' = In(r, s)
        /\ \A b, of : Holds(b, of) => Holds(b, of)'
    <3>1. Bars' = Bars /\ Blocks' = Blocks
      BY <1>2 DEF Bars, Blocks
    <3>2. Volumes' = Volumes /\ \A i : StartOf(i)' = StartOf(i)
      BY <1>2 DEF Volumes, StartOf
    <3>3. \A s : In(r, s)' = In(r, s)
      BY <1>2 DEF In
    <3>4. ASSUME NEW b, NEW of, Holds(b, of) PROVE Holds(b, of)'
      BY <1>2, <3>2, <3>4 DEF Holds
    <3>5. IsReached(r)'
      BY <1>2, <3>2 DEF IsReached, BarsOf
    <3> QED
      BY <3>1, <3>3, <3>4, <3>5
  <2>2. \A k \in DOMAIN Bars' : Holds(Bars[k], In(r, Bars[k].start))'
    <3>1. ASSUME NEW k \in DOMAIN Bars', NEW b, b = Bars'[k] PROVE Holds(b, In(r, b.start))'
      <4> PICK of : of = In(r, b.start)
        OBVIOUS
      <4>1. Holds(b, of)
        BY <2>1, <3>1 DEF BarsOf
      <4>2. Holds(b, of)' /\ In(r, b.start)' = of
        BY <2>1, <4>1
      <4> QED
        BY <4>2 DEF Holds
    <3> QED
      BY <3>1 DEF Holds, In
  <2>3. BarsOf(r)'
    BY <1>2, <2>1, <2>2 DEF BarsOf
  <2> QED
    BY <1>1, <2>3 DEF BarsInv
<1>3. ASSUME NEW n \in DOMAIN conduct.ticks, NEW t \in conduct.ticks[n], OnTick(t)
      PROVE  BarsInv'
  <2>1. CASE t.price = NoPrice
    BY <1>2, <1>3, <2>1 DEF OnTick, NoEmit
  <2>2. CASE t.price # NoPrice
    <3>1. /\ t \in Heard /\ Hears(t) /\ conduct' = conduct /\ conduct \in Conducts
          /\ openBar # NoBar => openBar.start \in Int
      BY <1>1, <1>3, <2>2, TickHeard DEF OnTick, Hears, FeedTypes, Bar
    <3>2. BarStart(t, conduct.interval) \in Int
      BY <3>1, StartTyped, IntervalTyped
    <3>3. CASE openBar = NoBar
      BY <1>1, <1>3, <2>2, <3>1, <3>3, BarOpens DEF OnTick, NoEmit, BarsInv
    <3>4. CASE openBar # NoBar /\ Closes(openBar, t, conduct.interval)
      BY <1>1, <1>3, <2>2, <3>1, <3>4, BarOpens DEF OnTick, Emit, Closes, BarsInv
    <3>5. CASE openBar # NoBar /\ ~Closes(openBar, t, conduct.interval)
      <4>1. BarStart(t, conduct.interval) <= openBar.start
        BY <3>1, <3>2, <3>5 DEF Closes
      <4> QED
        BY <1>1, <1>3, <2>2, <3>1, <3>5, <4>1, BarMerges DEF OnTick, NoEmit, BarsInv
    <3> QED
      BY <3>3, <3>4, <3>5
  <2> QED
    BY <2>1, <2>2
<1>4. ASSUME RestartFeed PROVE BarsInv'
  <2>1. heard' = <<>> /\ openBar' = NoBar /\ emitted' = <<>>
    BY <1>4 DEF RestartFeed
  <2>2. DOMAIN heard' = {} /\ Bars' = <<>> /\ DOMAIN Bars' = {}
    BY <2>1 DEF Bars
  <2> PICK q : q = [i \in {} |-> 0]
    OBVIOUS
  <2>3. BarsOf(q)'
    BY <2>1, <2>2 DEF BarsOf, IsReached
  <2> QED
    BY <1>1, <2>3 DEF BarsInv
<1>5. UNCHANGED feedVars \/ Deliver \/ (\E kind \in {"garbled", "unfit"} : PublishAlien(kind))
      => UNCHANGED <<heard, openBar, emitted, conduct>>
  BY DEF feedVars, market, Deliver, PublishAlien
<1>6. Start \/ ConsumerStep \/ RedisRaises \/ AutoCommit \/ Stop \/ Exit \/ Crash
      => UNCHANGED <<heard, openBar, emitted, conduct>>
  BY DEF Start, ConsumerStep, Assign, Fetch, Handle, Ack, RedisRaises, AutoCommit, Stop, Exit,
         Crash, Down, market
<1> QED
  BY <1>2, <1>3, <1>4, <1>5, <1>6 DEF FeedNext, FeedStep

LEMMA BarsInvariant == FeedSpec => []BarsInv
<1>1. FeedInit => BarsInv
  BY InitTypes, NoBars DEF FeedInit, BarsInv
<1> QED
  BY <1>1, BarsStep, PTL DEF FeedSpec

(* The closed form of a sum of volumes is the sum over the ticks.          *)
LEMMA VolumeIsSum ==
  ASSUME NEW of \in SUBSET DOMAIN heard
  PROVE  MapThenSumSet(LAMBDA i : heard[i].volume, of) = Sum(Volumes, of)
<1> DEFINE It(g) == [s \in SUBSET of |->
              IF s = {} THEN 0
              ELSE LET x == CHOOSE x \in s : TRUE
                   IN  heard[x].volume + g[s \ {x}]]
<1>1. MapThenSumSet(LAMBDA i : heard[i].volume, of) = (CHOOSE g : g = It(g))[of]
  BY DEF MapThenSumSet, MapThenFoldSet
<1>2. \A g : It(g) = SumIt(Volumes, of, g)
  BY DEF SumIt, Volumes
<1> HIDE DEF It
<1>3. (CHOOSE g : g = It(g)) = (CHOOSE g : IsSum(Volumes, of, g))
  BY <1>2 DEF IsSum
<1> QED
  BY <1>1, <1>3, SumIs

LEMMA ReachedIs ==
  ASSUME NEW r, IsReached(r), heard \in Seq(Heard), conduct \in Conducts, NEW i \in DOMAIN heard
  PROVE  Reached(i) = r[i]
<1> DEFINE S == {BarStart(heard[j], conduct.interval) : j \in 1..i}
<1>1. \A j \in 1..i : StartOf(j) \in Int /\ StartOf(j) <= r[i]
  BY Reaches
<1>2. S \in SUBSET Int /\ \A x \in S : x <= r[i]
  BY <1>1 DEF StartOf
<1>3. r[i] \in S
  BY DEF IsReached, StartOf
<1> HIDE DEF S
<1>4. Max(S) = r[i]
  BY <1>2, <1>3, MaxIs
<1> QED
  BY <1>4 DEF S, Reached

(* A bar is the reference's if it holds the same ticks.                    *)
LEMMA HoldsReference ==
  ASSUME heard \in Seq(Heard), NEW b \in Bar, NEW of \in SUBSET DOMAIN heard, Holds(b, of),
         \A i \in DOMAIN heard : i \in of <=> Reached(i) = b.start
  PROVE  b = ReferenceBar(b.start)
<1>1. of = {i \in DOMAIN heard : Reached(i) = b.start}
  OBVIOUS
<1>2. \A i \in of : i \in Int /\ heard[i].price \in Int
  BY HeardAt
<1>3. b.open = heard[Min(of)].price
  <2>1. PICK i \in of : b.open = heard[i].price /\ \A j \in of : i <= j
    BY DEF Holds
  <2>2. Min(of) = i
    BY <1>2, <2>1, MinIs
  <2> QED
    BY <2>1, <2>2
<1>4. b.close = heard[Max(of)].price
  <2>1. PICK i \in of : b.close = heard[i].price /\ \A j \in of : j <= i
    BY DEF Holds
  <2>2. Max(of) = i
    BY <1>2, <2>1, MaxIs
  <2> QED
    BY <2>1, <2>2
<1> DEFINE P == {heard[i].price : i \in of}
<1>5. /\ P \in SUBSET Int /\ b.high \in P /\ b.low \in P
      /\ \A x \in P : x <= b.high /\ b.low <= x
  BY <1>2 DEF Holds
<1>6. b.high = Max(P) /\ b.low = Min(P)
  <2> HIDE DEF P
  <2>1. Max(P) = b.high
    BY <1>5, MaxIs
  <2>2. Min(P) = b.low
    BY <1>5, MinIs
  <2> QED
    BY <2>1, <2>2
<1>7. b.volume = MapThenSumSet(LAMBDA i : heard[i].volume, of)
  BY VolumeIsSum DEF Holds
<1> DEFINE V == MapThenSumSet(LAMBDA i : heard[i].volume, of)
<1>8. ReferenceBar(b.start) =
        [start |-> b.start, open |-> heard[Min(of)].price, close |-> heard[Max(of)].price,
         high |-> Max(P), low |-> Min(P), volume |-> V]
  BY <1>1 DEF ReferenceBar
<1> HIDE DEF P, V
<1>9. b.volume = V
  BY <1>7 DEF V
<1> QED
  BY <1>3, <1>4, <1>6, <1>8, <1>9 DEF Bar

(* BarsAreReference: whatever ticks come, late ones among them, the bars   *)
(* emitted and the open one are those a reference makes of all ticks at    *)
(* once, and they do not overlap.                                          *)
THEOREM BarsAreReferenceAlways == FeedSpec => []BarsAreReference
<1>1. BarsInv => BarsAreReference
  <2> SUFFICES ASSUME BarsInv PROVE BarsAreReference
    OBVIOUS
  <2> PICK r : BarsOf(r)
    BY DEF BarsInv
  <2>1. FeedTypes /\ heard \in Seq(Heard) /\ conduct \in Conducts /\ IsReached(r)
    BY DEF BarsInv, FeedTypes, BarsOf
  <2>2. \A i \in DOMAIN heard : Reached(i) = r[i]
    BY <2>1, ReachedIs
  <2>3. \A k \in DOMAIN Bars : Bars[k] \in Bar /\ Holds(Bars[k], In(r, Bars[k].start))
    BY <2>1, BarsTyped DEF BarsOf
  <2>4. {Bars[k].start : k \in DOMAIN Bars} = {Reached(i) : i \in DOMAIN heard}
    <3>1. \A k \in DOMAIN Bars : \E i \in DOMAIN heard : r[i] = Bars[k].start
      BY <2>3 DEF Holds, In
    <3>2. \A i \in DOMAIN heard : \E k \in DOMAIN Bars : Bars[k].start = r[i]
      BY DEF BarsOf
    <3> QED
      BY <2>2, <3>1, <3>2
  <2>5. ASSUME NEW k \in DOMAIN Bars PROVE Bars[k] = ReferenceBar(Bars[k].start)
    <3> PICK b : b = Bars[k]
      OBVIOUS
    <3> PICK of : of = In(r, b.start)
      OBVIOUS
    <3>1. of \in SUBSET DOMAIN heard /\ \A i \in DOMAIN heard : i \in of <=> Reached(i) = b.start
      BY <2>2 DEF In
    <3>2. b \in Bar /\ Holds(b, of)
      BY <2>3
    <3>3. b = ReferenceBar(b.start)
      BY <2>1, <3>1, <3>2, HoldsReference
    <3> QED
      BY <3>3
  <2>6. ASSUME NEW j \in DOMAIN Bars, NEW k \in DOMAIN Bars, j < k
        PROVE  /\ Bars[j].start < Bars[k].start
               /\ Hour % conduct.interval = 0
                    => Bars[j].start + conduct.interval <= Bars[k].start
    <3>1. Bars[j].start < Bars[k].start
      BY <2>6 DEF BarsOf
    <3>2. Hour % conduct.interval = 0 => Bars[j].start \in Blocks /\ Bars[k].start \in Blocks
      BY DEF BarsOf
    <3> QED
      BY <2>1, <3>1, <3>2, BlocksApart
  <2> QED
    BY <2>4, <2>5, <2>6 DEF BarsAreReference
<1> QED
  BY <1>1, BarsInvariant, PTL

-----------------------------------------------------------------------------
(* Powers.  The recursive function is the one that agrees with its first   *)
(* n values, for every n.                                                  *)
PowersTo(g, b, n) ==
  g \in [0..n -> Int] /\ g[0] = 1 /\ \A i \in 1..n : g[i] = b * g[i - 1]
PowerIt(g, b) == [n \in Nat |-> IF n = 0 THEN 1 ELSE b * g[n - 1]]

LEMMA PowersUnique ==
  ASSUME NEW b \in Int, NEW n \in Nat, NEW m \in Nat, n <= m,
         NEW g, PowersTo(g, b, n), NEW h, PowersTo(h, b, m)
  PROVE  \A i \in 0..n : g[i] = h[i]
<1> DEFINE B == {i \in 0..n : g[i] # h[i]}
<1> SUFFICES ASSUME B # {} PROVE FALSE
  OBVIOUS
<1>1. B \in SUBSET Nat
  OBVIOUS
<1>2. PICK i \in B : \A j \in B : i <= j
  <2> HIDE DEF B
  <2> QED
    BY <1>1, Least
<1>3. i \in 0..n /\ g[i] # h[i] /\ i # 0
  BY DEF PowersTo
<1>4. i - 1 \in 0..n /\ i - 1 < i /\ i \in 1..n /\ i \in 1..m
  BY <1>3
<1>5. i - 1 \notin B
  BY <1>2, <1>4
<1>6. g[i - 1] = h[i - 1]
  BY <1>4, <1>5
<1>7. g[i] = b * g[i - 1] /\ h[i] = b * h[i - 1]
  BY <1>4 DEF PowersTo
<1> QED
  BY <1>3, <1>6, <1>7

LEMMA PowersExist ==
  ASSUME NEW b \in Int, NEW n \in Nat
  PROVE  \E g : PowersTo(g, b, n)
<1> DEFINE B == {i \in Nat : ~ \E g : PowersTo(g, b, i)}
<1> SUFFICES ASSUME B # {} PROVE FALSE
  OBVIOUS
<1>1. B \in SUBSET Nat
  OBVIOUS
<1>2. PICK i \in B : \A j \in B : i <= j
  <2> HIDE DEF B
  <2> QED
    BY <1>1, Least
<1>3. i \in Nat /\ ~ \E g : PowersTo(g, b, i)
  OBVIOUS
<1>4. i # 0
  <2> PICK g : g = [j \in {0} |-> 1]
    OBVIOUS
  <2>1. 0..0 = {0} /\ 1..0 = {}
    OBVIOUS
  <2>2. PowersTo(g, b, 0)
    BY <2>1 DEF PowersTo
  <2> QED
    BY <1>3, <2>2
<1>5. i - 1 \in Nat /\ i - 1 < i
  BY <1>3, <1>4
<1>6. PICK g : PowersTo(g, b, i - 1)
  BY <1>2, <1>5
<1> PICK h : h = [j \in 0..i |-> IF j = i THEN b * g[i - 1] ELSE g[j]]
  OBVIOUS
<1>7. /\ g \in [0..(i - 1) -> Int] /\ g[0] = 1 /\ \A j \in 1..(i - 1) : g[j] = b * g[j - 1]
      /\ i - 1 \in 0..(i - 1)
  BY <1>3, <1>4, <1>6 DEF PowersTo
<1>8. g[i - 1] \in Int
  BY <1>7
<1>9. b * g[i - 1] \in Int
  BY <1>8
<1>10. \A j \in 0..i : j = i \/ j \in 0..(i - 1)
  BY <1>3
<1>11. h \in [0..i -> Int]
  BY <1>7, <1>9, <1>10
<1>12. h[0] = 1
  BY <1>3, <1>4, <1>7
<1>13. ASSUME NEW j \in 1..i PROVE h[j] = b * h[j - 1]
  <2>1. j - 1 \in 0..i /\ j - 1 # i /\ j \in 0..i
    BY <1>3
  <2>2. h[j - 1] = g[j - 1]
    BY <2>1
  <2>3. CASE j = i
    BY <2>1, <2>2, <2>3
  <2>4. CASE j # i
    <3>1. j \in 1..(i - 1)
      BY <1>3, <2>4
    <3> QED
      BY <1>7, <2>1, <2>2, <2>4, <3>1
  <2> QED
    BY <2>3, <2>4
<1>14. PowersTo(h, b, i)
  BY <1>11, <1>12, <1>13 DEF PowersTo
<1> QED
  BY <1>3, <1>14

LEMMA PowerIs ==
  ASSUME NEW b \in Int
  PROVE  /\ Power(b)[0] = 1
         /\ \A n \in Nat : Power(b)[n] \in Int /\ Power(b)[n + 1] = b * Power(b)[n]
<1> DEFINE P(n) == CHOOSE g : PowersTo(g, b, n)
           f == [n \in Nat |-> P(n)[n]]
<1>1. ASSUME NEW n \in Nat PROVE PowersTo(P(n), b, n)
  <2>1. \E g : PowersTo(g, b, n)
    BY PowersExist
  <2> QED
    BY <2>1
<1>2. ASSUME NEW n \in Nat PROVE P(n)[n] \in Int /\ P(n)[0] = 1
  <2>1. PowersTo(P(n), b, n) /\ n \in 0..n
    BY <1>1
  <2> HIDE DEF P
  <2> QED
    BY <2>1 DEF PowersTo
<1>3. ASSUME NEW n \in Nat, n # 0 PROVE P(n)[n] = b * P(n - 1)[n - 1]
  <2>1. n - 1 \in Nat /\ n - 1 <= n /\ n \in 1..n /\ n - 1 \in 0..(n - 1)
    BY <1>3
  <2>2. P(n)[n] = b * P(n)[n - 1]
    BY <1>1, <2>1 DEF PowersTo
  <2> HIDE DEF P
  <2>3. PowersTo(P(n - 1), b, n - 1) /\ PowersTo(P(n), b, n)
    BY <1>1, <2>1
  <2>4. P(n - 1)[n - 1] = P(n)[n - 1]
    BY <2>1, <2>3, PowersUnique
  <2> QED
    BY <2>2, <2>4
<1> HIDE DEF P
<1>4. ASSUME NEW n \in Nat PROVE f[n] = IF n = 0 THEN 1 ELSE b * f[n - 1]
  <2>1. n # 0 => n - 1 \in Nat
    OBVIOUS
  <2> QED
    BY <1>2, <1>3, <2>1
<1>5. f = PowerIt(f, b)
  BY <1>4 DEF PowerIt
<1> HIDE DEF f
<1>6. Power(b) = CHOOSE g : g = PowerIt(g, b)
  BY DEF Power, PowerIt
<1>7. \E g : g = PowerIt(g, b)
  BY <1>5
<1> PICK g : g = Power(b)
  OBVIOUS
<1>8. g = PowerIt(g, b)
  BY <1>6, <1>7
<1>9. \A n \in Nat : g[n] = IF n = 0 THEN 1 ELSE b * g[n - 1]
  BY <1>8 DEF PowerIt
<1> DEFINE B == {n \in Nat : g[n] \notin Int}
<1>10. B = {}
  <2> SUFFICES ASSUME B # {} PROVE FALSE
    OBVIOUS
  <2>1. B \in SUBSET Nat
    OBVIOUS
  <2>2. PICK i \in B : \A j \in B : i <= j
    <3> HIDE DEF B
    <3> QED
      BY <2>1, Least
  <2>3. i \in Nat /\ g[i] \notin Int
    OBVIOUS
  <2>4. i # 0
    BY <1>9, <2>3
  <2>5. i - 1 \in Nat /\ i - 1 < i
    BY <2>3, <2>4
  <2>6. g[i - 1] \in Int
    BY <2>2, <2>5
  <2>7. b * g[i - 1] \in Int
    BY <2>6
  <2> QED
    BY <1>9, <2>3, <2>4, <2>7
<1>11. ASSUME NEW n \in Nat PROVE g[n] \in Int /\ g[n + 1] = b * g[n]
  <2>1. n + 1 \in Nat /\ n + 1 # 0 /\ (n + 1) - 1 = n
    OBVIOUS
  <2>2. g[n + 1] = b * g[(n + 1) - 1]
    BY <1>9, <2>1
  <2> QED
    BY <1>10, <2>1, <2>2
<1> QED
  BY <1>9, <1>11

-----------------------------------------------------------------------------
(* The replay's weighted sums.                                             *)
Weights(c, n, p) ==
  [k \in 2..n |-> 2 * Power(p + 1)[k - 2] * Power(p - 1)[n - k] * c[k]]

LEMMA WeightedIs ==
  ASSUME NEW c, NEW n \in Nat, NEW p \in Int
  PROVE  WeightedSum(c, n, p) = Power(p - 1)[n - 1] * c[1] + Sum(Weights(c, n, p), 2..n)
BY DEF WeightedSum, Weights, Sum

(* The sum of multiples.                                                   *)
LEMMA SumScaled ==
  ASSUME NEW f, NEW h, NEW S, IsFiniteSet(S), NEW a \in Int,
         \A x \in S : f[x] \in Int /\ h[x] = a * f[x]
  PROVE  \A T \in SUBSET S : Sum(h, T) = a * Sum(f, T)
<1> DEFINE B == {T \in SUBSET S : Sum(h, T) # a * Sum(f, T)}
<1> SUFFICES ASSUME B # {} PROVE FALSE
  OBVIOUS
<1>1. PICK T \in B : \A u \in SUBSET T : u # T => u \notin B
  <2>1. B \in SUBSET SUBSET S
    OBVIOUS
  <2> HIDE DEF B
  <2> QED
    BY <2>1, Smallest
<1>2. T \in SUBSET S /\ IsFiniteSet(T) /\ Sum(h, T) # a * Sum(f, T)
  BY FS_Subset
<1>3. T # {}
  <2>1. T = {} => Sum(f, T) = 0 /\ Sum(h, T) = 0
    BY <1>2, SumFirst
  <2>2. a * 0 = 0
    OBVIOUS
  <2> QED
    BY <1>2, <2>1, <2>2
<1> DEFINE u == T \ {First(T)}
<1>4. /\ First(T) \in T
      /\ Sum(f, T) = f[First(T)] + Sum(f, u) /\ Sum(h, T) = h[First(T)] + Sum(h, u)
  BY <1>2, <1>3, SumFirst
<1>5. u \in SUBSET T /\ u # T /\ u \in SUBSET S
  BY <1>2, <1>4
<1> HIDE DEF u
<1>6. Sum(h, u) = a * Sum(f, u)
  BY <1>1, <1>5
<1>7. h[First(T)] = a * f[First(T)] /\ f[First(T)] \in Int /\ Sum(f, u) \in Int
  BY <1>2, <1>4, <1>5, SumType
<1>8. \A x, y \in Int : a * (x + y) = a * x + a * y
  OBVIOUS
<1>9. a * (f[First(T)] + Sum(f, u)) = a * f[First(T)] + a * Sum(f, u)
  BY <1>7, <1>8
<1> QED
  BY <1>2, <1>4, <1>6, <1>7, <1>9

(* What depends only on the values up to n.                                *)
LEMMA WeightedAgrees ==
  ASSUME NEW c, NEW d, NEW n \in Nat, n >= 1, NEW p \in Int, \A i \in 1..n : c[i] = d[i]
  PROVE  WeightedSum(c, n, p) = WeightedSum(d, n, p)
<1>1. IsFiniteSet(2..n)
  BY FS_Interval
<1>2. ASSUME NEW k \in 2..n PROVE Weights(c, n, p)[k] = Weights(d, n, p)[k]
  <2>1. c[k] = d[k]
    OBVIOUS
  <2> QED
    BY <2>1 DEF Weights
<1>3. Sum(Weights(c, n, p), 2..n) = Sum(Weights(d, n, p), 2..n)
  <2>0. PICK S : S = 2..n
    OBVIOUS
  <2>1. PICK f : f = Weights(c, n, p)
    OBVIOUS
  <2>2. PICK h : h = Weights(d, n, p)
    OBVIOUS
  <2>3. IsFiniteSet(S) /\ S \in SUBSET S /\ \A x \in S : f[x] = h[x]
    BY <1>1, <1>2, <2>0, <2>1, <2>2
  <2>4. Sum(f, S) = Sum(h, S)
    BY <2>3, SumAgrees
  <2> QED
    BY <2>0, <2>1, <2>2, <2>4
<1>4. c[1] = d[1]
  OBVIOUS
<1> QED
  BY <1>3, <1>4, WeightedIs

LEMMA WeightsTyped ==
  ASSUME NEW c, NEW n \in Nat, NEW p \in Int, \A i \in 1..n : c[i] \in Int
  PROVE  \A k \in 2..n : Weights(c, n, p)[k] \in Int
<1> SUFFICES ASSUME NEW k \in 2..n PROVE Weights(c, n, p)[k] \in Int
  OBVIOUS
<1>1. k - 2 \in Nat /\ n - k \in Nat /\ k \in 1..n /\ p + 1 \in Int /\ p - 1 \in Int
  OBVIOUS
<1>2. Power(p + 1)[k - 2] \in Int /\ Power(p - 1)[n - k] \in Int /\ c[k] \in Int
  BY <1>1, PowerIs
<1>3. \A x, y, z \in Int : 2 * x * y * z \in Int
  OBVIOUS
<1> QED
  BY <1>2, <1>3 DEF Weights

LEMMA WeightedFirst ==
  ASSUME NEW c, NEW p \in Int, c[1] \in Int
  PROVE  WeightedSum(c, 1, p) = c[1]
<1>1. 2..1 = {} /\ 1 - 1 = 0 /\ 1 \in Nat /\ p - 1 \in Int
  OBVIOUS
<1>2. Sum(Weights(c, 1, p), {}) = 0
  BY SumFirst, FS_EmptySet
<1>3. Power(p - 1)[0] = 1
  BY <1>1, PowerIs
<1>4. WeightedSum(c, 1, p) = 1 * c[1] + 0
  BY <1>1, <1>2, <1>3, WeightedIs
<1> QED
  BY <1>4

LEMMA Fourfold ==
  ASSUME NEW a \in Int, NEW x \in Int, NEW y \in Int, NEW z \in Int
  PROVE  2 * x * (a * y) * z = a * (2 * x * y * z)
OBVIOUS

(* One close more.                                                         *)
LEMMA WeightedStep ==
  ASSUME NEW c, NEW d, NEW n \in Nat, n >= 1, NEW p \in Int,
         \A i \in 1..n : c[i] = d[i] /\ c[i] \in Int, d[n + 1] \in Int
  PROVE  WeightedSum(d, n + 1, p)
           = 2 * d[n + 1] * Power(p + 1)[n - 1] + (p - 1) * WeightedSum(c, n, p)
<1> PICK a : a = p - 1
  OBVIOUS
<1> PICK P : P = Power(p - 1)
  OBVIOUS
<1> PICK Q : Q = Power(p + 1)
  OBVIOUS
<1> PICK f : f = Weights(c, n, p)
  OBVIOUS
<1> PICK h : h = Weights(d, n + 1, p)
  OBVIOUS
<1>1. /\ a \in Int /\ p + 1 \in Int /\ n + 1 \in Nat /\ n - 1 \in Nat
      /\ (n + 1) - 1 = n /\ (n - 1) + 1 = n /\ (n + 1) - (n + 1) = 0 /\ (n + 1) - 2 = n - 1
  OBVIOUS
<1>2. /\ P[0] = 1 /\ \A i \in Nat : P[i] \in Int /\ P[i + 1] = a * P[i]
      /\ \A i \in Nat : Q[i] \in Int
  BY <1>1, PowerIs
<1>3. IsFiniteSet(2..n) /\ IsFiniteSet(2..(n + 1))
  BY <1>1, FS_Interval
<1>4. \A i \in 1..(n + 1) : d[i] \in Int
  <2>1. \A i \in 1..(n + 1) : i \in 1..n \/ i = n + 1
    OBVIOUS
  <2> QED
    BY <2>1
<1>5. /\ \A k \in 2..n : f[k] \in Int
      /\ \A k \in 2..(n + 1) : h[k] \in Int
  BY <1>1, <1>4, WeightsTyped
<1>6. ASSUME NEW k \in 2..n PROVE h[k] = a * f[k]
  <2>1. /\ k \in 2..(n + 1) /\ k \in 1..n /\ k - 2 \in Nat /\ n - k \in Nat
        /\ (n + 1) - k = (n - k) + 1
    OBVIOUS
  <2>2. /\ h[k] = 2 * Q[k - 2] * P[(n + 1) - k] * d[k]
        /\ f[k] = 2 * Q[k - 2] * P[n - k] * c[k]
    BY <2>1 DEF Weights
  <2>3. P[(n + 1) - k] = a * P[n - k] /\ P[n - k] \in Int /\ Q[k - 2] \in Int
    BY <1>2, <2>1
  <2>4. c[k] = d[k] /\ c[k] \in Int
    BY <2>1
  <2> QED
    BY <1>1, <2>2, <2>3, <2>4, Fourfold
<1>7. Sum(h, 2..n) = a * Sum(f, 2..n) /\ Sum(f, 2..n) \in Int
  <2>0. PICK S : S = 2..n
    OBVIOUS
  <2>1. IsFiniteSet(S) /\ S \in SUBSET S /\ \A x \in S : f[x] \in Int /\ h[x] = a * f[x]
    BY <1>3, <1>5, <1>6, <2>0
  <2>2. Sum(h, S) = a * Sum(f, S)
    BY <1>1, <2>1, SumScaled
  <2>3. Sum(f, S) \in Int
    BY <2>1, SumType
  <2> QED
    BY <2>0, <2>2, <2>3
<1>8. Sum(h, 2..(n + 1)) = h[n + 1] + Sum(h, 2..n)
  <2>1. n + 1 \in 2..(n + 1) /\ (2..(n + 1)) \ {n + 1} = 2..n
    OBVIOUS
  <2>0. PICK S : S = 2..(n + 1)
    OBVIOUS
  <2>2. IsFiniteSet(S) /\ S \in SUBSET S /\ n + 1 \in S /\ \A x \in S : h[x] \in Int
    BY <1>3, <1>5, <2>0, <2>1
  <2>3. Sum(h, S) = h[n + 1] + Sum(h, S \ {n + 1})
    BY <2>2, SumWithout
  <2> QED
    BY <2>0, <2>1, <2>3
<1>9. h[n + 1] = 2 * d[n + 1] * Q[n - 1]
  <2>1. n + 1 \in 2..(n + 1)
    OBVIOUS
  <2>2. h[n + 1] = 2 * Q[(n + 1) - 2] * P[(n + 1) - (n + 1)] * d[n + 1]
    BY <2>1 DEF Weights
  <2>3. h[n + 1] = 2 * Q[n - 1] * 1 * d[n + 1]
    BY <1>1, <1>2, <2>2
  <2>4. Q[n - 1] \in Int
    BY <1>1, <1>2
  <2>5. \A x, y \in Int : 2 * x * 1 * y = 2 * y * x
    OBVIOUS
  <2> QED
    BY <2>3, <2>4, <2>5
<1>10. /\ WeightedSum(d, n + 1, p) = P[n] * d[1] + Sum(h, 2..(n + 1))
       /\ WeightedSum(c, n, p) = P[n - 1] * c[1] + Sum(f, 2..n)
  <2>1. /\ WeightedSum(d, n + 1, p)
             = Power(p - 1)[(n + 1) - 1] * d[1] + Sum(Weights(d, n + 1, p), 2..(n + 1))
        /\ WeightedSum(c, n, p) = Power(p - 1)[n - 1] * c[1] + Sum(Weights(c, n, p), 2..n)
    BY <1>1, WeightedIs
  <2> QED
    BY <1>1, <2>1
<1>11. /\ P[n] = a * P[n - 1] /\ P[n - 1] \in Int /\ c[1] = d[1] /\ c[1] \in Int
       /\ Q[n - 1] \in Int
  BY <1>1, <1>2
<1>12. \A x, y, s, t \in Int : (a * x) * y + (t + a * s) = t + a * (x * y + s)
  BY <1>1
<1>13. 2 * d[n + 1] * Q[n - 1] \in Int
  BY <1>11
<1>14. WeightedSum(d, n + 1, p) = (a * P[n - 1]) * c[1] + (2 * d[n + 1] * Q[n - 1] + a * Sum(f, 2..n))
  BY <1>7, <1>8, <1>9, <1>10, <1>11
<1> QED
  BY <1>7, <1>10, <1>11, <1>12, <1>13, <1>14

-----------------------------------------------------------------------------
(* Live and backtest.  The closes of the bars this life has worked through *)
(* and what a replay of the first n closes comes to.                       *)
Clean    == ~conduct.fails /\ conduct.aliens = {}
Closings == [i \in 1..Done |-> topic[base + i].bar.close]
Averages(ema, c, n, period) == ema.n = n /\ (n > 0 => ema.value = WeightedSum(c, n, period))
Replayed(c, n) == [i \in 1..Larger(0, n - Warm) |-> ReplayTarget(c, Warm + i)]
UpToDate ==
  /\ Averages(fast, Closings, Done, FastPeriod) /\ Averages(slow, Closings, Done, SlowPeriod)
  /\ targets = Replayed(Closings, Done)

IsBar(m) == m.kind = "bar" /\ m.bar \in Bar
BarMessages ==
  /\ \A i \in DOMAIN outbox : IsBar(outbox[i])
  /\ \A i \in DOMAIN topic : topic[i].kind = "bar" => IsBar(topic[i])
  /\ conduct.aliens = {} => \A i \in DOMAIN topic : IsBar(topic[i])

LiveInv ==
  /\ BarMessages
  /\ thread = "joining" => fast = Fresh /\ slow = Fresh /\ targets = <<>>
  /\ thread = "running" => base \in Nat /\ base <= readTo - Len(hand)
  /\ Clean /\ thread = "running" => UpToDate

LEMMA WarmTyped ==
  Warm \in Nat /\ \A n \in Nat : (n >= FastPeriod /\ n >= SlowPeriod) <=> n > Warm
BY FeedAssumption DEF Warm, Larger

(* What was worked through is part of the topic.                           *)
LEMMA DoneIs ==
  ASSUME DeliveryInv, base \in Nat, base <= readTo - Len(hand)
  PROVE  /\ Done \in Nat /\ base + Done <= Len(topic)
         /\ Done = readTo - Len(hand) - base + Through
         /\ base + Done = readTo - Len(hand) + Through
<1>1. /\ readTo \in Nat /\ readTo <= Len(topic) /\ hand \in Seq(Nat) /\ acking \in BOOLEAN
      /\ acking => hand # <<>>
  BY DEF DeliveryInv, InHand
<1>2. Len(topic) \in Nat /\ Len(hand) \in Nat /\ (hand # <<>> => Len(hand) >= 1)
  BY <1>1 DEF DeliveryInv, FeedTypes
<1>3. Through \in {0, 1} /\ Through <= Len(hand)
  BY <1>1, <1>2, Throughs
<1>4. Done = readTo - Len(hand) - base + Through
  BY DEF Done, Through
<1> QED
  BY <1>1, <1>2, <1>3, <1>4

(* The closes stay what they are while the topic grows.                    *)
LEMMA SameClosings ==
  ASSUME DeliveryInv, base \in Nat, base <= readTo - Len(hand), base' = base, Done' = Done,
         \A i \in DOMAIN topic : topic'[i] = topic[i]
  PROVE  Closings' = Closings
<1>1. Done \in Nat /\ base + Done <= Len(topic) /\ Len(topic) \in Nat
  BY DoneIs DEF DeliveryInv, FeedTypes
<1>2. DOMAIN topic = 1..Len(topic)
  BY DEF DeliveryInv, FeedTypes
<1>3. ASSUME NEW i \in 1..Done PROVE topic'[base' + i] = topic[base + i]
  <2>1. base + i \in DOMAIN topic
    BY <1>1, <1>2
  <2> QED
    BY <2>1
<1>4. Closings' = [i \in 1..Done' |-> topic'[base' + i].bar.close]
  BY DEF Closings
<1> QED
  BY <1>3, <1>4 DEF Closings

LEMMA NothingDone ==
  ASSUME NEW c
  PROVE  /\ Averages(Fresh, c, 0, FastPeriod) /\ Averages(Fresh, c, 0, SlowPeriod)
         /\ Replayed(c, 0) = <<>>
<1>1. Larger(0, 0 - Warm) = 0
  BY WarmTyped DEF Larger
<1>2. 1..0 = {}
  OBVIOUS
<1>3. Replayed(c, 0) = <<>>
  BY <1>1, <1>2 DEF Replayed
<1> QED
  BY <1>3 DEF Averages, Fresh

(* A step that works nothing through.                                      *)
LEMMA StillUpToDate ==
  ASSUME DeliveryInv, LiveInv, BarMessages', UNCHANGED <<fast, slow, targets, base, conduct>>,
         \A i \in DOMAIN topic : topic'[i] = topic[i],
         thread' = thread \/ thread' \notin {"joining", "running"},
         thread' = "running" => base <= readTo' - Len(hand'),
         Clean /\ thread' = "running" => Done' = Done
  PROVE  LiveInv'
<1>1. thread' = "joining" => fast' = Fresh /\ slow' = Fresh /\ targets' = <<>>
  BY DEF LiveInv
<1>2. thread' = "running" => base' \in Nat /\ base' <= readTo' - Len(hand')
  BY DEF LiveInv
<1>3. ASSUME Clean', thread' = "running" PROVE UpToDate'
  <2>1. Clean /\ thread = "running" /\ Done' = Done
    BY <1>3 DEF Clean
  <2>2. UpToDate /\ base \in Nat /\ base <= readTo - Len(hand)
    BY <2>1 DEF LiveInv
  <2>3. Closings' = Closings
    BY <2>1, <2>2, SameClosings
  <2> QED
    BY <2>1, <2>2, <2>3 DEF UpToDate
<1> QED
  BY <1>1, <1>2, <1>3 DEF LiveInv

(* A life that begins.                                                     *)
LEMMA Begins ==
  ASSUME BarMessages', fast' = Fresh, slow' = Fresh, targets' = <<>>, hand' = <<>>,
         acking' = FALSE, thread' = "running" => readTo' \in Nat /\ base' = readTo'
  PROVE  LiveInv'
<1>1. Len(hand') = 0
  BY NothingInHand
<1>2. ASSUME thread' = "running" PROVE UpToDate' /\ base' \in Nat /\ base' <= readTo' - Len(hand')
  <2>1. Done' = 0
    BY <1>1, <1>2 DEF Done
  <2>2. /\ Averages(Fresh, Closings', 0, FastPeriod) /\ Averages(Fresh, Closings', 0, SlowPeriod)
        /\ Replayed(Closings', 0) = <<>>
    BY NothingDone
  <2> QED
    BY <1>1, <1>2, <2>1, <2>2 DEF UpToDate
<1> QED
  BY <1>2 DEF LiveInv

(* One close more moves an average as the replay's.                        *)
LEMMA AverageMoves ==
  ASSUME NEW c, NEW d, NEW n \in Nat, NEW p \in Int, NEW ema,
         \A i \in 1..n : c[i] = d[i] /\ c[i] \in Int, d[n + 1] \in Int, Averages(ema, c, n, p)
  PROVE  Averages(Update(ema, d[n + 1], p), d, n + 1, p)
<1>1. ema.n = n /\ (n > 0 => ema.value = WeightedSum(c, n, p))
  BY DEF Averages
<1>2. Update(ema, d[n + 1], p).n = n + 1
  BY <1>1 DEF Update
<1>3. Update(ema, d[n + 1], p).value = WeightedSum(d, n + 1, p)
  <2>1. CASE n = 0
    <3>1. Update(ema, d[n + 1], p).value = d[1] /\ d[1] \in Int /\ n + 1 = 1
      BY <1>1, <2>1 DEF Update
    <3> QED
      BY <3>1, WeightedFirst
  <2>2. CASE n > 0
    <3>1. ema.n # 0
      BY <1>1, <2>2
    <3>2. Update(ema, d[n + 1], p).value = 2 * d[n + 1] * Scale(p, ema.n) + (p - 1) * ema.value
      BY <3>1 DEF Update
    <3>3. Scale(p, ema.n) = Power(p + 1)[n - 1] /\ ema.value = WeightedSum(c, n, p)
      BY <1>1, <2>2 DEF Scale
    <3>4. WeightedSum(d, n + 1, p)
            = 2 * d[n + 1] * Power(p + 1)[n - 1] + (p - 1) * WeightedSum(c, n, p)
      BY <2>2, WeightedStep
    <3> QED
      BY <3>2, <3>3, <3>4
  <2> QED
    BY <2>1, <2>2
<1> QED
  BY <1>2, <1>3 DEF Averages

LEMMA ReplayAgrees ==
  ASSUME NEW c, NEW d, NEW n \in Nat, n >= 1, \A i \in 1..n : c[i] = d[i]
  PROVE  ReplayTarget(c, n) = ReplayTarget(d, n)
<1>1. FastPeriod \in Int /\ SlowPeriod \in Int
  BY FeedAssumption
<1>2. /\ WeightedSum(c, n, FastPeriod) = WeightedSum(d, n, FastPeriod)
      /\ WeightedSum(c, n, SlowPeriod) = WeightedSum(d, n, SlowPeriod)
  BY <1>1, WeightedAgrees
<1> QED
  BY <1>2 DEF ReplayTarget

LEMMA OneLonger ==
  ASSUME NEW T, NEW k \in Nat, NEW f \in [1..(k + 1) -> T], NEW g \in [1..k -> T],
         \A i \in 1..k : g[i] = f[i]
  PROVE  Append(g, f[k + 1]) = f
<1>1. f \in Seq(T) /\ Len(f) = k + 1 /\ g \in Seq(T) /\ Len(g) = k
  OBVIOUS
<1>2. f[k + 1] \in T
  OBVIOUS
<1>3. PICK a : a = Append(g, f[k + 1])
  OBVIOUS
<1>4. a \in Seq(T) /\ Len(a) = k + 1
  BY <1>1, <1>2, <1>3
<1>5. \A i \in 1..(k + 1) : a[i] = f[i]
  BY <1>1, <1>2, <1>3
<1>6. f \in Seq(T) /\ a \in Seq(T) /\ Len(f) = Len(a) /\ \A i \in 1..Len(f) : f[i] = a[i]
  BY <1>1, <1>4, <1>5
<1>7. f = a
  BY <1>6, SeqEqual
<1> QED
  BY <1>3, <1>7
(* The replay of one close more has one target more, once it is warm.      *)
LEMMA ReplayedGrows ==
  ASSUME NEW c, NEW d, NEW n \in Nat, \A i \in 1..n : c[i] = d[i]
  PROVE  /\ n + 1 > Warm => Replayed(d, n + 1) = Append(Replayed(c, n), ReplayTarget(d, n + 1))
         /\ ~(n + 1 > Warm) => Replayed(d, n + 1) = Replayed(c, n)
<1>1. Warm \in Nat
  BY WarmTyped
<1>2. /\ Replayed(c, n) = [i \in 1..Larger(0, n - Warm) |-> ReplayTarget(c, Warm + i)]
      /\ Replayed(d, n + 1) = [i \in 1..Larger(0, (n + 1) - Warm) |-> ReplayTarget(d, Warm + i)]
  BY DEF Replayed
<1>3. ASSUME n + 1 > Warm
      PROVE  Replayed(d, n + 1) = Append(Replayed(c, n), ReplayTarget(d, n + 1))
  <2>0. PICK k : k = n - Warm
    OBVIOUS
  <2>1. /\ k \in Nat /\ (n + 1) - Warm = k + 1 /\ Warm + (k + 1) = n + 1 /\ n = Warm + k
        /\ Larger(0, n - Warm) = k /\ Larger(0, (n + 1) - Warm) = k + 1
    BY <1>1, <1>3, <2>0 DEF Larger
  <2>2. \A i \in 1..k : ReplayTarget(c, Warm + i) = ReplayTarget(d, Warm + i)
    <3> SUFFICES ASSUME NEW i \in 1..k PROVE ReplayTarget(c, Warm + i) = ReplayTarget(d, Warm + i)
      OBVIOUS
    <3>1. Warm + i \in Nat /\ Warm + i >= 1 /\ \A j \in 1..(Warm + i) : j \in 1..n
      BY <1>1, <2>1
    <3>2. \A j \in 1..(Warm + i) : c[j] = d[j]
      BY <3>1
    <3> QED
      BY <3>1, <3>2, ReplayAgrees
  <2>3. Replayed(c, n) = [i \in 1..k |-> ReplayTarget(d, Warm + i)]
    BY <1>2, <2>1, <2>2
  <2>4. Replayed(d, n + 1) = [i \in 1..(k + 1) |-> ReplayTarget(d, Warm + i)]
    BY <1>2, <2>1
  <2>5. PICK f : f = [i \in 1..(k + 1) |-> ReplayTarget(d, Warm + i)]
    OBVIOUS
  <2>6. PICK g : g = [i \in 1..k |-> ReplayTarget(d, Warm + i)]
    OBVIOUS
  <2>7. Append(g, f[k + 1]) = f
    <3>1. PICK T : T = {ReplayTarget(d, Warm + i) : i \in 1..(k + 1)}
      OBVIOUS
    <3>2. \A i \in 1..(k + 1) : f[i] \in T
      BY <2>5, <3>1
    <3>3. f \in [1..(k + 1) -> T]
      BY <2>5, <3>2
    <3>4. \A i \in 1..k : i \in 1..(k + 1) /\ g[i] = f[i]
      BY <2>1, <2>5, <2>6
    <3>5. g \in [1..k -> T]
      BY <2>6, <3>2, <3>4
    <3> QED
      BY <2>1, <3>3, <3>4, <3>5, OneLonger
  <2>8. f[k + 1] = ReplayTarget(d, n + 1)
    BY <2>1, <2>5
  <2> QED
    BY <2>3, <2>4, <2>5, <2>6, <2>7, <2>8
<1>4. ASSUME ~(n + 1 > Warm) PROVE Replayed(d, n + 1) = Replayed(c, n)
  <2>1. Larger(0, n - Warm) = 0 /\ Larger(0, (n + 1) - Warm) = 0 /\ 1..0 = {}
    BY <1>1, <1>4 DEF Larger
  <2> QED
    BY <1>2, <2>1
<1> QED
  BY <1>3, <1>4

(* A bar is handled.                                                       *)
LEMMA BarDone ==
  ASSUME DeliveryInv, LiveInv, Clean, thread = "running", UNCHANGED <<topic, base>>,
         OnBar(topic[Head(hand)].bar), hand # <<>>, acking = FALSE, Done' = Done + 1
  PROVE  UpToDate'
<1> PICK n : n = Done
  OBVIOUS
<1> PICK c : c = Closings
  OBVIOUS
<1> PICK d : d = Closings'
  OBVIOUS
<1> PICK b : b = topic[Head(hand)].bar
  OBVIOUS
<1>1. /\ base \in Nat /\ base <= readTo - Len(hand) /\ UpToDate
      /\ \A i \in DOMAIN topic : IsBar(topic[i])
  BY DEF LiveInv, Clean, BarMessages
<1>2. /\ n \in Nat /\ base + n = readTo - Len(hand) /\ Head(hand) = readTo - Len(hand) + 1
      /\ readTo \in Nat /\ readTo <= Len(topic) /\ Len(hand) \in Nat /\ Len(hand) >= 1
      /\ Len(topic) \in Nat /\ DOMAIN topic = 1..Len(topic) /\ Done' = n + 1
  <2>1. InHand /\ hand \in Seq(Nat) /\ topic \in Seq(Messages) /\ Through = 0
    BY Throughs DEF DeliveryInv, InHand, FeedTypes
  <2>2. Head(hand) = readTo - Len(hand) + 1 /\ Len(hand) \in Nat /\ Len(hand) >= 1
    BY <2>1, HeadOfHand
  <2>3. n \in Nat /\ base + n = readTo - Len(hand) + Through
    BY <1>1, DoneIs
  <2>4. readTo \in Nat /\ readTo <= Len(topic) /\ Len(topic) \in Nat
    BY <2>1 DEF InHand
  <2> QED
    BY <1>1, <2>1, <2>2, <2>3, <2>4
<1>3. /\ c = [i \in 1..n |-> topic[base + i].bar.close]
      /\ d = [i \in 1..(n + 1) |-> topic[base + i].bar.close]
  <2>1. d = [i \in 1..Done' |-> topic'[base' + i].bar.close]
    BY DEF Closings
  <2> QED
    BY <1>2, <2>1 DEF Closings
<1>4. \A i \in 1..(n + 1) : base + i \in DOMAIN topic
  BY <1>1, <1>2
<1>5. \A i \in 1..(n + 1) : d[i] \in Int
  BY <1>1, <1>3, <1>4 DEF IsBar, Bar
<1>6. (\A i \in 1..n : c[i] = d[i] /\ c[i] \in Int) /\ d[n + 1] \in Int
  <2>1. n + 1 \in 1..(n + 1) /\ \A i \in 1..n : i \in 1..(n + 1)
    BY <1>2
  <2> QED
    BY <1>3, <1>5, <2>1
<1>7. b.close = d[n + 1]
  <2>1. base + (n + 1) = Head(hand) /\ n + 1 \in 1..(n + 1)
    BY <1>1, <1>2
  <2> QED
    BY <1>3, <2>1
<1>8. /\ fast' = Update(fast, d[n + 1], FastPeriod) /\ slow' = Update(slow, d[n + 1], SlowPeriod)
      /\ \/ ~Ready(fast', slow') /\ targets' = targets
         \/ /\ Ready(fast', slow')
            /\ targets' = Append(targets,
                 TargetOf(Signal(fast', slow'),
                          Scale(FastPeriod, fast'.n) * Scale(SlowPeriod, slow'.n)))
  BY <1>7 DEF OnBar, Clean
<1>9. /\ Averages(fast', d, n + 1, FastPeriod) /\ Averages(slow', d, n + 1, SlowPeriod)
  <2>1. Averages(fast, c, n, FastPeriod) /\ Averages(slow, c, n, SlowPeriod)
    BY <1>1 DEF UpToDate
  <2>2. FastPeriod \in Int /\ SlowPeriod \in Int
    BY FeedAssumption
  <2> QED
    BY <1>2, <1>6, <1>8, <2>1, <2>2, AverageMoves
<1>10. /\ fast'.n = n + 1 /\ slow'.n = n + 1
       /\ fast'.value = WeightedSum(d, n + 1, FastPeriod)
       /\ slow'.value = WeightedSum(d, n + 1, SlowPeriod)
  <2>1. n + 1 > 0
    BY <1>2
  <2> QED
    BY <1>9, <2>1 DEF Averages
<1>11. Ready(fast', slow') <=> n + 1 > Warm
  BY <1>2, <1>10, WarmTyped DEF Ready
<1>12. TargetOf(Signal(fast', slow'), Scale(FastPeriod, fast'.n) * Scale(SlowPeriod, slow'.n))
         = ReplayTarget(d, n + 1)
  BY <1>10 DEF Signal, Scale, ReplayTarget
<1>13. targets = Replayed(c, n)
  BY <1>1 DEF UpToDate
<1>14. targets' = Replayed(d, n + 1)
  <2>1. \A i \in 1..n : c[i] = d[i]
    BY <1>6
  <2>2. /\ n + 1 > Warm => Replayed(d, n + 1) = Append(Replayed(c, n), ReplayTarget(d, n + 1))
        /\ ~(n + 1 > Warm) => Replayed(d, n + 1) = Replayed(c, n)
    BY <1>2, <2>1, ReplayedGrows
  <2> QED
    BY <1>8, <1>11, <1>12, <1>13, <2>2
<1> QED
  BY <1>2, <1>9, <1>14 DEF UpToDate

(* Only bars are queued, and what is on the topic as a bar is one.         *)
LEMMA BarMessagesStep ==
  ASSUME FeedTypes, BarMessages, [FeedNext]_feedVars
  PROVE  BarMessages' /\ \A i \in DOMAIN topic : topic'[i] = topic[i]
<1>1. /\ topic \in Seq(Messages) /\ outbox \in Seq(Messages)
      /\ \A b \in Bar : IsBar(Message(b))
  BY DEF FeedTypes, IsBar, Message
<1>2. ASSUME NEW m, IsBar(m)
      PROVE  /\ \A i \in DOMAIN Append(outbox, m) : IsBar(Append(outbox, m)[i])
             /\ topic' = Append(topic, m) /\ UNCHANGED conduct =>
                  /\ \A i \in DOMAIN topic' : topic'[i].kind = "bar" => IsBar(topic'[i])
                  /\ conduct'.aliens = {} => \A i \in DOMAIN topic' : IsBar(topic'[i])
  <2>1. \A i \in DOMAIN Append(outbox, m) : IsBar(Append(outbox, m)[i])
    BY <1>1, <1>2, AppendIs DEF BarMessages
  <2>2. \A i \in DOMAIN Append(topic, m) :
          Append(topic, m)[i] = m \/ (i \in DOMAIN topic /\ Append(topic, m)[i] = topic[i])
    BY <1>1, AppendIs
  <2> QED
    BY <1>2, <2>1, <2>2 DEF BarMessages
<1>3. ASSUME NEW m, topic' = Append(topic, m) PROVE \A i \in DOMAIN topic : topic'[i] = topic[i]
  BY <1>1, <1>3, AppendIs
<1>4. CASE UNCHANGED <<outbox, topic, conduct>>
  BY <1>4 DEF BarMessages
<1>5. ASSUME NEW n \in DOMAIN conduct.ticks, NEW t \in conduct.ticks[n], OnTick(t)
      PROVE  BarMessages' /\ \A i \in DOMAIN topic : topic'[i] = topic[i]
  <2>1. conduct' = conduct /\ (NoEmit \/ (openBar # NoBar /\ Emit(openBar)))
    BY <1>5 DEF OnTick
  <2>2. CASE NoEmit
    BY <1>4, <2>1, <2>2 DEF NoEmit
  <2>3. CASE openBar # NoBar /\ Emit(openBar)
    <3>1. IsBar(Message(openBar))
      BY <1>1, <2>3 DEF FeedTypes
    <3>2. \/ UNCHANGED <<outbox, topic>>
          \/ topic' = Append(topic, Message(openBar)) /\ UNCHANGED outbox
          \/ outbox' = Append(outbox, Message(openBar)) /\ UNCHANGED topic
      BY <2>3 DEF Emit
    <3>3. CASE UNCHANGED <<outbox, topic>>
      BY <1>4, <2>1, <3>3
    <3>4. CASE topic' = Append(topic, Message(openBar)) /\ UNCHANGED outbox
      BY <1>2, <1>3, <2>1, <3>1, <3>4 DEF BarMessages
    <3>5. CASE outbox' = Append(outbox, Message(openBar)) /\ UNCHANGED topic
      BY <1>2, <2>1, <3>1, <3>5 DEF BarMessages
    <3> QED
      BY <3>2, <3>3, <3>4, <3>5
  <2> QED
    BY <2>1, <2>2, <2>3
<1>6. CASE RestartFeed
  BY <1>6 DEF RestartFeed, BarMessages
<1>7. CASE Deliver
  <2>1. /\ outbox # <<>> /\ outbox' = Tail(outbox) /\ conduct' = conduct
        /\ topic' = Append(topic, Head(outbox)) \/ UNCHANGED topic
    BY <1>7 DEF Deliver
  <2>2. /\ Head(outbox) = outbox[1] /\ 1 \in DOMAIN outbox
        /\ \A i \in DOMAIN Tail(outbox) : i + 1 \in DOMAIN outbox /\ Tail(outbox)[i] = outbox[i + 1]
    BY <1>1, <2>1, HeadTailProperties
  <2>3. IsBar(Head(outbox)) /\ \A i \in DOMAIN outbox' : IsBar(outbox'[i])
    BY <2>1, <2>2 DEF BarMessages
  <2>4. CASE UNCHANGED topic
    BY <2>1, <2>3, <2>4 DEF BarMessages
  <2>5. CASE topic' = Append(topic, Head(outbox))
    BY <1>2, <1>3, <2>1, <2>3, <2>5 DEF BarMessages
  <2> QED
    BY <2>1, <2>4, <2>5
<1>8. ASSUME NEW kind \in {"garbled", "unfit"}, PublishAlien(kind)
      PROVE  BarMessages' /\ \A i \in DOMAIN topic : topic'[i] = topic[i]
  <2> DEFINE m == [kind |-> kind, bar |-> NoBar]
  <2>1. /\ kind \in conduct.aliens /\ topic' = Append(topic, m) /\ UNCHANGED <<outbox, conduct>>
        /\ m.kind # "bar"
    BY <1>8 DEF PublishAlien, market
  <2> HIDE DEF m
  <2>2. \A i \in DOMAIN topic' : topic'[i].kind = "bar" => IsBar(topic'[i])
    BY <1>1, <2>1, AppendIs DEF BarMessages
  <2> QED
    BY <1>3, <2>1, <2>2 DEF BarMessages
<1>9. Start \/ ConsumerStep \/ RedisRaises \/ AutoCommit \/ Stop \/ Exit \/ Crash
        \/ UNCHANGED feedVars
      => UNCHANGED <<outbox, topic, conduct>>
  BY DEF Start, ConsumerStep, Assign, Fetch, Handle, Ack, RedisRaises, AutoCommit, Stop, Exit,
         Crash, Down, market, feedVars
<1> QED
  BY <1>4, <1>5, <1>6, <1>7, <1>8, <1>9 DEF FeedNext, FeedStep

LEMMA InitLive == FeedInit => LiveInv
<1> SUFFICES ASSUME FeedInit PROVE LiveInv
  OBVIOUS
<1>1. DOMAIN outbox = {} /\ DOMAIN topic = {}
  BY DEF FeedInit
<1> QED
  BY <1>1 DEF FeedInit, LiveInv, BarMessages

(* The first message in hand: one that is no bar, on a topic with aliens;  *)
(* or a bar, after which one more is done.                                 *)
LEMMA HandleLive ==
  ASSUME DeliveryInv, LiveInv, BarMessages', Handle
  PROVE  LiveInv'
<1>1. /\ hand # <<>> /\ acking = FALSE /\ thread = "running"
      /\ base \in Nat /\ base <= readTo - Len(hand) /\ readTo \in Nat /\ readTo <= Len(topic)
      /\ Len(hand) \in Nat /\ Len(hand) >= 1 /\ Len(Tail(hand)) = Len(hand) - 1
      /\ Head(hand) = readTo - Len(hand) + 1
  <2>1. InHand /\ hand # <<>> /\ acking = FALSE /\ thread = "running" /\ hand \in Seq(Nat)
    BY DEF DeliveryInv, InHand, Handle
  <2>2. base \in Nat /\ base <= readTo - Len(hand) /\ readTo \in Nat /\ readTo <= Len(topic)
    BY <2>1 DEF LiveInv, InHand
  <2>3. Len(hand) \in Nat /\ Len(hand) >= 1
    BY <2>1
  <2> QED
    BY <2>1, <2>2, <2>3, HeadOfHand
<1>2. Head(hand) \in DOMAIN topic
  <2>1. Len(topic) \in Nat /\ DOMAIN topic = 1..Len(topic)
    BY DEF DeliveryInv, FeedTypes
  <2> QED
    BY <1>1, <2>1
<1>3. UNCHANGED <<topic, base, readTo, conduct>> /\ Clean' = Clean
  BY DEF Handle, Clean
<1>4. \A i \in DOMAIN topic : topic'[i] = topic[i]
  BY <1>3
<1>5. CASE topic[Head(hand)].kind # "bar"
  <2>1. ~Clean
    BY <1>2, <1>5 DEF Clean, LiveInv, BarMessages, IsBar
  <2>2. /\ UNCHANGED <<fast, slow, targets>>
        /\ \/ thread' = "dead"
           \/ thread' = thread /\ hand' = Tail(hand)
    BY <1>5 DEF Handle, strategy
  <2>3. thread' = thread \/ thread' \notin {"joining", "running"}
    BY <2>2
  <2>4. thread' = "running" => base <= readTo' - Len(hand')
    BY <1>1, <1>3, <2>2
  <2> QED
    BY <1>3, <1>4, <2>1, <2>2, <2>3, <2>4, StillUpToDate
<1>6. CASE topic[Head(hand)].kind = "bar"
  <2>1. /\ OnBar(topic[Head(hand)].bar) /\ thread' = thread
        /\ IF Redis THEN acking' = TRUE /\ UNCHANGED hand
                    ELSE hand' = Tail(hand) /\ UNCHANGED acking
    BY <1>6 DEF Handle
  <2>2. /\ Done = readTo - Len(hand) - base
        /\ Len(hand') \in Nat /\ base <= readTo' - Len(hand') /\ Done' = Done + 1
    <3>1. Done = readTo - Len(hand) - base + 0
      BY <1>1 DEF Done
    <3>2. CASE Redis
      <4>1. Done' = readTo - Len(hand) - base + 1 /\ hand' = hand
        BY <1>3, <2>1, <3>2 DEF Done
      <4> QED
        BY <1>1, <1>3, <3>1, <4>1
    <3>3. CASE ~Redis
      <4>1. Done' = readTo - Len(Tail(hand)) - base + 0 /\ hand' = Tail(hand)
        BY <1>1, <1>3, <2>1, <3>3 DEF Done
      <4> QED
        BY <1>1, <1>3, <3>1, <4>1
    <3> QED
      BY <3>2, <3>3
  <2>3. Clean => UpToDate'
    BY <1>1, <1>3, <2>1, <2>2, BarDone
  <2> QED
    BY <1>1, <1>3, <2>1, <2>2, <2>3 DEF LiveInv
<1> QED
  BY <1>5, <1>6

LEMMA WhatIsLeft ==
  ASSUME NEW x \in Int, NEW y \in Int, NEW z, z = x - y
  PROVE  x - z = y
OBVIOUS

LEMMA LiveStep == DeliveryInv /\ LiveInv /\ [FeedNext]_feedVars => LiveInv'
<1> SUFFICES ASSUME DeliveryInv, LiveInv, [FeedNext]_feedVars PROVE LiveInv'
  OBVIOUS
<1>1. BarMessages' /\ \A i \in DOMAIN topic : topic'[i] = topic[i]
  BY BarMessagesStep DEF DeliveryInv, LiveInv
<1>2. /\ hand \in Seq(Nat) /\ Len(hand) \in Nat /\ readTo \in Nat
      /\ hand = <<>> => acking = FALSE
      /\ thread # "running" => hand = <<>>
      /\ proc = "down" => thread = "none"
      /\ thread = "running" => base \in Nat /\ base <= readTo - Len(hand)
  <2>1. acking \in BOOLEAN /\ (acking => hand # <<>>)
    BY DEF DeliveryInv, InHand
  <2>2. hand = <<>> => acking = FALSE
    BY <2>1
  <2>3. /\ hand \in Seq(Nat) /\ readTo \in Nat
        /\ thread # "running" => hand = <<>>
        /\ proc = "down" => thread = "none"
        /\ thread = "running" => base \in Nat /\ base <= readTo - Len(hand)
    BY DEF DeliveryInv, InHand, LiveInv
  <2>4. Len(hand) \in Nat
    BY <2>3
  <2> QED
    BY <2>2, <2>3, <2>4
<1>3. ASSUME UNCHANGED <<consumer, fast, slow, targets, conduct>> PROVE LiveInv'
  <2>1. UNCHANGED <<thread, hand, readTo, acking, base>> /\ Done' = Done
    BY <1>3 DEF consumer, Done
  <2> QED
    BY <1>1, <1>2, <1>3, <2>1, StillUpToDate
<1>4. CASE \/ FeedStep \/ Deliver \/ \E kind \in {"garbled", "unfit"} : PublishAlien(kind)
           \/ UNCHANGED feedVars
  <2>1. UNCHANGED <<consumer, strategy, conduct>>
    BY <1>4 DEF FeedStep, OnTick, RestartFeed, Deliver, PublishAlien, feedVars
  <2> QED
    BY <1>3, <2>1 DEF strategy
<1>5. CASE Start
  <2>1. /\ thread = "none" /\ hand = <<>> /\ acking = FALSE
        /\ fast' = Fresh /\ slow' = Fresh /\ targets' = <<>> /\ UNCHANGED <<hand, acking, conduct>>
        /\ \/ thread' = "joining"
           \/ readTo' \in {Len(topic), readTo} /\ base' = readTo'
    <3>1. thread = "none" /\ UNCHANGED <<hand, acking, conduct>>
      BY <1>2, <1>5 DEF Start
    <3>2. hand = <<>> /\ acking = FALSE
      BY <1>2, <3>1
    <3>3. /\ fast' = Fresh /\ slow' = Fresh /\ targets' = <<>>
          /\ \/ thread' = "joining"
             \/ readTo' \in {Len(topic), readTo} /\ base' = readTo'
      BY <1>5 DEF Start
    <3> QED
      BY <3>1, <3>2, <3>3
  <2>2. thread' = "running" => readTo' \in Nat /\ base' = readTo'
    <3>1. Len(topic) \in Nat
      BY DEF DeliveryInv, FeedTypes
    <3> QED
      BY <1>2, <2>1, <3>1
  <2> QED
    BY <1>1, <2>1, <2>2, Begins
<1>6. CASE Assign
  <2>1. /\ hand = <<>> /\ acking = FALSE /\ fast = Fresh /\ slow = Fresh /\ targets = <<>>
        /\ UNCHANGED <<hand, acking, fast, slow, targets, conduct>> /\ base' = readTo'
        /\ readTo' = IF committed = Unset THEN Len(topic) ELSE committed
    <3>1. thread = "joining" /\ UNCHANGED <<hand, acking, fast, slow, targets, conduct>>
      BY <1>6 DEF Assign, strategy
    <3>2. hand = <<>> /\ acking = FALSE
      BY <1>2, <3>1
    <3>3. fast = Fresh /\ slow = Fresh /\ targets = <<>>
      BY <3>1 DEF LiveInv
    <3>4. base' = readTo' /\ readTo' = IF committed = Unset THEN Len(topic) ELSE committed
      BY <1>6 DEF Assign
    <3> QED
      BY <3>1, <3>2, <3>3, <3>4
  <2>2. readTo' \in Nat
    <3>1. Len(topic) \in Nat /\ (committed # Unset => committed \in Nat)
      BY DEF DeliveryInv, FeedTypes, InHand
    <3> QED
      BY <2>1, <3>1
  <2> QED
    BY <1>1, <2>1, <2>2, Begins
<1>7. CASE Fetch
  <2>1. /\ thread = "running" /\ hand = <<>> /\ acking = FALSE
        /\ UNCHANGED <<thread, base, acking, fast, slow, targets, conduct>>
    BY <1>2, <1>7 DEF Fetch, strategy
  <2>2. readTo' - Len(hand') = readTo /\ Len(hand') \in Nat /\ readTo' \in Nat /\ Len(hand) = 0
    <3>1. readTo < Len(topic) /\ Len(topic) \in Nat /\ BatchSize \in Nat
          /\ readTo' = Smaller(readTo + (IF Redis THEN BatchSize ELSE 1), Len(topic))
          /\ hand' = [i \in 1..(readTo' - readTo) |-> readTo + i]
      BY <1>7, FeedAssumption DEF Fetch, DeliveryInv, FeedTypes
    <3>2. readTo' \in Nat /\ readTo <= readTo'
      <4>1. PICK more : more = IF Redis THEN BatchSize ELSE 1
        OBVIOUS
      <4>2. more \in Nat
        BY <3>1, <4>1
      <4>3. readTo' = Smaller(readTo + more, Len(topic))
        BY <3>1, <4>1
      <4> QED
        BY <1>2, <3>1, <4>2, <4>3 DEF Smaller
    <3>3. readTo' - readTo \in Nat
      <4>1. \A x, y \in Nat : x <= y => y - x \in Nat
        OBVIOUS
      <4> QED
        BY <1>2, <3>2, <4>1
    <3>4. Len(hand') = readTo' - readTo
      BY <3>1, <3>3
    <3>5. Len(hand) = 0
      BY <2>1, NothingInHand
    <3>6. readTo' - Len(hand') = readTo
      <4>1. readTo' \in Int /\ readTo \in Int
        BY <1>2, <3>2
      <4> QED
        BY <3>4, <4>1, WhatIsLeft
    <3> QED
      BY <3>2, <3>3, <3>4, <3>5, <3>6
  <2>3. Done' = Done /\ base <= readTo' - Len(hand')
    <3>1. Done = readTo - Len(hand) - base + 0 /\ Done' = readTo' - Len(hand') - base + 0
      BY <2>1 DEF Done
    <3> QED
      BY <1>2, <2>1, <2>2, <3>1
  <2> QED
    BY <1>1, <2>1, <2>3, StillUpToDate
<1>8. CASE Handle
  BY <1>1, <1>8, HandleLive
<1>9. CASE Ack
  <2>1. /\ thread = "running" /\ acking = TRUE /\ acking' = FALSE /\ hand # <<>>
        /\ UNCHANGED <<thread, base, readTo, fast, slow, targets, conduct>> /\ hand' = Tail(hand)
    BY <1>2, <1>9 DEF Ack, strategy
  <2>2. Len(hand') = Len(hand) - 1 /\ Len(hand) >= 1
    BY <1>2, <2>1
  <2>3. Done' = Done /\ base <= readTo' - Len(hand')
    <3>1. Done = readTo - Len(hand) - base + 1 /\ Done' = readTo - Len(hand') - base + 0
      BY <2>1 DEF Done
    <3> QED
      BY <1>2, <2>1, <2>2, <3>1
  <2> QED
    BY <1>1, <2>1, <2>3, StillUpToDate
<1>10. CASE RedisRaises \/ Exit \/ Crash
  <2>1. thread' \notin {"joining", "running"} /\ UNCHANGED <<base, fast, slow, targets, conduct>>
    BY <1>10 DEF RedisRaises, Exit, Crash, Down, strategy
  <2> QED
    BY <1>1, <2>1, StillUpToDate
<1>11. CASE AutoCommit \/ Stop
  <2>1. UNCHANGED <<thread, base, readTo, hand, acking, fast, slow, targets, conduct>>
    BY <1>11 DEF AutoCommit, Stop, strategy
  <2>2. Done' = Done
    BY <2>1 DEF Done
  <2> QED
    BY <1>1, <1>2, <2>1, <2>2, StillUpToDate
<1> QED
  BY <1>4, <1>5, <1>6, <1>7, <1>8, <1>9, <1>10, <1>11 DEF FeedNext, ConsumerStep

(* LiveIsBacktest: while nothing fails, a life of the strategy service     *)
(* publishes the targets a replay of the same bars computes, whatever the  *)
(* bus, the batches and the restarts.                                      *)
THEOREM LiveEqualsBacktest == FeedSpec => []LiveIsBacktest
<1>1. LiveInv => LiveIsBacktest
  BY DEF LiveInv, Clean, UpToDate, Replayed, Closings, LiveIsBacktest
<1> QED
  BY <1>1, InitLive, LiveStep, DeliveryInvariant, PTL DEF FeedSpec

=============================================================================
