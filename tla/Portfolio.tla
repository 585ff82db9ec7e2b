------------------------------- MODULE Portfolio -------------------------------
(***************************************************************************)
(* The books of futures_emsx_strategy and who keeps them: PositionBook and *)
(* PnLCalculator (portfolio/positions.py, pnl.py), which on_fill moves one *)
(* after the other, the positions table it writes last, from what it reads *)
(* back of the first (on one thread or two, see AutoRoute), the warm start *)
(* of app/wiring.py that reads the table into one book and not into the    *)
(* other, and the reconciler (app/run_reconciler.py), a process that reads *)
(* the table when it starts and compares what it read with what a file     *)
(* says of the broker's positions from then on.  The broker and who writes *)
(* the file are external.  One instrument.  Prices are integers; average   *)
(* costs and profits are exact fractions, for the code's floats.           *)
(***************************************************************************)
EXTENDS Integers

CONSTANTS
  Prices,     \* prices of fills and marks
  PointValue

ASSUME PortfolioAssumption == Prices \subseteq Nat \ {0} /\ PointValue \in Nat \ {0}

VARIABLES
  book,    \* PositionBook: quantity and average cost
  pnl,     \* PnLCalculator: the same, and what is realized
  stored,  \* table positions
  traded,  \* history: quantity and cash of the fills in pnl
  broker,  \* quantity of all fills so far
  statement, \* load_external: the quantity in the file, 0 without one
  auditor  \* the reconciler: the quantity it read, its last verdict, whether
           \* the table was written after it was read, and whether the
           \* statement was the broker's position at the last verdict

books == <<book, pnl, stored, traded, broker, statement, auditor>>

-----------------------------------------------------------------------------
(* Fractions, in lowest terms and with a positive denominator.             *)
Magnitude(n) == IF n < 0 THEN -n ELSE n
Gcd(m, n) ==
  CHOOSE d \in 1..(m + n) : /\ m % d = 0 /\ n % d = 0
                            /\ \A e \in (d + 1)..(m + n) : m % e # 0 \/ n % e # 0
Frac(n, d) ==
  LET g    == Gcd(Magnitude(n), Magnitude(d))
      sign == IF d < 0 THEN -1 ELSE 1
  IN  [num |-> (sign * n) \div g, den |-> Magnitude(d) \div g]
Whole(n) == [num |-> n, den |-> 1]
Plus(a, b)  == Frac(a.num * b.den + b.num * a.den, a.den * b.den)
Times(n, a) == Frac(n * a.num, a.den)
Minus(a, b) == Plus(a, Times(-1, b))
Over(a, n)  == Frac(a.num, a.den * n)

Flat == [qty |-> 0, avg |-> Whole(0)]

SameSide(m, n) == m = 0 \/ (m > 0) = (n > 0)
Crosses(m, n)  == (m > 0) # (n > 0)

Blend(row, signed, price) ==
  Over(Plus(Times(row.qty, row.avg), Whole(price * signed)), row.qty + signed)

(* PositionBook.apply_fill                                                 *)
BookFill(row, signed, price) ==
  LET qty == row.qty + signed
      avg == CASE qty = 0 -> Whole(0)
               [] qty # 0 /\ SameSide(row.qty, signed) -> Blend(row, signed, price)
               [] qty # 0 /\ ~SameSide(row.qty, signed) ->
                    IF Crosses(row.qty, qty) THEN Whole(price) ELSE row.avg
  IN  [qty |-> qty, avg |-> avg]

(* Fault: a flip realizes the profit of the whole fill.                    *)
ClosedFault(qty, signed) == Magnitude(signed)
(* The part of a fill that closes.                                         *)
Closed(qty, signed) ==
  IF Magnitude(qty) < Magnitude(signed) THEN Magnitude(qty) ELSE Magnitude(signed)

(* PnLCalculator.apply_fill                                                *)
PnlFill(row, signed, price) ==
  LET qty     == row.qty + signed
      opens   == SameSide(row.qty, signed)
      perUnit == Times(IF row.qty > 0 THEN 1 ELSE -1, Minus(Whole(price), row.avg))
  IN  [qty |-> qty,
       avg |-> CASE opens /\ qty # 0 -> Blend(row, signed, price)
                 [] qty = 0 -> Whole(0)
                 [] ~opens /\ qty # 0 ->
                      IF Crosses(row.qty, qty) THEN Whole(price) ELSE row.avg,
       realized |->
         IF opens THEN row.realized
         ELSE Plus(row.realized, Times(PointValue * Closed(row.qty, signed), perUnit))]

(* PnLCalculator.snapshot: realized and unrealized at a mark.              *)
Total(row, mark) ==
  Plus(row.realized, Times(PointValue * row.qty, Minus(Whole(mark), row.avg)))

-----------------------------------------------------------------------------
NoPnl == [qty |-> 0, avg |-> Whole(0), realized |-> Whole(0)]

PortfolioInit ==
  /\ book = Flat /\ pnl = NoPnl /\ stored = Flat
  /\ traded = [qty |-> 0, cash |-> 0] /\ broker = 0
  /\ statement = 0
  /\ auditor = [on |-> FALSE, qty |-> 0, says |-> "nothing", overtaken |-> FALSE,
                current |-> FALSE]

(* on_fill: positions.apply_fill, pnl.apply_fill ...                       *)
BookPosition(signed, price) ==
  /\ book' = BookFill(book, signed, price)
  /\ UNCHANGED <<pnl, stored, traded, broker, statement, auditor>>

BookPnl(signed, price) ==
  /\ pnl' = PnlFill(pnl, signed, price)
  /\ traded' = [qty |-> traded.qty + signed, cash |-> traded.cash - signed * price]
  /\ UNCHANGED <<book, stored, broker, statement, auditor>>

(* Fault: the row is not written once the position is flat.                *)
StoreFault(row) ==
  /\ stored' = IF row.qty = 0 THEN stored ELSE row
  /\ auditor' = [auditor EXCEPT !.overtaken = auditor.on]
  /\ UNCHANGED <<book, pnl, traded, broker, statement>>

(* ... and position_repo.upsert.                                           *)
Store(row) ==
  /\ stored' = row
  /\ auditor' = [auditor EXCEPT !.overtaken = auditor.on]
  /\ UNCHANGED <<book, pnl, traded, broker, statement>>

(* build_services: the PositionBook is restored, the profit is not.        *)
WarmRestart ==
  /\ book' = stored /\ pnl' = NoPnl
  /\ traded' = [qty |-> 0, cash |-> 0]
  /\ UNCHANGED <<stored, broker, statement, auditor>>

(* External: the file of --external-positions is written.                  *)
WriteStatement ==
  /\ statement' = broker
  /\ UNCHANGED <<book, pnl, stored, traded, broker, auditor>>

(* run_reconciler starts: build_services restores its PositionBook ...     *)
StartReconciler ==
  /\ ~auditor.on
  /\ auditor' = [on |-> TRUE, qty |-> stored.qty, says |-> "nothing",
                 overtaken |-> FALSE, current |-> FALSE]
  /\ UNCHANGED <<book, pnl, stored, traded, broker, statement>>

(* ... and each pass compares it with what the file says by then: nothing, *)
(* if there is none or the option is not given.                            *)
Compare ==
  /\ auditor.on
  /\ auditor' = [auditor EXCEPT !.says = IF statement = auditor.qty THEN "ok" ELSE "break",
                                !.current = (statement = broker)]
  /\ UNCHANGED <<book, pnl, stored, traded, broker, statement>>

StopReconciler ==
  /\ auditor.on
  /\ auditor' = [auditor EXCEPT !.on = FALSE, !.says = "nothing"]
  /\ UNCHANGED <<book, pnl, stored, traded, broker, statement>>

-----------------------------------------------------------------------------
(* Realized and unrealized profit at any mark are the cash of the fills    *)
(* plus their quantity at that mark, over partial closes, flips and fills  *)
(* of both sides: averaging and realizing neither lose nor create money.   *)
ProfitIsMarkedCash ==
  \A mark \in Prices :
    Total(pnl, mark) = Whole(PointValue * (traded.cash + traded.qty * mark))

=============================================================================
