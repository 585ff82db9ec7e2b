------------------------------ MODULE BarBuilder ------------------------------
(***************************************************************************)
(* What MinuteBarBuilder, market_data/bar_builder.py, computes: the bar a  *)
(* tick falls into and how it changes it.  A tick has a minute, a price    *)
(* (NoPrice if it has no last price and not both of bid and ask) and a     *)
(* volume.  BarFeed says when.                                             *)
(***************************************************************************)
EXTENDS Integers

CONSTANTS
  Hour,     \* minutes of an hour
  NoPrice,
  NoBar     \* no bar is open

ASSUME BuilderAssumption == Hour \in Nat \ {0}

Larger(a, b)  == IF a > b THEN a ELSE b
Smaller(a, b) == IF a < b THEN a ELSE b

(* _floor: blocks of `interval` minutes, counted from the full hour.       *)
BarStart(t, interval) ==
  LET inHour == t.minute % Hour
  IN  t.minute - inHour + (inHour \div interval) * interval

OpenBar(t, interval) ==
  [start |-> BarStart(t, interval), open |-> t.price, high |-> t.price,
   low |-> t.price, close |-> t.price, volume |-> t.volume]

(* _OpenBar.update                                                         *)
Merge(bar, t) ==
  [bar EXCEPT !.high = Larger(@, t.price), !.low = Smaller(@, t.price),
              !.close = t.price, !.volume = @ + t.volume]

(* Fault: a late tick opens a bar of its own.                              *)
ClosesFault(bar, t, interval) == BarStart(t, interval) # bar.start
(* Only a tick of a later bar closes the open one; a late tick is merged   *)
(* into it.                                                                *)
Closes(bar, t, interval) == BarStart(t, interval) > bar.start

=============================================================================
