------------------------------ MODULE MCRiskGate ------------------------------
(* A small instance of RiskGate for TLC: three orders of which two exceed  *)
(* the position limit and the third, with a limit price, exceeds nothing,  *)
(* and every kind of backlog and of start.                                 *)
EXTENDS RiskGate, TLC

CONSTANTS o1, o2, o3

MCOrders == {o1, o2, o3}
MCQty == (o1 :> 2) @@ (o2 :> 2) @@ (o3 :> -1)

MCLimitPrice == (o1 :> NoPrice) @@ (o2 :> NoPrice) @@ (o3 :> 3)

New(e)    == [what |-> e, marked |-> FALSE]
Marked(e) == [what |-> e, marked |-> TRUE]

(* Orders sent one after the other, to a gate that starts with the account *)
(* in some position.                                                       *)
Spaced(sent, held, told) ==
  [backlog |-> <<>>, sent |-> sent, spaced |-> TRUE, fails |-> FALSE,
   malformed |-> {}, held |-> held, told |-> told]

Unspaced(backlog, sent, fails, malformed) ==
  [backlog |-> backlog, sent |-> sent, spaced |-> FALSE, fails |-> fails,
   malformed |-> malformed, held |-> 0, told |-> FALSE]

MCConducts ==
  { Spaced(MCOrders, 0, FALSE),
    Spaced({o1, o3}, 2, FALSE),
    Spaced({o1, o3}, 2, TRUE),
    Unspaced(<<>>, {o1, o2}, TRUE, {o2}),
    Unspaced(<<Marked(o1), New(o2)>>, {o3}, FALSE, {o3}),
    Unspaced(<<New(Rejection), New(Rejection)>>, {o1}, FALSE, {}),
    Unspaced(<<Marked(Rejection)>>, {o1, o2}, TRUE, {}) }
=============================================================================
