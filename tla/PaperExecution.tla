--------------------------- MODULE PaperExecution ---------------------------
(***************************************************************************)
(* The execution service over execution/paper_adapter.py: submit_order     *)
(* fills the order at once, calling the callbacks synchronously on the     *)
(* bus thread.  A crash may fall between any two of its steps, and what a  *)
(* callback raises leaves submit_order and on_target where they are.       *)
(***************************************************************************)
EXTENDS ExecutionRunner

vars == runnerVars

Init == RunnerInit

(* submit_order, no mark: REJECTED is pushed, the ack is not accepted.     *)
SubmitNoMark ==
  /\ pc["bus"] = "submit"
  /\ OnExecutionUpdate(intent, "REJECTED", 0)
  /\ accepted' = FALSE
  /\ Goto("bus", "finish")
  /\ UNCHANGED <<feed, position, registered, durable, decision, intent, readPos>>

(* submit_order with a mark: SENT ...                                      *)
SubmitSent ==
  /\ pc["bus"] = "submit"
  /\ OnExecutionUpdate(intent, "SENT", intent.qty)
  /\ Goto("bus", "fill")
  /\ UNCHANGED <<feed, position, registered, durable, locals>>

(* ... the whole quantity filled, then persisted (read, write) ...         *)
SubmitFill ==
  /\ pc["bus"] = "fill"
  /\ OnFill(intent, intent.side * intent.qty)
  /\ Goto("bus", "read")
  /\ UNCHANGED <<feed, working, registered, claimed, dbPosition, locals>>

(* ... and FILLED; the ack is accepted.                                    *)
SubmitFilled ==
  /\ pc["bus"] = "filled"
  /\ OnExecutionUpdate(intent, "FILLED", 0)
  /\ accepted' = TRUE
  /\ Goto("bus", "finish")
  /\ UNCHANGED <<feed, position, registered, durable, decision, intent, readPos>>

Submit == SubmitNoMark \/ SubmitSent \/ SubmitFill \/ SubmitFilled

(* The next call raises: publish in a callback before the books move, the  *)
(* upsert of the position, or a call of on_target.  The bus catches it.    *)
CallRaises ==
  /\ pc["bus"] \in OnTargetMayRaise \cup {"fill", "write", "filled"}
  /\ Raise
  /\ Goto("bus", "idle")
  /\ UNCHANGED <<books, durable, locals>>

(* The insert into the fills table raises.                                 *)
InsertRaises ==
  /\ pc["bus"] = "fill"
  /\ Raise
  /\ OnFillUnstored(intent, intent.side * intent.qty)
  /\ Goto("bus", "idle")
  /\ UNCHANGED <<working, registered, claimed, dbPosition, locals>>

BusStep ==
  \/ ReadWorking \/ Validate \/ ClaimAndRegister \/ Submit \/ Finish
  \/ ReadPosition("bus") \/ WritePosition("bus", "filled")
  \/ CallRaises \/ InsertRaises

Next == OnTarget \/ BusStep \/ Restart

Spec == Init /\ [][Next]_vars

-----------------------------------------------------------------------------
FilledQty(rows)  == MapThenSumSet(LAMBDA i : dbFills[i].side * dbFills[i].qty, rows)
SignedQty(fills) == MapThenSumSet(LAMBDA k : k.side * k.qty, fills)

(* The position limit holds for the book and for what was persisted: the   *)
(* check uses the position alone, which is enough while nothing is working *)
(* that may still fill when a target is handled (risk/pre_trade.py         *)
(* max_position).                                                          *)
PositionWithinLimit == Abs(position) <= MaxPosition /\ Abs(dbPosition) <= MaxPosition

(* An order that filled takes the position, with what the working book     *)
(* says is still to come, exactly to the target of its bar: redeliveries   *)
(* and restarts never add to it.  Until a call raises nothing is left in   *)
(* the working book and the position is the target itself; after it, the   *)
(* order that was left half way stays there for good, and the next target  *)
(* is netted with it.                                                      *)
TargetReached ==
  pc["bus"] = "finish" /\ accepted =>
    /\ position + NetWorking = targetOf[intent.bar]
    /\ raises = 0 => position = targetOf[intent.bar]

(* Between targets the stored position is the sum of the stored fills, but *)
(* for one fill for each crash or raise at most: a fill stored and not     *)
(* counted (the upsert did not come or raised), or counted and not stored  *)
(* (the insert raised).  app/wiring.py:126 has such fills replayed by the  *)
(* venue or found by the reconciler; on paper there is no venue to replay  *)
(* them, and no statement to compare with: they stay missing.              *)
StoredPositionAccounted ==
  pc["bus"] = "idle" =>
    \E lost \in SUBSET DOMAIN dbFills, extra \in SUBSET unstored :
      /\ Cardinality(lost) + Cardinality(extra) <= crashes + raises
      /\ dbPosition = FilledQty(DOMAIN dbFills \ lost) + SignedQty(extra)

=============================================================================
