------------------------------ MODULE MCAutoRoute ------------------------------
(* Small instances of AutoRoute for TLC.                                   *)
EXTENDS AutoRoute

MCConduct(app, targets, maxQty, maxPosition, maxFills) ==
  [app |-> app, targets |-> targets, maxQty |-> maxQty, maxPosition |-> maxPosition,
   maxFills |-> maxFills, prices |-> IF maxQty = 1 THEN {1} ELSE Prices,
   steady |-> TRUE, spaced |-> TRUE, refuses |-> FALSE, stops |-> FALSE,
   crashes |-> FALSE, restarts |-> FALSE, audited |-> FALSE]

(* Sessions of unit orders that race, fail, end and start again ...        *)
MCUnit == MCConduct("route", {0, 1}, 1, 1, 2)
(* ... and orders of several lots that open, close in part and flip, at    *)
(* two prices, filled in parts by EMSX or at once on paper, on one thread  *)
(* or on two.                                                              *)
MCTrader == MCConduct("route", {-2, 1}, 3, 2, 9)
MCPaper  == MCConduct("local", {-2, -1, 1}, 3, 2, 0)
MCConducts ==
  { MCTrader,
    [MCUnit EXCEPT !.stops = TRUE, !.refuses = TRUE],
    [MCUnit EXCEPT !.steady = FALSE, !.spaced = FALSE, !.stops = TRUE],
    [MCUnit EXCEPT !.maxFills = 1, !.restarts = TRUE, !.audited = TRUE],
    [MCUnit EXCEPT !.app = "stage", !.stops = TRUE, !.crashes = TRUE, !.restarts = TRUE,
                   !.refuses = TRUE],
    [MCPaper EXCEPT !.app = "paper", !.targets = {-1, 1}, !.stops = TRUE,
                    !.refuses = TRUE],
    [MCPaper EXCEPT !.app = "paper", !.targets = {-1, 2}, !.stops = TRUE, !.steady = FALSE,
                    !.spaced = FALSE],
    [MCPaper EXCEPT !.refuses = TRUE, !.stops = TRUE],
    [MCPaper EXCEPT !.targets = {-1, 1}, !.crashes = TRUE, !.restarts = TRUE, !.audited = TRUE] }
=============================================================================
