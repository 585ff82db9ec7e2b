-------------------------------- MODULE MCEMSX --------------------------------
(* Small instances of EMSXExecution, with its refinement, for TLC.         *)
EXTENDS EMSXPipeline

MCLong  == {2}

(* The keys of purchases, which the refinement watches.                    *)
MCKeys == [bar : 1..MaxBar, side : {1}, qty : 1..2]

MCConduct(early, spaced, topics) ==
  [early |-> early, spaced |-> spaced, topics |-> topics]

(* The conducts a run considers.                                           *)
MCAny   == {MCConduct(TRUE, FALSE, {"route"})}
MCOrderly     == {MCConduct(FALSE, FALSE, {"route"})}
MCAll         == {MCConduct(FALSE, TRUE, Topics)} \cup MCAny \cup MCOrderly
=============================================================================
