------------------------------- MODULE MCArchive -------------------------------
(* Small instances of Archive for TLC: a producer whose bus flaps or whose *)
(* Redis fails before a quiet archiver, and the reverse.                   *)
EXTENDS Archive

MCConduct(flap, drained, redisFails, diskFails, ends) ==
  [flaps |-> flap, drained |-> drained, redisFails |-> redisFails,
   diskFails |-> diskFails, ends |-> ends]

MCConducts ==
  { MCConduct(TRUE, TRUE, TRUE, FALSE, "never"),
    MCConduct(TRUE, FALSE, FALSE, FALSE, "never"),
    MCConduct(FALSE, TRUE, FALSE, TRUE, "close"),
    MCConduct(FALSE, TRUE, FALSE, TRUE, "crash") }
=============================================================================
