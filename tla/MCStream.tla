------------------------------- MODULE MCStream -------------------------------
(* Small instances of StreamDelivery for TLC, under any settings.          *)
EXTENDS StreamDelivery

MCAny == [wildcard : BOOLEAN, raises : BOOLEAN, fails : BOOLEAN, malformed : {{}, {2}}]
=============================================================================
