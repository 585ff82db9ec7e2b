------------------------------ MODULE MCGateway ------------------------------
(* Small instances of GatewayFills for TLC.                                *)
EXTENDS GatewayFills

(* The environments the run considers: any.                                *)
MCAny == [batches : BOOLEAN, late : BOOLEAN, fails : BOOLEAN]
=============================================================================
