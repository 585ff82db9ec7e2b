------------------------------ MODULE MCPipeline ------------------------------
(* Three processes racing for two keys.                                    *)
EXTENDS IntentPipeline

=============================================================================
