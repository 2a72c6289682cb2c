---------------------------- MODULE MCConnection ----------------------------
(***************************************************************************)
(* Model-checking instance of Connection: the outbox limit is reached      *)
(* while older messages wait, the TX channel fills, and the lane fills.    *)
(***************************************************************************)
EXTENDS Connection
=============================================================================
