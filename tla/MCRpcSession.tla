---------------------------- MODULE MCRpcSession ----------------------------
(***************************************************************************)
(* Model-checking instance of RpcSession. Liveness is checked, so there is *)
(* no symmetry.                                                            *)
(***************************************************************************)
EXTENDS RpcSession

=============================================================================
