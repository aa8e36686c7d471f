---------------------------- MODULE MCRouteForms ----------------------------
(***************************************************************************)
(* A small instance of RouteForms for TLC.                                 *)
(***************************************************************************)
EXTENDS RouteForms

=============================================================================
