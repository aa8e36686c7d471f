----------------------------- MODULE MCAccounts -----------------------------
(***************************************************************************)
(* Small instances of Accounts for TLC.                                    *)
(***************************************************************************)
EXTENDS Accounts, TLC

\* Nothing depends on which tab or which browser acts.
Symmetry == Permutations(Clients) \cup Permutations(Tabs)

=============================================================================
