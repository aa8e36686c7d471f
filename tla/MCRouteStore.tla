---------------------------- MODULE MCRouteStore ----------------------------
(***************************************************************************)
(* Small instances of RouteStore for TLC.                                  *)
(***************************************************************************)
EXTENDS RouteStore

Form(slug, enabled, fallback, surveys) ==
    [slug |-> slug, enabled |-> enabled, fallback |-> fallback,
     surveys |-> surveys]

\* Two slugs, one and two targets, enabled or not, with a fallback or not.
MCInputs ==
    {Form("a", TRUE, FALSE, {1, 2}), Form("a", TRUE, TRUE, {2}),
     Form("b", FALSE, FALSE, {1})}

\* Enough for a save that replaces the target being counted.
MCTwoInputs == {Form("a", TRUE, FALSE, {1, 2}), Form("a", TRUE, TRUE, {2})}

=============================================================================
