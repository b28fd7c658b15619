--------------------------- MODULE MCProjections ---------------------------
(* Instance of Projections: one experiment with its artifacts, two refreshers *)
(* and an importer.                                                          *)
EXTENDS Projections

CONSTANTS e1, predictions, figure, cli, api, summary

MCOwner == [a \in Artifacts |-> e1]
=============================================================================
