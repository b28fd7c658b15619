------------------------------ MODULE MCGrading ------------------------------
(* Instance of Grading: a required report, a required large file and an        *)
(* optional small one.                                                          *)
EXTENDS Grading

CONSTANTS predictions, report, extra

MCDeclared == {predictions, report, extra}
MCRequired == {predictions, report}
MCSmall == {report, extra}
MCRestorable == {predictions}
MCScores == {0, 1}
=============================================================================
