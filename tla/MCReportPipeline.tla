-------------------------- MODULE MCReportPipeline --------------------------
(* Instances of ReportPipeline for TLC. *)
EXTENDS ReportPipeline, TLC

\* Rows and workers are interchangeable; sound for the runs without liveness.
Symmetry == Permutations(Reports) \cup Permutations(Workers)
=============================================================================
