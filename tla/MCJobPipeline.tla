--------------------------- MODULE MCJobPipeline ----------------------------
(* JobPipeline for model checking: two jobs are interchangeable in a run    *)
(* that checks no temporal property.                                        *)
EXTENDS JobPipeline, TLC

JobSymmetry == Permutations(Jobs)
=============================================================================
