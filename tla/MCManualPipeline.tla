-------------------------- MODULE MCManualPipeline --------------------------
(* TLC instance of ManualPipeline: two pages and two workers, the           *)
(* concurrency of celery-worker-manuals in compose.yaml.                    *)
EXTENDS ManualPipeline, TLC

CONSTANTS p1, p2, w1, w2

MCPages   == {p1, p2}
MCWorkers == {w1, w2}

(* Pages and workers are interchangeable: sound for the safety runs.        *)
Symmetry == Permutations(MCPages) \cup Permutations(MCWorkers)
=============================================================================
