-------------------------- MODULE MCMediaPipeline --------------------------
(* Instances of MediaPipeline for TLC. *)
EXTENDS MediaPipeline, FiniteSets, TLC

\* The pool of stamps never runs out: more stamps than places holding one.
ASSUME Cardinality(Stamps) > 3 + 2 * Cardinality(DWorkers)

\* Processors of one queue are interchangeable.
WorkerSymmetry == Permutations(DWorkers) \cup Permutations(UWorkers)

\* Two idle uploaders are in the same state, and no job names either: which of
\* them takes the next job is a matter of names.  The first does.  Behaviours that
\* differ in nothing else are explored once, fair ones as fair ones.
FirstIdle == CHOOSE u \in UWorkers : uw[u].pc = "idle"
TakenInTurn == \A u \in UWorkers :
  (uw[u].pc = "idle" /\ uw'[u].pc # "idle") => u = FirstIdle
=============================================================================
