--------------------------- MODULE MCJobPipeline ---------------------------
(***************************************************************************)
(* Instances of JobPipeline for TLC: one job, or two jobs on an input that *)
(* the deduplication of uploads made them share.                           *)
(***************************************************************************)
EXTENDS JobPipeline

CONSTANT i1

SharedInput == [j \in Job |-> i1]

\* Steps of processImageJob that throw before the record says done.
Processing == {"fetch", "put"}

\* Every await of processImageJob.
AnyStep == Step \ {"idle", "fail"}
=============================================================================
