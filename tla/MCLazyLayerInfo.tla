--------------------------- MODULE MCLazyLayerInfo ---------------------------
(* Instances of LazyLayerInfo for TLC.                                     *)
EXTENDS LazyLayerInfo

CONSTANT Runner   \* the thread that keeps running

ASSUME RunnerAssumption == Runner \in Threads

\* The others may stop wherever they are.
MCSpec == Spec /\ WF_vars(Step(Runner))

\* The query of the thread that keeps running returns.
RunnersQueryReturns == QueryReturns(Runner)
=============================================================================
