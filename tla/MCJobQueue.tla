---------------------------- MODULE MCJobQueue ----------------------------
(* Instances of JobQueue for TLC.                                          *)
EXTENDS JobQueue, TLC

CONSTANTS w1, w2, tick, invoice

\* The pipeline enqueues its jobs with priority 10, the scheduler with 0.
MCPriority == [j \in Jobs |-> IF j = tick THEN 0 ELSE 1]

\* Every worker registers the tick's handler and the pipeline's.
AllHandle == [w \in Workers |-> Jobs]

\* A worker without mail configuration beside one that has it.
OneHandlesPipeline == [w \in Workers |-> IF w = w1 THEN Jobs ELSE TickJobs]

WorkerSymmetry == Permutations(Workers)
=============================================================================
