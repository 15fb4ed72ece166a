------------------------------- MODULE MCSched -------------------------------
(* The boot thread and two test threads at PROCESS_PRI_DEFAULT, as in      *)
(* test_concurrent_scheduler_ops, and one thread of a higher priority.     *)
EXTENDS Sched, TLC

CONSTANTS main, t1, t2, t3

MCThreads == {main, t1, t2, t3}
MCPrio    == [t \in MCThreads |-> IF t = t3 THEN 2 ELSE 1]
Symmetry  == Permutations({t1, t2})
=============================================================================
