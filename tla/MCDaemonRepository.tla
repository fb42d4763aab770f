------------------------- MODULE MCDaemonRepository -------------------------
(* An instance of DaemonRepository: room for two living connection jobs, the handler
   of death notices, and two callers, which are alike. *)
EXTENDS DaemonRepository, TLC

CONSTANTS p1, p2

MCJobs == {"job1", "job2"}
MCCallers == {p1, p2}
MCProcs == MCJobs \cup MCCallers \cup {"obituary"}
Alike == Permutations(MCCallers)
=============================================================================
