---------------------------- MODULE MCConfigSync ----------------------------
(* An instance of ConfigSync: two connection jobs, one user beside the synchronizer's
   two observers, two settings and an invalid one. *)
EXTENDS ConfigSync

MCJobs == {"job1", "job2"}
MCProcs == MCJobs \cup {"obituary", "settings", "observer", "ui"}
=============================================================================
