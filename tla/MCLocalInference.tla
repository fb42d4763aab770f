-------------------------- MODULE MCLocalInference --------------------------
(* An instance of LocalInference: two callers, one background job, two models. *)
EXTENDS LocalInference
=============================================================================
