-------------------------------- MODULE Jobs --------------------------------
(***************************************************************************)
(* A part of readin that computes an answer from its arguments alone.  A   *)
(* behaviour is one computation: a job, and what has come of it.           *)
(***************************************************************************)
VARIABLES
    job,     \* what is to be done; its kind says which computation it is
    answer   \* what came of it so far

NoAnswer == [step |-> "none"]

Begins(kind) == job.kind = kind /\ answer = NoAnswer /\ UNCHANGED job
Finished(kind) == job.kind = kind /\ answer # NoAnswer
=============================================================================
