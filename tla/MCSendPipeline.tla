-------------------------- MODULE MCSendPipeline --------------------------
(***************************************************************************)
(* SendPipeline for TLC.  One idempotency key is enough: rows, leases and  *)
(* facts are per key, and an actor serves one key at a time.  What differs *)
(* between the configurations is who meets over that key.                  *)
(***************************************************************************)
EXTENDS SendPipelineInv, TLC

\* Executions are interchangeable: every action quantifies over all of them.
ExecSymmetry == Permutations(Execs)
=============================================================================
