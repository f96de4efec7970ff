---------------------------- MODULE MCTraceability ----------------------------
EXTENDS Traceability

(* The contract covers Given steps with text t1 only, so Then steps and   *)
(* And steps continuing them are lint errors.                              *)
MCContract == {<<"Given", "t1">>}

=============================================================================
