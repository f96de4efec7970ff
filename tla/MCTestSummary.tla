--------------------------- MODULE MCTestSummary ---------------------------
(* Model-checking instance of TestSummary: three test binaries of two     *)
(* tests each, so fail-fast, sums over several result lines and flaky     *)
(* reruns all occur.                                                       *)
EXTENDS TestSummary
=============================================================================
