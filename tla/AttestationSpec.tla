--------------------------- MODULE AttestationSpec ---------------------------
(***************************************************************************)
(* What the provenance scripts promise a consumer, without the steps that *)
(* produce it: the workspace (a manifest and the artifact files) changes   *)
(* in any way; an operator holding a key attests the workspace as it is at *)
(* that moment; attestations are never withdrawn; and the verifiers of a   *)
(* key accept only a workspace that key has attested.                      *)
(***************************************************************************)
CONSTANTS
  Keys          \* signing keys whose public keys consumers hold

VARIABLES
  disk,         \* the workspace: [manifest, files]
  attested,     \* set of [signer, state] attestations made so far
  accepted      \* key -> whether both verifiers accept the workspace now

avars == <<disk, attested, accepted>>

(* Every key's verifiers accept only what that key attested. *)
Consistent ==
  \A k \in Keys : accepted[k] => [signer |-> k, state |-> disk] \in attested

Init ==
  /\ attested = {}
  /\ accepted = [k \in Keys |-> FALSE]

(* The workspace changes: runs write files, runs die, files are altered. *)
Change ==
  /\ UNCHANGED attested
  /\ Consistent'

(* Key k attests the workspace exactly as it is. *)
Attest(k) ==
  /\ attested' = attested \cup {[signer |-> k, state |-> disk]}
  /\ UNCHANGED disk
  /\ Consistent'

Next == Change \/ \E k \in Keys : Attest(k)

Spec == Init /\ [][Next]_avars

=============================================================================
