---------------------------- MODULE MCProvenance ----------------------------
(* Model-checking instance of Provenance: one operator seed, two possible *)
(* contents per artifact file, and sha256 as an injective table.          *)
EXTENDS Provenance, TLC

MCSha256 == [c \in FileContents |-> <<"sha256", c>>]

MCSymmetry == Permutations(Contents)

(* Environments in which PyNaCl imports, so that sign_ed25519 gets past   *)
(* its import and reaches the key-length check.                           *)
MCRunConfigsWithNacl == [key : KeyMaterial, nacl : {TRUE}, tarpaulin : BOOLEAN]

(* States told apart by TLC.  A finished invocation is read only through  *)
(* what it wrote, built and signed (ForgedManifests, ForgedSignatures and *)
(* Attestations); its environment and status are read only while it is    *)
(* the current one, so they are left out of the view for earlier ones.    *)
(* The run that checks MalformedKeyRejected, which reads them, has no view.*)
MCView ==
  <<pc,
    [i \in DOMAIN hist |->
       IF i = cur THEN hist[i]
       ELSE [wrote |-> hist[i].wrote, built |-> hist[i].built,
             signer |-> hist[i].signer]],
    art, manifest, sig, frontPage, crashes, tampers, tamperedAt>>
=============================================================================
