----------------------------- MODULE Provenance -----------------------------
(***************************************************************************)
(* The attestation pipeline of scripts/provenance_ci.py (main) and the two *)
(* verification entry points scripts/verify_provenance_digests.py and      *)
(* scripts/verify_provenance_signature.py, over the files they share in    *)
(* the repository: the three artifacts, .provenance/manifest.json,         *)
(* .provenance/manifest.json.sig and ci/front_page.pml.                     *)
(*                                                                         *)
(* The pipeline is a sequential process invoked once per CI run.  Its     *)
(* files persist between invocations.  An invocation may be killed        *)
(* between two steps or in the middle of a write (write_text truncates    *)
(* and then writes, so a killed write leaves a torn file).  Between        *)
(* invocations the files may be altered by anyone with access to the      *)
(* workspace; that actor can recompute digests, replay files it has seen   *)
(* and sign with its own key, but cannot forge a signature of a key it     *)
(* does not hold.  The verifiers are pure functions of the files, so they  *)
(* are operators giving the process exit code.                             *)
(***************************************************************************)
EXTENDS Integers, Sequences, SequencesExt, Functions

CONSTANTS
  Keys,        \* Ed25519 seeds an operator may configure for signing
  EvilKey,     \* a seed held only by whoever tampers with the workspace
  Contents,    \* byte contents a run can write into an artifact file
  Sha256,      \* the digest function: FileContents -> hex digests
  MaxRuns,     \* invocations of provenance_ci.py
  MaxCrashes,  \* invocations killed part-way
  MaxTampers,  \* alterations of the workspace between invocations
  Absent,      \* a file that does not exist / a function returning None
  Torn,        \* the bytes left by a write that was killed part-way
  NoKey,       \* PROVENANCE_ED25519_PRIVATE_KEY_B64 unset or empty
  NoPub        \* PROVENANCE_ED25519_PUBLIC_KEY_B64 unset or empty

FileContents == Contents \cup {Torn}

ASSUME /\ EvilKey \notin Keys
       /\ DOMAIN Sha256 = FileContents
       /\ IsInjective(Sha256)
       /\ MaxRuns \in Nat /\ MaxCrashes \in Nat /\ MaxTampers \in Nat

(* The artifacts in the order build_manifest lists them. *)
ArtifactOrder == <<"tests-summary", "coverage", "failures">>
ArtifactIds == ToSet(ArtifactOrder)

(* The public key of a seed and a detached signature, symbolically.        *)
Pub(k) == [pubOf |-> k]
Signature(k, bytes) == [signer |-> k, msg |-> bytes]

(* Key material as decoded by base64: a 32-byte seed, a 64-byte expanded  *)
(* key whose first half is the seed, or bytes of any other length.         *)
KeyMaterial ==
  {NoKey}
  \cup {[size |-> 32, bytes |-> <<k>>] : k \in Keys}
  \cup {[size |-> 64, bytes |-> <<k, Pub(k)>>] : k \in Keys}
  \cup {[size |-> 16, bytes |-> <<>>]}

Malformed(km) == km # NoKey /\ km.size \notin {32, 64}

(* The environment of one invocation: the signing key variable, whether    *)
(* PyNaCl imports, and whether cargo-tarpaulin is on PATH.                  *)
RunConfigs == [key : KeyMaterial, nacl : BOOLEAN, tarpaulin : BOOLEAN]

VARIABLES
  pc,         \* the next step of the running invocation, "idle" if none
  hist,       \* one record per invocation: its config and what it did
  art,        \* artifact id -> content of the file, or Absent
  manifest,   \* content of .provenance/manifest.json
  sig,        \* content of .provenance/manifest.json.sig
  frontPage,  \* content of ci/front_page.pml
  crashes,    \* invocations killed so far
  tampers,    \* alterations made so far
  tamperedAt  \* number of invocations started when the last alteration happened

vars == <<pc, hist, art, manifest, sig, frontPage, crashes, tampers, tamperedAt>>

cur == Len(hist)
cfg == hist[cur].cfg

-----------------------------------------------------------------------------
(* Digest Engine, Manifest Builder and Signer.                              *)

(* sha256_file: the digest of the file holding an artifact. *)
ArtifactDigest(a) == Sha256[art[a]]

(* Mutant: each descriptor takes the digest of the next artifact's file. *)
BuildManifestShifted(r) ==
  [run |-> r,
   artifacts |-> [i \in 1..3 |->
                    [path |-> ArtifactOrder[i],
                     sha256 |-> ArtifactDigest(ArtifactOrder[(i % 3) + 1])]]]

(* build_manifest: one descriptor per artifact, in the fixed order, each   *)
(* carrying the digest of the file as it is now; the run identity comes   *)
(* from GITHUB_RUN_ID, abstracted to the invocation number.                *)
BuildManifest(r) ==
  [run |-> r,
   artifacts |-> [i \in 1..3 |->
                    [path |-> ArtifactOrder[i],
                     sha256 |-> ArtifactDigest(ArtifactOrder[i])]]]

(* Mutant: a 64-byte key is cut to its last 32 bytes instead of its first. *)
SignEd25519TailHalf(data, km, nacl) ==
  IF km = NoKey \/ ~nacl \/ Malformed(km) THEN Absent
  ELSE Signature(km.bytes[Len(km.bytes)], data)

(* sign_ed25519: None without a key, without PyNaCl, or when the decoded  *)
(* key is neither 32 nor 64 bytes; otherwise the signature by the seed,   *)
(* which for a 64-byte key is its first 32 bytes.                          *)
SignEd25519(data, km, nacl) ==
  IF km = NoKey \/ ~nacl \/ Malformed(km) THEN Absent
  ELSE Signature(Head(km.bytes), data)

-----------------------------------------------------------------------------
(* Digest Verifier and Signature Verifier: process exit codes.             *)

(* One descriptor: no sha256 2, missing file 3, digest mismatch 4, else  *)
(* verified.                                                               *)
DigestCheck(e) ==
  IF e.sha256 = Absent THEN 2
  ELSE IF art[e.path] = Absent THEN 3
  ELSE IF Sha256[art[e.path]] # e.sha256 THEN 4
  ELSE 0

(* Mutant: the loop stops before the last descriptor. *)
VerifyDigestsExitSkipLast ==
  IF manifest = Absent THEN 2
  ELSE IF manifest = Torn THEN 1
  ELSE LET arts == Front(manifest.artifacts)
           bad  == SelectInSeq(arts, LAMBDA e : DigestCheck(e) # 0)
       IN IF bad = 0 THEN 0 ELSE DigestCheck(arts[bad])

(* verify_provenance_digests.main: 2 without a manifest, 1 when json.loads *)
(* raises on a torn one, else the code of the first failing descriptor.    *)
VerifyDigestsExit ==
  IF manifest = Absent THEN 2
  ELSE IF manifest = Torn THEN 1
  ELSE LET arts == manifest.artifacts
           bad  == SelectInSeq(arts, LAMBDA e : DigestCheck(e) # 0)
       IN IF bad = 0 THEN 0 ELSE DigestCheck(arts[bad])

(* verify_provenance_signature for public key pk; nacl says whether      *)
(* PyNaCl imports.  The import runs before main and exits 2 when it fails, *)
(* whatever the public key.  In main, a torn signature file either fails  *)
(* base64 decoding outside the try (exit 1) or decodes to bytes that do   *)
(* not verify (exit 4).                                                    *)
VerifySignatureExits(pk, nacl) ==
  IF ~nacl THEN {2}
  ELSE IF pk = NoPub THEN {0}
  ELSE IF manifest = Absent THEN {2}
  ELSE IF sig = Absent THEN {3}
  ELSE IF sig = Torn THEN {1, 4}
  ELSE IF sig.signer = pk.pubOf /\ sig.msg = manifest THEN {0}
  ELSE {4}

(* A consumer holding pk, with or without PyNaCl, runs both verifiers and *)
(* both exit 0.                                                           *)
Accepted(pk) ==
  VerifyDigestsExit = 0 /\ \E nacl \in BOOLEAN : 0 \in VerifySignatureExits(pk, nacl)

-----------------------------------------------------------------------------
(* The pipeline, one action per step of main().                            *)

Init ==
  /\ pc = "idle"
  /\ hist = <<>>
  /\ art = [a \in ArtifactIds |-> Absent]
  /\ manifest = Absent
  /\ sig = Absent
  /\ frontPage = Absent
  /\ crashes = 0
  /\ tampers = 0
  /\ tamperedAt = 0

(* main: ensure_dirs and writing the default front page when missing. *)
Start ==
  /\ pc = "idle"
  /\ cur < MaxRuns
  /\ \E c \in RunConfigs :
       hist' = Append(hist, [cfg |-> c, status |-> "running",
                             wrote |-> [a \in ArtifactIds |-> Absent],
                             built |-> Absent, signer |-> Absent])
  /\ frontPage' = IF frontPage = Absent THEN "default" ELSE frontPage
  /\ pc' = "summary"
  /\ UNCHANGED <<art, manifest, sig, crashes, tampers, tamperedAt>>

(* Writing one artifact file with content c, as this invocation. *)
WriteArtifact(a, c) ==
  /\ art' = [art EXCEPT ![a] = c]
  /\ hist' = [hist EXCEPT ![cur].wrote[a] = c]

(* run_switchyard_tests then write_tests_artifacts: summary.json ... *)
WriteSummary ==
  /\ pc = "summary"
  /\ \E c \in Contents : WriteArtifact("tests-summary", c)
  /\ pc' = "failures"
  /\ UNCHANGED <<manifest, sig, frontPage, crashes, tampers, tamperedAt>>

(* ... and then failures.md. *)
WriteFailures ==
  /\ pc = "failures"
  /\ \E c \in Contents : WriteArtifact("failures", c)
  /\ pc' = "cleancov"
  /\ UNCHANGED <<manifest, sig, frontPage, crashes, tampers, tamperedAt>>

(* compute_coverage: with tarpaulin present, every file under ci/coverage, *)
(* coverage.json included, is unlinked before tarpaulin runs.              *)
CleanCoverage ==
  /\ pc = "cleancov"
  /\ art' = IF cfg.tarpaulin THEN [art EXCEPT !["coverage"] = Absent] ELSE art
  /\ pc' = "coverage"
  /\ UNCHANGED <<hist, manifest, sig, frontPage, crashes, tampers, tamperedAt>>

(* compute_coverage's result written by write_coverage_artifacts. *)
WriteCoverage ==
  /\ pc = "coverage"
  /\ \E c \in Contents : WriteArtifact("coverage", c)
  /\ pc' = "manifest"
  /\ UNCHANGED <<manifest, sig, frontPage, crashes, tampers, tamperedAt>>

(* build_manifest, canonicalize_json and writing manifest.json. *)
WriteManifest ==
  /\ pc = "manifest"
  /\ manifest' = BuildManifest(cur)
  /\ hist' = [hist EXCEPT ![cur].built = BuildManifest(cur)]
  /\ pc' = "sign"
  /\ UNCHANGED <<art, sig, frontPage, crashes, tampers, tamperedAt>>

(* sign_ed25519 over the in-memory canonical bytes; the .sig file is     *)
(* written only when a signature was produced.                            *)
WriteSignature ==
  /\ pc = "sign"
  /\ LET s == SignEd25519(hist[cur].built, cfg.key, cfg.nacl)
     IN /\ sig' = IF s = Absent THEN sig ELSE s
        /\ hist' = [hist EXCEPT ![cur].status = "done",
                                ![cur].signer = IF s = Absent THEN Absent
                                                ELSE s.signer]
  /\ pc' = "idle"
  /\ UNCHANGED <<art, manifest, frontPage, crashes, tampers, tamperedAt>>

-----------------------------------------------------------------------------
(* The environment: killing an invocation, and altering the workspace.     *)

(* The invocation dies between two steps. *)
Crash ==
  /\ pc # "idle"
  /\ crashes < MaxCrashes
  /\ crashes' = crashes + 1
  /\ hist' = [hist EXCEPT ![cur].status = "crashed"]
  /\ pc' = "idle"
  /\ UNCHANGED <<art, manifest, sig, frontPage, tampers, tamperedAt>>

(* The invocation dies inside write_text, leaving the file it was writing *)
(* torn; at "sign" a file is being written only if a signature exists.    *)
CrashInWrite ==
  /\ pc \in {"summary", "failures", "coverage", "manifest", "sign"}
  /\ crashes < MaxCrashes
  /\ pc = "sign" => SignEd25519(hist[cur].built, cfg.key, cfg.nacl) # Absent
  /\ crashes' = crashes + 1
  /\ hist' = [hist EXCEPT ![cur].status = "crashed"]
  /\ art' = CASE pc = "summary"  -> [art EXCEPT !["tests-summary"] = Torn]
              [] pc = "failures" -> [art EXCEPT !["failures"] = Torn]
              [] pc = "coverage" -> [art EXCEPT !["coverage"] = Torn]
              [] OTHER           -> art
  /\ manifest' = IF pc = "manifest" THEN Torn ELSE manifest
  /\ sig' = IF pc = "sign" THEN Torn ELSE sig
  /\ pc' = "idle"
  /\ UNCHANGED <<frontPage, tampers, tamperedAt>>

(* Manifests an intruder can write: one listing digests it recomputed     *)
(* over the files as they are, the same with only the first descriptor,   *)
(* with none (m.get("artifacts", []) then checks nothing) or with the     *)
(* first descriptor's sha256 removed, or any manifest an invocation built *)
(* earlier.                                                                *)
ForgedManifests ==
  LET full == [run |-> 0, artifacts |-> BuildManifest(0).artifacts]
      recomputed == IF \A a \in ArtifactIds : art[a] # Absent
                    THEN {full, [full EXCEPT !.artifacts = SubSeq(@, 1, 1)],
                          [full EXCEPT !.artifacts = <<>>],
                          [full EXCEPT !.artifacts[1].sha256 = Absent]}
                    ELSE {}
  IN recomputed \cup ({hist[i].built : i \in DOMAIN hist} \ {Absent})

(* Signatures an intruder can write: any it has seen, or its own. *)
ForgedSignatures ==
  {Signature(hist[i].signer, hist[i].built) :
     i \in {j \in DOMAIN hist : hist[j].signer # Absent}}
  \cup {Signature(EvilKey, m) : m \in ForgedManifests}

Tamper ==
  /\ pc = "idle"
  /\ tampers < MaxTampers
  /\ \/ \E a \in ArtifactIds, c \in Contents \cup {Absent} :
          /\ art' = [art EXCEPT ![a] = c]
          /\ UNCHANGED <<manifest, sig, frontPage>>
     \/ \E m \in ForgedManifests :
          /\ manifest' = m
          /\ UNCHANGED <<art, sig, frontPage>>
     \/ \E s \in ForgedSignatures \cup {Absent} :
          /\ sig' = s
          /\ UNCHANGED <<art, manifest, frontPage>>
     \/ /\ frontPage' = "altered"
        /\ UNCHANGED <<art, manifest, sig>>
  /\ tampers' = tampers + 1
  /\ tamperedAt' = cur
  /\ UNCHANGED <<pc, hist, crashes>>

Next ==
  \/ Start
  \/ WriteSummary
  \/ WriteFailures
  \/ CleanCoverage
  \/ WriteCoverage
  \/ WriteManifest
  \/ WriteSignature
  \/ Crash
  \/ CrashInWrite
  \/ Tamper

Spec == Init /\ [][Next]_vars

-----------------------------------------------------------------------------
(* Properties.                                                              *)

(* The shape of a manifest record. *)
IsManifest(m) ==
  /\ DOMAIN m = {"run", "artifacts"}
  /\ m.run \in 0..MaxRuns
  /\ \E n \in 0..3 : DOMAIN m.artifacts = 1..n
  /\ \A i \in DOMAIN m.artifacts :
       m.artifacts[i] \in [path : ArtifactIds, sha256 : Range(Sha256) \cup {Absent}]

TypeOK ==
  /\ pc \in {"idle", "summary", "failures", "cleancov", "coverage", "manifest", "sign"}
  /\ cur \in 0..MaxRuns
  /\ \A i \in DOMAIN hist :
       /\ hist[i].cfg \in RunConfigs
       /\ hist[i].status \in {"running", "crashed", "done"}
       /\ hist[i].wrote \in [ArtifactIds -> Contents \cup {Absent}]
       /\ hist[i].built = Absent \/ IsManifest(hist[i].built)
       /\ hist[i].signer \in Keys \cup {Absent}
  /\ art \in [ArtifactIds -> FileContents \cup {Absent}]
  /\ manifest \in {Absent, Torn} \/ IsManifest(manifest)
  /\ sig \in {Absent, Torn} \/
       (sig.signer \in Keys \cup {EvilKey} /\ IsManifest(sig.msg))
  /\ frontPage \in {Absent, "default", "altered"}
  /\ crashes \in 0..MaxCrashes /\ tampers \in 0..MaxTampers

(* Round trip (spec section 8): once an invocation has finished and nothing *)
(* has touched the workspace since, verify_provenance_digests exits 0, and  *)
(* if that invocation had usable key material, verify_provenance_signature *)
(* with the matching public key and PyNaCl installed exits 0 and nothing  *)
(* else.                                                                   *)
RoundTrip ==
  (pc = "idle" /\ cur > 0 /\ hist[cur].status = "done" /\ tamperedAt < cur) =>
    /\ VerifyDigestsExit = 0
    /\ hist[cur].signer # Absent =>
         VerifySignatureExits(Pub(hist[cur].cfg.key.bytes[1]), TRUE) = {0}

(* Spec section 6: manifest.json.sig is present only when signing key       *)
(* material was supplied to the invocation that wrote the manifest.        *)
SignatureOnlyWithKey ==
  (pc = "idle" /\ cur > 0 /\ hist[cur].status = "done" /\ tamperedAt < cur) =>
    (sig # Absent => hist[cur].cfg.key # NoKey)

(* Spec 4.4: key material of neither accepted size raises InvalidKeyError; *)
(* it is never downgraded to an unsigned run that completes.              *)
MalformedKeyRejected ==
  \A i \in DOMAIN hist :
    hist[i].status = "done" => ~Malformed(hist[i].cfg.key)

-----------------------------------------------------------------------------
(* Refinement: the pipeline and the verifiers implement AttestationSpec.   *)

(* The attestations: what each signing invocation built and wrote. *)
Attestations ==
  {[signer |-> hist[i].signer,
    state |-> [manifest |-> hist[i].built, files |-> hist[i].wrote]] :
     i \in {j \in DOMAIN hist : hist[j].signer # Absent}}

Attestation == INSTANCE AttestationSpec
  WITH disk <- [manifest |-> manifest, files |-> art],
       attested <- Attestations,
       accepted <- [k \in Keys |-> Accepted(Pub(k))]

(* The scripts implement the abstract promise: a signature attests the    *)
(* manifest and artifact files exactly as they are on disk when           *)
(* sign_ed25519 runs, no attestation is ever withdrawn, and in every state *)
(* the verifiers of a key accept only a workspace that key attested.      *)
ImplementsAttestation == Attestation!Spec

=============================================================================
