--------------------------- MODULE ReleaseLifecycle ---------------------------
(***************************************************************************)
(* The history of one release root: pipeline runs rewrite its artifacts    *)
(* and its manifest, finalizations sign what they find under the policy of *)
(* finalize_release_security, crashes leave transactions behind, and       *)
(* consumers verify with the policy of their deployment contract.          *)
(*                                                                         *)
(* The three control files are written in one step here, and a transaction *)
(* is recovered in one step: ControlTransaction shows that they may be.    *)
(* The pipeline is not part of the repository.  It takes no lock, and may  *)
(* run, stop or run again at any moment, between any two reads of a        *)
(* finalization included: what each read finds is kept until it is used.   *)
(* A verification is one step: VerifiedLoad is about files that are        *)
(* replaced while one is under way.                                        *)
(*                                                                         *)
(* The digest of a file is the file; an HMAC is the pair of key and        *)
(* manifest; the artifacts are one report, which tells the run that wrote  *)
(* it.                                                                     *)
(***************************************************************************)
EXTENDS Integers

CONSTANTS Runs,          \* pipeline runs
          StateOf,       \* the release state each run's reports record
          ReleaseStates, \* PROMOTE, HOLD
          Keys,          \* HMAC keys
          KeyIds,        \* key ids callers may name
          DefaultId,     \* the key id of a caller that names none
          MaxSequence,   \* bound on release_sequence
          Equalities,    \* finalizations compare manifest and reports
          None           \* no file, no argument, no field

ASSUME LifecycleAssumption ==
  /\ ReleaseStates # {}
  /\ StateOf \in [Runs -> ReleaseStates]
  /\ MaxSequence \in Nat
  /\ Equalities \in BOOLEAN
  /\ None \notin Runs \cup Keys \cup KeyIds \cup {DefaultId} \cup (0 .. MaxSequence)

Sequences == 0 .. MaxSequence
Ids == KeyIds \cup {DefaultId}

\* manifest["bundle_security"], less the fields that never vary.
Securities == [inventory : Runs, signed : BOOLEAN, required : BOOLEAN,
               keyId : Ids \cup {None}, sequence : Sequences \cup {None}]
Manifests == [run : Runs, security : Securities \cup {None}]
Signatures == [key : Keys, manifest : Manifests]

\* What the three control files hold.
ControlSets == [manifest : Manifests \cup {None},
                inventory : Runs \cup {None},
                signature : Signatures \cup {None}]

\* The arguments of a finalization and of a verification.
FinalizeArgs == [key : Keys \cup {None}, keyId : KeyIds \cup {None},
                 require : BOOLEAN, sequence : Sequences \cup {None},
                 allowed : (SUBSET ReleaseStates) \ {{}}]
VerifyArgs == [key : Keys \cup {None}, keyId : Ids \cup {None},
               require : BOOLEAN, minimum : Sequences \cup {None},
               allowed : (SUBSET ReleaseStates) \ {{}}, equalities : BOOLEAN]

ASSUME NoneAssumption ==
  /\ None \notin Securities
  /\ None \notin Manifests
  /\ None \notin Signatures
  /\ None \notin ControlSets

VARIABLES payload,    \* the run whose artifacts are in the root
          controls,   \* the control files
          journal,    \* the transaction file
          pc,         \* of the finalization under way
          args,       \* its arguments
          original,   \* its snapshot
          manifest,   \* the manifest it read for its policy
          compared,   \* the manifest its equality check has read
          new,        \* the controls it is about to write
          committed,  \* the controls of the last finalization that committed
          settled,    \* nothing was rewritten since a commit that returned
          matched,    \* that commit compared the artifacts it had inventoried
          accepted    \* the call that just ended was a verification that passed

call == <<args, original, manifest, compared, new>>
vars == <<payload, controls, journal, pc, args, original, manifest, compared,
          new, committed, settled, matched, accepted>>

NoControls == [manifest |-> None, inventory |-> None, signature |-> None]
NoArgs == [key |-> None, keyId |-> None, require |-> FALSE, sequence |-> None,
           allowed |-> ReleaseStates]

Init == /\ payload \in Runs
        /\ controls = NoControls
        /\ journal = None
        /\ pc = "idle"
        /\ args = NoArgs
        /\ original = NoControls
        /\ manifest = None
        /\ compared = None
        /\ new = NoControls
        /\ committed = NoControls
        /\ settled = FALSE
        /\ matched = FALSE
        /\ accepted = FALSE

-----------------------------------------------------------------------------
(* Policy.                                                                 *)

PreviouslySignedDeclared(c) == c.manifest # None /\ c.manifest.security # None
                                 /\ c.manifest.security.signed

\* _previous_security_metadata: a signature file counts even when the manifest
\* beside it was regenerated and declares nothing.
PreviouslySigned(c) ==
  \/ c.signature # None
  \/ c.manifest # None /\ c.manifest.security # None /\ c.manifest.security.signed

Previous(c, field) == IF c.manifest = None \/ c.manifest.security = None THEN None
                      ELSE c.manifest.security[field]

\* The key id a finalization resolves to, before the default.
ResolvedKeyId(f, c) == IF f.keyId = None /\ PreviouslySigned(c) THEN Previous(c, "keyId")
                       ELSE f.keyId

SequenceAsAsked(f, c) == f.sequence

\* A sequence that is not given is inherited.
ResolvedSequence(f, c) == IF f.sequence = None THEN Previous(c, "sequence") ELSE f.sequence

\* verify_json_value_equalities: run id and release state agree in the manifest
\* and the reports, each read once and the manifest first.
EqualitiesHold(asked, m, artifacts) == asked => m # None /\ m.run = artifacts

\* What finalize_release_security demands of its arguments f, the snapshot c
\* it took and the manifest m it then read.
FinalizePolicy(f, c, m) ==
  /\ m # None
  /\ StateOf[m.run] \in f.allowed
  /\ Previous(c, "sequence") # None /\ f.sequence # None =>
       f.sequence >= Previous(c, "sequence")
  /\ PreviouslySigned(c) \/ f.require \/ ResolvedKeyId(f, c) # None => f.key # None

SignedEarly(f, c, m, artifacts) ==
  LET id == ResolvedKeyId(f, c)
      security == [inventory |-> artifacts,
                   signed |-> f.key # None,
                   required |-> f.key # None,
                   keyId |-> IF f.key # None /\ id = None THEN DefaultId ELSE id,
                   sequence |-> ResolvedSequence(f, c)]
  IN  [manifest |-> [run |-> m.run, security |-> security],
       inventory |-> artifacts,
       signature |-> IF f.key = None THEN None ELSE [key |-> f.key, manifest |-> m]]

\* The controls it writes when they are met, for the artifacts it inventoried.
Finalized(f, c, m, artifacts) ==
  LET id == ResolvedKeyId(f, c)
      security == [inventory |-> artifacts,
                   signed |-> f.key # None,
                   required |-> f.key # None,
                   keyId |-> IF f.key # None /\ id = None THEN DefaultId ELSE id,
                   sequence |-> ResolvedSequence(f, c)]
      sealed == [run |-> m.run, security |-> security]
  IN  [manifest |-> sealed,
       inventory |-> artifacts,
       signature |-> IF f.key = None THEN None
                     ELSE [key |-> f.key, manifest |-> sealed]]

\* _verify_release_security_locked with arguments v, on controls c.
SignatureAccepted(v, c) ==
  IF c.signature = None
  THEN ~(c.manifest.security.required \/ c.manifest.security.signed \/ v.require)
  ELSE v.key # None /\ c.signature = [key |-> v.key, manifest |-> c.manifest]

Verified(v, c, artifacts) ==
  /\ c.manifest # None
  /\ StateOf[c.manifest.run] \in v.allowed
  /\ c.manifest.security # None
  /\ v.minimum # None => /\ c.manifest.security.sequence # None
                         /\ c.manifest.security.sequence >= v.minimum
  /\ v.keyId # None => c.manifest.security.keyId = v.keyId
  /\ c.inventory = c.manifest.security.inventory
  /\ artifacts = c.inventory
  /\ SignatureAccepted(v, c)
  /\ EqualitiesHold(v.equalities, c.manifest, artifacts)

-----------------------------------------------------------------------------
(* The pipeline.                                                           *)

WriteArtifacts(r) == /\ payload' = r
                     /\ settled' = FALSE
                     /\ accepted' = FALSE
                     /\ UNCHANGED <<controls, journal, pc, call, committed, matched>>

\* A fresh manifest: the previous security contract is gone, the inventory and
\* the signature files stay.
WriteManifest(r) == /\ controls' = [controls EXCEPT !.manifest = [run |-> r, security |-> None]]
                    /\ settled' = FALSE
                    /\ accepted' = FALSE
                    /\ UNCHANGED <<payload, journal, pc, call, committed, matched>>

-----------------------------------------------------------------------------
(* finalize_release_security and verify_release_security.                  *)

NotRecovered == controls

\* What the controls are once a pending transaction is undone.
Recovered == IF journal = None THEN controls ELSE journal

\* The call is over; the arguments of a successful one are remembered.
Leave(remembered) == /\ pc' = "idle"
                     /\ args' = remembered
                     /\ original' = NoControls
                     /\ manifest' = None
                     /\ compared' = None
                     /\ new' = NoControls

\* The lock is taken, a pending transaction undone, the snapshot taken.
Start(f) == /\ pc = "idle"
            /\ args' = f
            /\ controls' = Recovered
            /\ original' = Recovered
            /\ journal' = None
            /\ pc' = "started"
            /\ settled' = FALSE
            /\ accepted' = FALSE
            /\ UNCHANGED <<payload, manifest, compared, new, committed, matched>>

\* The manifest is read, which may no longer be that of the snapshot, and the
\* policy holds.
ReadManifest == /\ pc = "started"
                /\ FinalizePolicy(args, original, controls.manifest)
                /\ manifest' = controls.manifest
                /\ pc' = "permitted"
                /\ UNCHANGED <<payload, controls, journal, args, original, compared, new,
                               committed, settled, matched, accepted>>

\* The equality check reads the manifest from the root, before the journal is
\* written and once more before it is removed.
CompareManifest == /\ \/ pc = "permitted" /\ pc' = "comparing"
                      \/ pc = "written" /\ pc' = "recomparing"
                   /\ compared' = controls.manifest
                   /\ UNCHANGED <<payload, controls, journal, args, original, manifest, new,
                                  committed, settled, matched, accepted>>

\* It reads the reports, and they agree with the manifest it has read.
CompareReports == /\ pc = "comparing"
                  /\ EqualitiesHold(Equalities, compared, payload)
                  /\ compared' = None
                  /\ pc' = "compared"
                  /\ UNCHANGED <<payload, controls, journal, args, original, manifest, new,
                                 committed, settled, matched, accepted>>

\* The inventory is built from what is in the root by now, and the snapshot
\* goes to the transaction file.
Journal == /\ pc = "compared"
           /\ new' = Finalized(args, original, manifest, payload)
           /\ journal' = original
           /\ manifest' = None
           /\ pc' = "journaled"
           /\ UNCHANGED <<payload, controls, args, original, compared,
                          committed, settled, matched, accepted>>

\* Any error before the try block: a policy or an equality that does not hold, a
\* file that cannot be read or changes while it is.
Refuse == /\ pc \in {"started", "permitted", "comparing", "compared"}
          /\ Leave(NoArgs)
          /\ UNCHANGED <<payload, controls, journal, committed, settled, matched, accepted>>

\* The artifacts are verified once more and the controls written.  `settled'
\* means from here on: no file was rewritten since they were verified.
Write == /\ pc = "journaled"
         /\ payload = new.inventory
         /\ controls' = new
         /\ pc' = "written"
         /\ settled' = TRUE
         /\ UNCHANGED <<payload, journal, call, committed, matched, accepted>>

CommitUnchecked ==
  /\ pc = "recomparing"
  /\ journal' = None
  /\ committed' = new
  /\ matched' = (payload = new.inventory)
  /\ Leave(args)
  /\ UNCHANGED <<payload, controls, settled, accepted>>

\* The reports agree with the manifest once more, and the journal goes.
Commit == /\ pc = "recomparing"
          /\ EqualitiesHold(Equalities, compared, payload)
          /\ journal' = None
          /\ committed' = new
          /\ matched' = (payload = new.inventory)
          /\ Leave(args)
          /\ UNCHANGED <<payload, controls, settled, accepted>>

\* Any error in the try block, those of Write and Commit included.
Rollback == /\ pc \in {"journaled", "written", "recomparing"}
            /\ controls' = original
            /\ journal' = None
            /\ settled' = FALSE
            /\ Leave(NoArgs)
            /\ UNCHANGED <<payload, committed, matched, accepted>>

Crash == /\ pc # "idle"
         /\ settled' = FALSE
         /\ Leave(NoArgs)
         /\ UNCHANGED <<payload, controls, journal, committed, matched, accepted>>

\* A verification, which recovers first and holds the lock throughout.
Verify(v) == /\ pc = "idle"
             /\ controls' = Recovered
             /\ journal' = None
             /\ accepted' = Verified(v, Recovered, payload)
             /\ settled' = (settled /\ journal = None)
             /\ UNCHANGED <<payload, pc, call, committed, matched>>

Next == \/ \E r \in Runs : WriteArtifacts(r) \/ WriteManifest(r)
        \/ \E f \in FinalizeArgs : Start(f)
        \/ ReadManifest
        \/ CompareManifest
        \/ CompareReports
        \/ Journal
        \/ Refuse
        \/ Write
        \/ Commit
        \/ Rollback
        \/ Crash
        \/ \E v \in VerifyArgs : Verify(v)

Spec == Init /\ [][Next]_vars

-----------------------------------------------------------------------------
(* Type invariant.                                                         *)
TypeOK == /\ payload \in Runs
          /\ controls \in ControlSets
          /\ journal \in ControlSets \cup {None}
          /\ pc \in {"idle", "started", "permitted", "comparing", "compared",
                     "journaled", "written", "recomparing"}
          /\ args \in FinalizeArgs
          /\ original \in ControlSets
          /\ manifest \in Manifests \cup {None}
          /\ compared \in Manifests \cup {None}
          /\ new \in ControlSets
          /\ committed \in ControlSets
          /\ settled \in BOOLEAN
          /\ matched \in BOOLEAN
          /\ accepted \in BOOLEAN

\* The manifest has a security contract.
Declares(c) == c.manifest # None /\ c.manifest.security # None

\* Once a release is signed its root stays signed: through pipeline runs that
\* regenerate the manifest, finalizations without a key, crashes and recovery.
NeverDowngraded ==
  [][Recovered.signature # None => Recovered'.signature # None]_vars

\* The release sequence of a root never falls and is never dropped, whatever
\* finalizations ask for, except where a regenerated manifest forgets it.
SequenceNeverDecreases ==
  [][(/\ Previous(Recovered, "sequence") # None
      /\ Declares(Recovered')) =>
       /\ Previous(Recovered, "sequence")' # None
       /\ Previous(Recovered, "sequence")' >= Previous(Recovered, "sequence")]_vars

\* What a finalization has just committed, every verification whose contract
\* asks no more than the finalization provided accepts: the two policies agree.
FinalizedReleaseVerifies ==
  settled /\ pc = "idle" =>
    \A v \in VerifyArgs :
      (/\ v.key = args.key
       /\ v.allowed = args.allowed
       /\ v.require => args.key # None
       /\ v.keyId \in {None, controls.manifest.security.keyId}
       /\ v.minimum # None => /\ controls.manifest.security.sequence # None
                              /\ v.minimum <= controls.manifest.security.sequence
       /\ v.equalities => Equalities)
      => Verified(v, Recovered, payload)

\* What a verification accepts is what a finalization committed, never the
\* files of one that crashed, nor of a pipeline run that was not finalized.
AcceptedWasCommitted == accepted => controls = committed

\* Manifest and reports of an accepted release come from one pipeline run, even
\* when only the finalizing side compares them: not from a manifest that recovery
\* put back over a newer one, nor from a run that replaced the artifacts between
\* the comparison and the inventory.  The commit must have compared the artifacts
\* of its inventory: others may lie in the root then, if they came after the
\* last verification and are gone again before the next.
AcceptedIsOneRun ==
  accepted /\ Equalities /\ matched => controls.manifest.run = payload

\* Without that condition it fails: the inventory and the verifications see one
\* run, and the last comparison another that was in the root in between.
AcceptedIsOneRunAlways == accepted /\ Equalities => controls.manifest.run = payload

\* What a commit that compared the artifacts of its inventory leaves to readers.
OfOneRun(c) == Equalities /\ matched /\ Declares(c) => c.manifest.run = c.inventory

\* What the properties rest on: only a commit puts a manifest with a security
\* contract where readers find it, and the pipeline changes no other control.
LifecycleInv ==
  /\ TypeOK
  /\ Declares(Recovered) => Recovered = committed
  /\ OfOneRun(Recovered)
  /\ pc \in {"started", "permitted", "comparing", "compared"} =>
       /\ journal = None
       /\ controls.signature = original.signature
       /\ Declares(original) => original = committed
       /\ OfOneRun(original)
       /\ Declares(controls) => controls = original
  /\ pc \in {"permitted", "comparing", "compared"} => FinalizePolicy(args, original, manifest)
  /\ pc \in {"journaled", "written", "recomparing"} =>
       /\ journal = original
       /\ Declares(new)
       /\ new.signature = None => original.signature = None
       /\ Previous(original, "sequence") # None =>
            /\ Previous(new, "sequence") # None
            /\ Previous(new, "sequence") >= Previous(original, "sequence")
  /\ pc \in {"written", "recomparing"} =>
       /\ controls.signature = new.signature
       /\ Declares(controls) => controls = new
  /\ pc = "recomparing" /\ Declares(controls) => compared = new.manifest
  /\ accepted => /\ pc = "idle"
                 /\ journal = None
                 /\ Declares(controls)
                 /\ controls.inventory = payload
=============================================================================
