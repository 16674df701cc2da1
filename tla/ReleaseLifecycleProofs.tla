------------------------ MODULE ReleaseLifecycleProofs ------------------------
(***************************************************************************)
(* Proofs about ReleaseLifecycle, for every set of runs, keys and key ids  *)
(* and any bound on the sequence: signed roots stay signed, sequences      *)
(* never fall, and what is accepted was committed and comes from one run.  *)
(***************************************************************************)
EXTENDS ReleaseLifecycle, TLAPS

\* What a finalization may inherit.
LEMMA PreviousType ==
  ASSUME NEW c \in ControlSets
  PROVE  /\ Previous(c, "keyId") \in Ids \cup {None}
         /\ Previous(c, "sequence") \in Sequences \cup {None}
<1>1. CASE c.manifest = None \/ c.manifest.security = None
  BY <1>1 DEF Previous
<1>2. CASE ~(c.manifest = None \/ c.manifest.security = None)
  <2>1. c.manifest.security \in Securities
    BY <1>2 DEF ControlSets, Manifests
  <2> QED
    BY <1>2, <2>1 DEF Previous, Securities
<1> QED
  BY <1>1, <1>2

\* The controls a finalization writes are well formed, and what they say of
\* signature, run and sequence is what the policy asked for.
LEMMA FinalizedFacts ==
  ASSUME NEW f \in FinalizeArgs, NEW c \in ControlSets, NEW m \in Manifests \cup {None},
         NEW a \in Runs, FinalizePolicy(f, c, m)
  PROVE  /\ Finalized(f, c, m, a) \in ControlSets
         /\ Declares(Finalized(f, c, m, a))
         /\ Finalized(f, c, m, a).signature = None => c.signature = None
         /\ Previous(c, "sequence") # None =>
              /\ Previous(Finalized(f, c, m, a), "sequence") # None
              /\ Previous(Finalized(f, c, m, a), "sequence") >= Previous(c, "sequence")
<1> DEFINE id == ResolvedKeyId(f, c)
           security == [inventory |-> a,
                        signed |-> f.key # None,
                        required |-> f.key # None,
                        keyId |-> IF f.key # None /\ id = None THEN DefaultId ELSE id,
                        sequence |-> ResolvedSequence(f, c)]
           sealed == [run |-> m.run, security |-> security]
           signature == IF f.key = None THEN None ELSE [key |-> f.key, manifest |-> sealed]
<1>1. /\ f.key \in Keys \cup {None}
      /\ f.keyId \in Ids \cup {None}
      /\ f.sequence \in Sequences \cup {None}
  BY DEF FinalizeArgs, Ids
<1>2. id \in Ids \cup {None} /\ ResolvedSequence(f, c) \in Sequences \cup {None}
  BY <1>1, PreviousType DEF ResolvedKeyId, ResolvedSequence
<1>3. m \in Manifests /\ m.run \in Runs
  BY DEF FinalizePolicy, Manifests
<1>4. security \in Securities
  BY <1>1, <1>2 DEF Securities, Ids
<1>5. sealed \in Manifests
  BY <1>3, <1>4 DEF Manifests
<1>6. signature \in Signatures \cup {None} /\ (signature = None => f.key = None)
  BY <1>1, <1>5, NoneAssumption DEF Signatures
<1> HIDE DEF id
<1>7. Finalized(f, c, m, a) = [manifest |-> sealed, inventory |-> a, signature |-> signature]
  BY DEF Finalized, id
<1>8. security # None /\ sealed # None
  BY <1>4, <1>5, NoneAssumption
<1> HIDE DEF signature
<1>9. Finalized(f, c, m, a) \in ControlSets
  BY <1>5, <1>6, <1>7 DEF ControlSets
<1>10. Finalized(f, c, m, a).signature = None => c.signature = None
  BY <1>6, <1>7 DEF FinalizePolicy, PreviouslySigned
<1>12. Previous(Finalized(f, c, m, a), "sequence") = ResolvedSequence(f, c)
  BY <1>7, <1>8 DEF Previous
<1>13. Previous(c, "sequence") # None =>
         /\ ResolvedSequence(f, c) # None
         /\ ResolvedSequence(f, c) >= Previous(c, "sequence")
  BY <1>1, PreviousType, LifecycleAssumption DEF ResolvedSequence, FinalizePolicy, Sequences
<1> QED
  BY <1>7, <1>8, <1>9, <1>10, <1>12, <1>13 DEF Declares

\* The invariant holds before anything was finalized.
LEMMA LifecycleInit == Init => LifecycleInv
<1> SUFFICES ASSUME Init PROVE LifecycleInv
  OBVIOUS
<1>1. NoControls \in ControlSets
  BY DEF NoControls, ControlSets
<1>2. TypeOK
  <2>1. args \in FinalizeArgs
    BY LifecycleAssumption DEF Init, NoArgs, FinalizeArgs
  <2> QED
    BY <1>1, <2>1 DEF Init, TypeOK
<1>3. Recovered = NoControls /\ ~Declares(NoControls)
  BY DEF Init, Recovered, Declares, NoControls
<1> QED
  BY <1>2, <1>3 DEF Init, LifecycleInv, OfOneRun

\* A regenerated manifest declares nothing and keeps the other controls.
LEMMA PipelineStep ==
  ASSUME LifecycleInv, NEW r \in Runs, WriteArtifacts(r) \/ WriteManifest(r)
  PROVE  LifecycleInv'
<1>1. CASE WriteArtifacts(r)
  <2>1. Recovered' = Recovered
    BY <1>1 DEF WriteArtifacts, Recovered
  <2>2. UNCHANGED <<controls, journal, pc, args, original, manifest, compared, new,
                    committed, matched>>
    BY <1>1 DEF WriteArtifacts, call
  <2>3. payload' \in Runs /\ settled' = FALSE /\ accepted' = FALSE
    BY <1>1 DEF WriteArtifacts
  <2>4. TypeOK'
    BY <2>2, <2>3 DEF LifecycleInv, TypeOK
  <2>5. pc' \in {"permitted", "comparing", "compared"} =>
          FinalizePolicy(args', original', manifest')
    BY <2>2 DEF LifecycleInv
  <2> QED
    BY <2>1, <2>2, <2>3, <2>4, <2>5 DEF LifecycleInv, OfOneRun
<1>2. CASE WriteManifest(r)
  <2> DEFINE m == [run |-> r, security |-> None]
  <2>1. m \in Manifests
    BY DEF Manifests
  <2>2. controls' \in ControlSets /\ controls'.manifest = m
        /\ controls'.signature = controls.signature
    BY <1>2, <2>1 DEF LifecycleInv, TypeOK, OfOneRun, WriteManifest, ControlSets
  <2>3. ~Declares(controls')
    BY <2>2 DEF Declares
  <2>4. Declares(Recovered') => Declares(Recovered) /\ Recovered' = Recovered
    BY <1>2, <2>3 DEF WriteManifest, Recovered
  <2> HIDE DEF m
  <2>5. UNCHANGED <<payload, journal, pc, args, original, manifest, compared, new,
                    committed, matched>>
    BY <1>2 DEF WriteManifest, call
  <2>6. settled' = FALSE /\ accepted' = FALSE
    BY <1>2 DEF WriteManifest
  <2>7. TypeOK'
    BY <2>2, <2>5, <2>6 DEF LifecycleInv, TypeOK
  <2>8. pc' \in {"permitted", "comparing", "compared"} =>
          FinalizePolicy(args', original', manifest')
    BY <2>5 DEF LifecycleInv
  <2>9. OfOneRun(Recovered)' /\ (Declares(Recovered) => Recovered = committed)'
    BY <2>4, <2>5 DEF LifecycleInv, OfOneRun
  <2> QED
    BY <2>2, <2>3, <2>5, <2>6, <2>7, <2>8, <2>9 DEF LifecycleInv, OfOneRun
<1> QED
  BY <1>1, <1>2

LEMMA StartStep ==
  ASSUME LifecycleInv, NEW f \in FinalizeArgs, Start(f)
  PROVE  LifecycleInv'
<1>1. Recovered \in ControlSets
  BY DEF LifecycleInv, TypeOK, OfOneRun, Recovered
<1>2. Recovered' = Recovered
  BY DEF Start, Recovered
<1> QED
  BY <1>1, <1>2 DEF LifecycleInv, TypeOK, OfOneRun, Start

\* What the checks read before the journal changes nothing readers find.
LEMMA ReadStep ==
  ASSUME LifecycleInv, ReadManifest \/ CompareManifest \/ CompareReports
  PROVE  LifecycleInv'
<1>1. controls \in ControlSets /\ controls.manifest \in Manifests \cup {None}
  BY DEF LifecycleInv, TypeOK, OfOneRun, ControlSets
<1>2. Recovered' = Recovered
  BY DEF ReadManifest, CompareManifest, CompareReports, Recovered
<1>3. CASE ReadManifest
  <2>1. FinalizePolicy(args', original', manifest')
    BY <1>3 DEF ReadManifest
  <2> QED
    BY <1>1, <1>2, <1>3, <2>1 DEF LifecycleInv, TypeOK, OfOneRun, ReadManifest
<1>4. ASSUME CompareManifest \/ CompareReports,
             pc \in {"permitted", "comparing", "compared"}
      PROVE  FinalizePolicy(args', original', manifest')
  BY <1>4 DEF LifecycleInv, CompareManifest, CompareReports
<1>5. CASE CompareManifest
  <2>1. CASE pc = "permitted" /\ pc' = "comparing"
    BY <1>1, <1>2, <1>4, <1>5, <2>1 DEF LifecycleInv, TypeOK, OfOneRun, CompareManifest
  <2>2. CASE pc = "written" /\ pc' = "recomparing"
    BY <1>1, <1>2, <1>5, <2>2 DEF LifecycleInv, TypeOK, OfOneRun, CompareManifest
  <2> QED
    BY <1>5, <2>1, <2>2 DEF CompareManifest
<1>6. CASE CompareReports
  <2>1. FinalizePolicy(args', original', manifest')
    BY <1>4, <1>6 DEF CompareReports
  <2> QED
    BY <1>1, <1>2, <1>6, <2>1 DEF LifecycleInv, TypeOK, OfOneRun, CompareReports
<1> QED
  BY <1>3, <1>5, <1>6

LEMMA JournalStep ==
  ASSUME LifecycleInv, Journal
  PROVE  LifecycleInv'
<1>1. /\ args \in FinalizeArgs
      /\ original \in ControlSets
      /\ manifest \in Manifests \cup {None}
      /\ payload \in Runs
  BY DEF LifecycleInv, TypeOK
<1>2. FinalizePolicy(args, original, manifest)
  BY DEF Journal, LifecycleInv
<1>3. /\ new' \in ControlSets
      /\ Declares(new')
      /\ new'.signature = None => original.signature = None
      /\ Previous(original, "sequence") # None =>
           /\ Previous(new', "sequence") # None
           /\ Previous(new', "sequence") >= Previous(original, "sequence")
  BY <1>1, <1>2, FinalizedFacts DEF Journal
<1>4. Recovered' = original
  BY <1>1, NoneAssumption DEF Journal, Recovered
<1>5. OfOneRun(original)'
  BY DEF Journal, LifecycleInv, OfOneRun
<1> QED
  BY <1>1, <1>3, <1>4, <1>5 DEF LifecycleInv, TypeOK, OfOneRun, Journal

\* While a transaction is pending, readers find the snapshot.
LEMMA Pending ==
  ASSUME LifecycleInv, pc \in {"journaled", "written", "recomparing"}
  PROVE  journal # None /\ Recovered = original
<1>1. journal = original /\ original \in ControlSets
  BY DEF LifecycleInv, TypeOK
<1> QED
  BY <1>1, NoneAssumption DEF Recovered

\* A commit that compared the artifacts it inventoried leaves controls of one
\* run, unless the pipeline has replaced the manifest meanwhile.
LEMMA CommitStep ==
  ASSUME LifecycleInv, Commit
  PROVE  LifecycleInv'
<1>1. NoControls \in ControlSets /\ args \in FinalizeArgs
  BY DEF NoControls, ControlSets, LifecycleInv, TypeOK
<1>2. Recovered' = controls /\ committed' = new
  BY DEF Commit, Recovered
<1>3. Declares(controls) => controls = new /\ compared = new.manifest
  BY DEF LifecycleInv, Commit
<1>4. Equalities /\ matched' /\ Declares(controls) =>
        controls.manifest.run = controls.inventory
  BY <1>3 DEF Commit, EqualitiesHold
<1>5. ~accepted
  BY DEF LifecycleInv, Commit
<1> QED
  BY <1>1, <1>2, <1>3, <1>4, <1>5 DEF LifecycleInv, TypeOK, OfOneRun, Commit, Leave

\* How a call ends otherwise.
LEMMA LeaveStep ==
  ASSUME LifecycleInv, Refuse \/ Rollback \/ Crash
  PROVE  LifecycleInv'
<1>1. NoControls \in ControlSets /\ NoArgs \in FinalizeArgs
  BY LifecycleAssumption DEF NoControls, ControlSets, NoArgs, FinalizeArgs
<1>2. CASE Refuse \/ Crash
  <2>1. Recovered' = Recovered
    BY <1>2 DEF Refuse, Crash, Recovered
  <2>2. /\ UNCHANGED <<payload, controls, journal, committed, matched, accepted>>
        /\ settled' \in BOOLEAN
        /\ Leave(NoArgs)
    BY <1>2 DEF Refuse, Crash, LifecycleInv, TypeOK
  <2>3. ~accepted
    BY <1>2 DEF LifecycleInv, Refuse, Crash
  <2> QED
    BY <1>1, <2>1, <2>2, <2>3 DEF LifecycleInv, TypeOK, OfOneRun, Leave
<1>3. CASE Rollback
  <2>1. Recovered' = original /\ Recovered = original
    BY <1>3, Pending DEF Rollback, Recovered
  <2>2. ~accepted
    BY <1>3 DEF LifecycleInv, Rollback
  <2> QED
    BY <1>1, <1>3, <2>1, <2>2 DEF LifecycleInv, TypeOK, OfOneRun, Rollback, Leave
<1> QED
  BY <1>2, <1>3

LEMMA WriteStep ==
  ASSUME LifecycleInv, Write
  PROVE  LifecycleInv'
<1>1. Recovered' = Recovered
  BY Pending DEF Write, Recovered
<1> QED
  BY <1>1 DEF LifecycleInv, TypeOK, OfOneRun, Write, call

LEMMA VerifyStep ==
  ASSUME LifecycleInv, NEW v \in VerifyArgs, Verify(v)
  PROVE  LifecycleInv'
<1>1. Recovered \in ControlSets /\ Recovered' = Recovered
  BY DEF LifecycleInv, TypeOK, OfOneRun, Verify, Recovered
<1>2. Verified(v, Recovered, payload) =>
        Declares(Recovered) /\ Recovered.inventory = payload
  BY DEF Verified, Declares
<1>3. accepted' \in BOOLEAN /\ settled' \in BOOLEAN
  BY DEF Verify, Verified, LifecycleInv, TypeOK
<1> QED
  BY <1>1, <1>2, <1>3 DEF LifecycleInv, TypeOK, OfOneRun, Verify, call

\* LifecycleInv is inductive.
LEMMA LifecycleStep == LifecycleInv /\ [Next]_vars => LifecycleInv'
<1> SUFFICES ASSUME LifecycleInv, [Next]_vars
             PROVE  LifecycleInv'
  OBVIOUS
<1>1. CASE UNCHANGED vars
  BY <1>1 DEF LifecycleInv, TypeOK, OfOneRun, vars, Recovered, FinalizePolicy, PreviouslySigned,
              Previous, ResolvedKeyId
<1>2. CASE Next
  BY <1>2, PipelineStep, StartStep, ReadStep, JournalStep, CommitStep, LeaveStep, WriteStep, VerifyStep DEF Next
<1> QED
  BY <1>1, <1>2

\* The invariant the properties of a release root rest on.
THEOREM LifecycleInvariant == Spec => []LifecycleInv
  BY LifecycleInit, LifecycleStep, PTL DEF Spec

\* verify_release_security accepts only what a finalization committed.
THEOREM AcceptedWasFinalized == Spec => []AcceptedWasCommitted
<1>1. LifecycleInv => AcceptedWasCommitted
  BY DEF LifecycleInv, AcceptedWasCommitted, Recovered
<1> QED
  BY <1>1, LifecycleInvariant, PTL

\* With the cross-file equalities in the finalizing side's contract, what is
\* accepted comes from one pipeline run, however runs raced the finalization
\* before the comparison of its commit, which read the artifacts inventoried.
THEOREM OneRun == Spec => []AcceptedIsOneRun
<1>1. LifecycleInv => AcceptedIsOneRun
  BY DEF LifecycleInv, AcceptedIsOneRun, OfOneRun, Recovered
<1> QED
  BY <1>1, LifecycleInvariant, PTL
\* The steps that change what readers find: a regenerated manifest, the journal
\* that hides one, and a commit.  Every other step leaves it alone.
LEMMA ReleaseChanges ==
  ASSUME LifecycleInv, [Next]_vars
  PROVE  \/ UNCHANGED Recovered
         \/ /\ Recovered'.signature = Recovered.signature
            /\ ~Declares(Recovered')
         \/ /\ pc = "compared"
            /\ Recovered = controls /\ Recovered' = original
         \/ /\ pc = "recomparing"
            /\ Recovered = original /\ Recovered' = controls
<1>1. CASE UNCHANGED vars
  BY <1>1 DEF vars, Recovered
<1>2. ASSUME NEW r \in Runs, WriteArtifacts(r) PROVE UNCHANGED Recovered
  BY <1>2 DEF WriteArtifacts, Recovered
<1>3. ASSUME NEW r \in Runs, WriteManifest(r)
      PROVE  \/ UNCHANGED Recovered
             \/ /\ Recovered'.signature = Recovered.signature
                /\ ~Declares(Recovered')
  <2>1. controls \in ControlSets
    BY DEF LifecycleInv, TypeOK
  <2>2. /\ controls'.signature = controls.signature
        /\ controls'.manifest = [run |-> r, security |-> None]
    BY <1>3, <2>1 DEF WriteManifest, ControlSets
  <2> QED
    BY <1>3, <2>2 DEF WriteManifest, Recovered, Declares
<1>4. ASSUME NEW f \in FinalizeArgs, Start(f) PROVE UNCHANGED Recovered
  BY <1>4 DEF Start, Recovered
<1>5. CASE Journal
  <2>1. journal = None /\ original \in ControlSets
    BY <1>5 DEF Journal, LifecycleInv, TypeOK
  <2> QED
    BY <1>5, <2>1, NoneAssumption DEF Journal, Recovered
<1>6. CASE ReadManifest \/ CompareManifest \/ CompareReports \/ Refuse \/ Crash
  BY <1>6 DEF ReadManifest, CompareManifest, CompareReports, Refuse, Crash, Recovered
<1>7. CASE Write
  BY <1>7, Pending DEF Write, Recovered
<1>8. CASE Commit
  BY <1>8, Pending DEF Commit, Recovered
<1>9. CASE Rollback
  BY <1>9, Pending DEF Rollback, Recovered
<1>10. ASSUME NEW v \in VerifyArgs, Verify(v) PROVE UNCHANGED Recovered
  BY <1>10 DEF Verify, Recovered
<1> QED
  BY <1>1, <1>2, <1>3, <1>4, <1>5, <1>6, <1>7, <1>8, <1>9, <1>10 DEF Next

\* No step takes the signature from a signed root.
THEOREM StaysSigned == Spec => NeverDowngraded
<1>1. LifecycleInv /\ [Next]_vars =>
        [Recovered.signature # None => Recovered'.signature # None]_vars
  <2> SUFFICES ASSUME LifecycleInv, [Next]_vars, Recovered.signature # None
               PROVE  Recovered'.signature # None
    OBVIOUS
  <2>1. CASE pc = "compared" /\ Recovered = controls /\ Recovered' = original
    BY <2>1 DEF LifecycleInv
  <2>2. CASE pc = "recomparing" /\ Recovered = original /\ Recovered' = controls
    BY <2>2 DEF LifecycleInv
  <2> QED
    BY <2>1, <2>2, ReleaseChanges
<1> QED
  BY <1>1, LifecycleInvariant, PTL DEF Spec, NeverDowngraded

\* No step lowers the sequence of a root, or drops it but with its contract.
THEOREM SequenceKept == Spec => SequenceNeverDecreases
<1> DEFINE Kept == (/\ Previous(Recovered, "sequence") # None
                    /\ Declares(Recovered')) =>
                     /\ Previous(Recovered, "sequence")' # None
                     /\ Previous(Recovered, "sequence")' >= Previous(Recovered, "sequence")
<1>1. LifecycleInv /\ [Next]_vars => [Kept]_vars
  <2> SUFFICES ASSUME LifecycleInv, [Next]_vars,
                      Previous(Recovered, "sequence") # None,
                      Declares(Recovered')
               PROVE  /\ Previous(Recovered, "sequence")' # None
                      /\ Previous(Recovered, "sequence")' >= Previous(Recovered, "sequence")
    OBVIOUS
  <2>1. Declares(Recovered)
    BY DEF Previous, Declares
  <2>2. Previous(Recovered, "sequence") \in Nat
    <3>1. Recovered \in ControlSets
      BY DEF LifecycleInv, TypeOK, OfOneRun, Recovered
    <3>2. Previous(Recovered, "sequence") \in Sequences
      BY <3>1, PreviousType
    <3> QED
      BY <3>2, LifecycleAssumption DEF Sequences
  <2>3. Previous(Recovered, "sequence")' = Previous(Recovered', "sequence")
    BY DEF Previous
  <2>4. CASE UNCHANGED Recovered
    BY <2>2, <2>3, <2>4
  <2>5. CASE pc = "compared" /\ Recovered = controls /\ Recovered' = original
    BY <2>1, <2>2, <2>3, <2>5 DEF LifecycleInv
  <2>6. CASE pc = "recomparing" /\ Recovered = original /\ Recovered' = controls
    BY <2>1, <2>2, <2>3, <2>6 DEF LifecycleInv
  <2> QED
    BY <2>4, <2>5, <2>6, ReleaseChanges
<1> QED
  BY <1>1, LifecycleInvariant, PTL DEF Spec, SequenceNeverDecreases

-----------------------------------------------------------------------------
(* The two policies agree.                                                 *)

\* What a finalization with arguments f provides.
Provides(c, f) ==
  /\ Declares(c)
  /\ StateOf[c.manifest.run] \in f.allowed
  /\ c.inventory = c.manifest.security.inventory
  /\ f.key = None => /\ c.signature = None
                     /\ ~c.manifest.security.required
                     /\ ~c.manifest.security.signed
  /\ f.key # None => c.signature = [key |-> f.key, manifest |-> c.manifest]

SettledInv ==
  /\ pc \in {"journaled", "written", "recomparing"} => Provides(new, args)
  /\ settled => pc \in {"written", "recomparing", "idle"}
  /\ settled /\ pc \in {"written", "recomparing"} =>
       controls = new /\ payload = new.inventory
  /\ settled /\ pc = "recomparing" => compared = controls.manifest
  /\ settled /\ pc = "idle" => /\ journal = None
                               /\ Provides(controls, args)
                               /\ Equalities => controls.manifest.run = payload
                               /\ payload = controls.inventory

LEMMA FinalizedProvides ==
  ASSUME NEW f \in FinalizeArgs, NEW c \in ControlSets, NEW m \in Manifests \cup {None},
         NEW a \in Runs, FinalizePolicy(f, c, m)
  PROVE  Provides(Finalized(f, c, m, a), f)
<1> DEFINE id == ResolvedKeyId(f, c)
           security == [inventory |-> a,
                        signed |-> f.key # None,
                        required |-> f.key # None,
                        keyId |-> IF f.key # None /\ id = None THEN DefaultId ELSE id,
                        sequence |-> ResolvedSequence(f, c)]
           sealed == [run |-> m.run, security |-> security]
           signature == IF f.key = None THEN None ELSE [key |-> f.key, manifest |-> sealed]
           result == Finalized(f, c, m, a)
<1> HIDE DEF id
<1>1. result = [manifest |-> sealed, inventory |-> a, signature |-> signature]
  BY DEF Finalized, id
<1>2. Declares(result)
  BY FinalizedFacts
<1>3. StateOf[m.run] \in f.allowed
  BY DEF FinalizePolicy
<1> HIDE DEF result
<1>4. result.manifest = sealed /\ result.inventory = a /\ result.signature = signature
  BY <1>1
<1>5. /\ result.manifest.run = m.run
      /\ result.manifest.security.inventory = a
      /\ result.manifest.security.required = (f.key # None)
      /\ result.manifest.security.signed = (f.key # None)
  BY <1>4
<1>6. f.key = None => result.signature = None
  BY <1>4
<1>7. f.key # None => result.signature = [key |-> f.key, manifest |-> result.manifest]
  BY <1>4
<1>8. Provides(result, f)
  BY <1>2, <1>3, <1>4, <1>5, <1>6, <1>7 DEF Provides
<1> QED
  BY <1>8 DEF result

LEMMA SettledStep == LifecycleInv /\ SettledInv /\ [Next]_vars => SettledInv'
<1> SUFFICES ASSUME LifecycleInv, SettledInv, Next \/ UNCHANGED vars
             PROVE  SettledInv'
  OBVIOUS
<1>1. CASE UNCHANGED vars
  BY <1>1 DEF SettledInv, vars
<1>2. ASSUME NEW r \in Runs, WriteArtifacts(r) \/ WriteManifest(r) PROVE SettledInv'
  BY <1>2 DEF SettledInv, WriteArtifacts, WriteManifest, call
<1>3. ASSUME NEW f \in FinalizeArgs, Start(f) PROVE SettledInv'
  BY <1>3 DEF SettledInv, Start
<1>4. CASE ReadManifest \/ CompareManifest \/ CompareReports
  BY <1>4 DEF SettledInv, ReadManifest, CompareManifest, CompareReports
<1>5. CASE Journal
  <2>1. /\ args \in FinalizeArgs /\ original \in ControlSets /\ payload \in Runs
        /\ manifest \in Manifests \cup {None}
        /\ FinalizePolicy(args, original, manifest)
    BY <1>5 DEF LifecycleInv, TypeOK, OfOneRun, Journal
  <2>2. Provides(new', args)
    BY <1>5, <2>1, FinalizedProvides DEF Journal
  <2> QED
    BY <1>5, <2>2 DEF SettledInv, Journal
<1>6. CASE Refuse
  BY <1>6 DEF SettledInv, Refuse, Leave
<1>7. CASE Write
  BY <1>7 DEF SettledInv, Write, call
<1>8. CASE Commit
  BY <1>8 DEF SettledInv, Commit, Leave, EqualitiesHold
<1>9. CASE Rollback \/ Crash
  BY <1>9 DEF SettledInv, Rollback, Crash, Leave
<1>10. ASSUME NEW v \in VerifyArgs, Verify(v) PROVE SettledInv'
  BY <1>10 DEF SettledInv, Verify, Recovered, call
<1> QED
  BY <1>1, <1>2, <1>3, <1>4, <1>5, <1>6, <1>7, <1>8, <1>9, <1>10 DEF Next

LEMMA ProvidedVerifies ==
  ASSUME LifecycleInv, SettledInv, settled, pc = "idle", NEW v \in VerifyArgs,
         v.key = args.key, v.allowed = args.allowed, v.require => args.key # None,
         v.keyId \in {None, controls.manifest.security.keyId},
         v.minimum # None => /\ controls.manifest.security.sequence # None
                             /\ v.minimum <= controls.manifest.security.sequence,
         v.equalities => Equalities
  PROVE  Verified(v, Recovered, payload)
<1>1. /\ Recovered = controls /\ Provides(controls, args) /\ payload = controls.inventory
      /\ Equalities => controls.manifest.run = payload
  BY DEF SettledInv, Recovered
<1>2. controls.manifest # None /\ controls.manifest.security # None
  BY <1>1 DEF Provides, Declares
<1>3. SignatureAccepted(v, controls)
  <2>1. CASE args.key = None
    BY <1>1, <2>1 DEF Provides, SignatureAccepted
  <2>2. CASE args.key # None
    <3>1. controls.signature = [key |-> args.key, manifest |-> controls.manifest]
      BY <1>1, <2>2 DEF Provides
    <3>2. controls.signature # None
      <4>1. args.key \in Keys /\ controls.manifest \in Manifests
        BY <1>2, <2>2 DEF LifecycleInv, TypeOK, OfOneRun, FinalizeArgs, ControlSets
      <4> QED
        BY <3>1, <4>1, NoneAssumption DEF Signatures
    <3> QED
      BY <2>2, <3>1, <3>2 DEF SignatureAccepted
  <2> QED
    BY <2>1, <2>2
<1>4. v.minimum # None => /\ controls.manifest.security.sequence # None
                          /\ controls.manifest.security.sequence >= v.minimum
  <2> SUFFICES ASSUME v.minimum # None
               PROVE  controls.manifest.security.sequence >= v.minimum
    OBVIOUS
  <2>1. v.minimum \in Sequences
    BY DEF VerifyArgs
  <2>2. controls.manifest.security \in Securities
    BY <1>2 DEF LifecycleInv, TypeOK, OfOneRun, ControlSets, Manifests
  <2>3. controls.manifest.security.sequence \in Sequences
    BY <2>2 DEF Securities
  <2> DEFINE s == controls.manifest.security.sequence
             m == v.minimum
  <2>4. s \in Int /\ m \in Int /\ m <= s
    BY <2>1, <2>3 DEF Sequences
  <2> HIDE DEF s, m
  <2>5. s >= m
    BY <2>4
  <2> QED
    BY <2>5 DEF s, m
<1>5. EqualitiesHold(v.equalities, controls.manifest, payload)
  BY <1>1, <1>2 DEF EqualitiesHold
<1> QED
  BY <1>1, <1>2, <1>3, <1>4, <1>5 DEF Verified, Provides

\* What a finalization has committed, every verification accepts whose contract
\* asks no more than the finalization provided.
THEOREM FinalizedVerifies == Spec => []FinalizedReleaseVerifies
<1>1. Init => SettledInv
  BY DEF Init, SettledInv
<1>2. LifecycleInv /\ SettledInv => FinalizedReleaseVerifies
  BY ProvidedVerifies DEF FinalizedReleaseVerifies
<1> QED
  BY <1>1, <1>2, SettledStep, LifecycleInvariant, PTL DEF Spec
=============================================================================
