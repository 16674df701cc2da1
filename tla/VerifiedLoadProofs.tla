-------------------------- MODULE VerifiedLoadProofs --------------------------
(***************************************************************************)
(* Proofs about VerifiedLoad, for every set of bundles, artifacts and      *)
(* requests: what the loader hands out is the release it reports as long   *)
(* as the inventory alone is replaced under the lock, and the verifier's   *)
(* answer speaks at once of all the files that are.                        *)
(* Then about CommandLine, which implements it: what the command accepts   *)
(* meets the contract it loaded, and no invalid contract is left behind.   *)
(***************************************************************************)
EXTENDS CommandLine, TLAPS

\* What the caller's steps do to a file: nothing.
LEMMA CallerKeepsFiles == (Call \/ Work) => UNCHANGED file
  BY DEF Call, Work, Validate, ValidateFails, Lock, LockTimeout, Revalidate,
         RevalidateFails, ReadManifest, PolicyFails, HashInventory,
         HashInventoryFails, ReadInventory, VerifyArtifact, VerifyArtifactFails,
         CheckSignature, CheckSignatureFails, ReadArtifact, ReadArtifactFails,
         ReadDone, Return, Fail, Go

\* The invariant holds before the first call.
LEMMA LoadInit == Init => LoadInv
  BY LoadAssumption
  DEF Init, LoadInv, TypeOK, Locked, PCs, Entries, Files, Controls, Errors

\* A call keeps it; so does each of its steps, whatever is in the files.
LEMMA CallStep == LoadInv /\ Call => LoadInv'
  BY LoadAssumption DEF LoadInv, TypeOK, Call, Locked, PCs, Entries, Errors

LEMMA LockSteps ==
  LoadInv /\ (Validate \/ ValidateFails \/ Lock \/ LockTimeout
                \/ Revalidate \/ RevalidateFails) => LoadInv'
  BY LoadAssumption
  DEF LoadInv, TypeOK, Validate, ValidateFails, Lock, LockTimeout, Revalidate,
      RevalidateFails, Fail, Go, call, reads, Locked, PCs, Errors

LEMMA ControlSteps ==
  LoadInv /\ (ReadManifest \/ PolicyFails \/ HashInventory
                \/ HashInventoryFails \/ ReadInventory) => LoadInv'
  BY LoadAssumption
  DEF LoadInv, TypeOK, ReadManifest, PolicyFails, HashInventory, Files, Controls,
      HashInventoryFails, ReadInventory, Fail, Go, call, reads, Locked, PCs, Errors

LEMMA VerifySteps ==
  LoadInv /\ ((\E a \in Artifacts : VerifyArtifact(a) \/ VerifyArtifactFails(a))
                \/ CheckSignature \/ CheckSignatureFails) => LoadInv'
  BY LoadAssumption
  DEF LoadInv, TypeOK, VerifyArtifact, VerifyArtifactFails, CheckSignature,
      CheckSignatureFails, Fail, Go, call, reads, Locked, PCs, Errors

LEMMA ReadSteps ==
  LoadInv /\ ((\E a \in Artifacts : ReadArtifact(a) \/ ReadArtifactFails(a))
                \/ ReadDone \/ Return) => LoadInv'
  BY LoadAssumption
  DEF LoadInv, TypeOK, ReadArtifact, ReadArtifactFails, ReadDone, Return, Files,
      Fail, Go, call, reads, Locked, PCs, Errors

\* Writers keep it as long as the inventory is not replaced under the caller.
LEMMA OtherSteps ==
  ASSUME "inventory" \notin Unlocked
  PROVE  LoadInv /\ (OtherLocks \/ OtherUnlocks \/ (\E f \in Files : OtherWrites(f)))
           => LoadInv'
  BY LoadAssumption
  DEF LoadInv, TypeOK, OtherLocks, OtherUnlocks, OtherWrites, call, reads,
      Locked, PCs, Files, Controls

\* LoadInv is inductive.
LEMMA LoadStep ==
  ASSUME "inventory" \notin Unlocked
  PROVE  LoadInv /\ [Next]_vars => LoadInv'
<1>1. CASE UNCHANGED vars
  BY <1>1 DEF LoadInv, TypeOK, vars, call, reads, Locked
<1>2. CASE Call
  BY <1>2, CallStep
<1>3. CASE Work
  BY <1>3, LockSteps, ControlSteps, VerifySteps, ReadSteps DEF Work
<1>4. CASE OtherLocks \/ OtherUnlocks \/ \E f \in Files : OtherWrites(f)
  BY <1>4, OtherSteps
<1> QED
  BY <1>1, <1>2, <1>3, <1>4 DEF Next

\* The invariant that LoadedIsVerifiedRelease rests on, of every behaviour in
\* which the inventory is replaced under the lock only.
THEOREM LoadInvariant ==
  ASSUME "inventory" \notin Unlocked
  PROVE  Spec => []LoadInv
  BY LoadInit, LoadStep, PTL DEF Spec

\* read_verified_artifacts returns bytes of the release whose manifest it
\* reports, though every other file is replaced without the lock at any time.
THEOREM LoadIsVerified ==
  ASSUME "inventory" \notin Unlocked
  PROVE  Spec => []LoadedIsVerifiedRelease
<1>1. LoadInv => LoadedIsVerifiedRelease
  BY DEF LoadInv, LoadedIsVerifiedRelease
<1> QED
  BY <1>1, LoadInvariant, PTL

\* What is replaced under the lock only rests while the caller holds it.
LEMMA FilesRest ==
  ASSUME LoadInv, owner = "caller", [Next]_vars
  PROVE  \A f \in Files \ Unlocked : file'[f] = file[f]
<1>1. CASE \E g \in Files : OtherWrites(g)
  <2>1. PICK g \in Unlocked, v \in Versions : file' = [file EXCEPT ![g] = v]
    BY <1>1 DEF OtherWrites
  <2> QED
    BY <2>1 DEF LoadInv, TypeOK
<1>2. CASE ~\E g \in Files : OtherWrites(g)
  BY <1>2, CallerKeepsFiles DEF Next, OtherLocks, OtherUnlocks, vars
<1> QED
  BY <1>1, <1>2

\* WholeInv is inductive: the steps under the lock see resting files, the
\* others establish nothing it speaks of.
LEMMA WholeStep ==
  ASSUME "inventory" \notin Unlocked
  PROVE  WholeInv /\ [Next]_vars => WholeInv'
<1> SUFFICES ASSUME WholeInv, [Next]_vars
             PROVE  WholeInv'
  OBVIOUS
<1>1. LoadInv'
  BY LoadStep DEF WholeInv
<1>2. CASE pc \notin Locked
  <2>1. pc' \notin {"hashInventory", "readInventory", "verifyArtifacts",
                    "readArtifacts", "return"}
    BY <1>2 DEF Next, vars, Call, Work, Validate, ValidateFails, Lock, LockTimeout,
         Revalidate, RevalidateFails, ReadManifest, PolicyFails, HashInventory,
         HashInventoryFails, ReadInventory, VerifyArtifact, VerifyArtifactFails,
         CheckSignature, CheckSignatureFails, ReadArtifact, ReadArtifactFails,
         ReadDone, Return, Fail, Go, Locked, OtherLocks, OtherUnlocks, OtherWrites
  <2> QED
    BY <1>1, <2>1 DEF WholeInv
<1>3. CASE pc \in Locked
  <2>1. \A f \in Files \ Unlocked : file'[f] = file[f]
    BY <1>3, FilesRest DEF WholeInv, LoadInv
  <2>2. /\ "manifest" \in Files /\ "signature" \in Files
        /\ \A v \in Versions : Listed[v] \subseteq Files
    BY LoadAssumption DEF Files, Controls
  <2>3. pc \in {"readInventory", "verifyArtifacts", "readArtifacts", "return"} =>
          manifest \in Versions
    BY DEF WholeInv, LoadInv, TypeOK, Files, Controls
  <2>4. CASE Call \/ OtherLocks \/ OtherUnlocks \/ UNCHANGED vars
             \/ \E f \in Files : OtherWrites(f)
    BY <1>1, <1>3, <2>1, <2>2, <2>3, <2>4
    DEF WholeInv, Call, OtherLocks, OtherUnlocks, OtherWrites, vars, call, reads, Locked
  <2>5. CASE Work
    <3>0. UNCHANGED file
      BY <2>5, CallerKeepsFiles
    <3>1. CASE Revalidate \/ RevalidateFails \/ ReadManifest \/ PolicyFails
               \/ HashInventory \/ HashInventoryFails
      BY <1>1, <3>0, <3>1
      DEF WholeInv, Revalidate, RevalidateFails, ReadManifest, PolicyFails,
          HashInventory, HashInventoryFails, Fail, Go, call, reads
    <3>2. CASE ReadInventory
      BY <1>1, <3>0, <3>2 DEF WholeInv, LoadInv, ReadInventory, Go
    <3>3. CASE \E a \in Artifacts : VerifyArtifact(a) \/ VerifyArtifactFails(a)
      BY <1>1, <3>0, <3>3
      DEF WholeInv, LoadInv, VerifyArtifact, VerifyArtifactFails, Fail, Go, reads
    <3>4. CASE CheckSignature \/ CheckSignatureFails
      BY <1>1, <3>0, <3>4
      DEF WholeInv, CheckSignature, CheckSignatureFails, Fail, Go, reads
    <3>5. CASE (\E a \in Artifacts : ReadArtifact(a) \/ ReadArtifactFails(a))
               \/ ReadDone \/ Return
      BY <1>1, <3>0, <3>5
      DEF WholeInv, ReadArtifact, ReadArtifactFails, ReadDone, Return, Fail, Go,
          call, reads
    <3> QED
      BY <1>3, <2>5, <3>1, <3>2, <3>3, <3>4, <3>5
      DEF Work, Validate, ValidateFails, Lock, LockTimeout, Locked
  <2> QED
    BY <2>4, <2>5 DEF Next
<1> QED
  BY <1>2, <1>3

\* What AcceptedBundleIsWhole rests on, with the inventory under the lock.
THEOREM WholeInvariant ==
  ASSUME "inventory" \notin Unlocked
  PROVE  Spec => []WholeInv
<1>1. Init => WholeInv
  BY LoadInit DEF Init, WholeInv
<1>2. WholeInv /\ [Next]_vars => WholeInv'
  BY WholeStep
<1> QED
  BY <1>1, <1>2, PTL DEF Spec

\* _verify_release_security_locked checks the files one after the other; what
\* it answers is nevertheless true, at once, of all that are locked.
THEOREM AcceptedIsWhole ==
  ASSUME "inventory" \notin Unlocked
  PROVE  Spec => []AcceptedBundleIsWhole
<1>1. WholeInv => AcceptedBundleIsWhole
  BY DEF WholeInv, LoadInv, AcceptedBundleIsWhole, Controls
<1> QED
  BY <1>1, WholeInvariant, PTL

-----------------------------------------------------------------------------
(* The command.                                                            *)

\* Every step of the command is one of VerifiedLoad, or leaves it alone.
LEMMA CommandSteps == [CommandNext]_commandVars => [Next]_vars
  BY DEF CommandNext, commandVars, Render, RenderReturns, RenderRefused, RemoveRendered,
         RendererDies, Invoke, Serve, Verify, Others, Next

\* The command calls verify_release_security as any caller may: all that holds
\* of its calls holds of the command's.
THEOREM CommandImplementsLoad == CommandSpec => Spec
<1>1. CommandInit => Init
  BY DEF CommandInit
<1> QED
  BY <1>1, CommandSteps, PTL DEF CommandSpec, Spec

\* What the command accepts is whole.
THEOREM AcceptedByCommandIsWhole ==
  ASSUME "inventory" \notin Unlocked
  PROVE  CommandSpec => []AcceptedBundleIsWhole
  BY CommandImplementsLoad, AcceptedIsWhole, PTL

\* Types are kept, with or without the lock.
LEMMA TypeStep == TypeOK /\ [Next]_vars => TypeOK'
<1> SUFFICES ASSUME TypeOK, [Next]_vars
             PROVE  TypeOK'
  OBVIOUS
<1>1. CASE UNCHANGED vars
  BY <1>1 DEF TypeOK, vars, call, reads
<1>2. CASE Call
  BY <1>2 DEF TypeOK, Call, PCs, Errors
<1>3. CASE Validate \/ ValidateFails \/ Lock \/ LockTimeout \/ Revalidate \/ RevalidateFails
  BY <1>3 DEF TypeOK, Validate, ValidateFails, Lock, LockTimeout, Revalidate,
              RevalidateFails, Fail, Go, call, reads, PCs, Errors
<1>4. CASE ReadManifest \/ PolicyFails \/ HashInventory \/ HashInventoryFails \/ ReadInventory
  BY <1>4, LoadAssumption
  DEF TypeOK, ReadManifest, PolicyFails, HashInventory, HashInventoryFails,
      ReadInventory, Fail, Go, call, reads, PCs, Errors, Files, Controls
<1>5. CASE \/ \E a \in Artifacts : VerifyArtifact(a) \/ VerifyArtifactFails(a)
           \/ CheckSignature \/ CheckSignatureFails
  BY <1>5 DEF TypeOK, VerifyArtifact, VerifyArtifactFails, CheckSignature,
              CheckSignatureFails, Fail, Go, call, reads, PCs, Errors
<1>6. CASE (\E a \in Artifacts : ReadArtifact(a) \/ ReadArtifactFails(a)) \/ ReadDone \/ Return
  BY <1>6 DEF TypeOK, ReadArtifact, ReadArtifactFails, ReadDone, Return, Files,
              Fail, Go, call, reads, PCs, Errors
<1>7. CASE OtherLocks \/ OtherUnlocks \/ \E f \in Files : OtherWrites(f)
  BY <1>7 DEF TypeOK, OtherLocks, OtherUnlocks, OtherWrites, call, reads
<1> QED
  BY <1>1, <1>2, <1>3, <1>4, <1>5, <1>6, <1>7 DEF Next, Work

LEMMA CommandInitially == CommandInit => CommandInv
<1> SUFFICES ASSUME CommandInit
             PROVE  CommandInv
  OBVIOUS
<1>1. TypeOK
  BY LoadInit DEF CommandInit, LoadInv
<1>2. Handwritten \subseteq {d \in Documents : Valid(d)}
  BY CommandLineAssumption
<1>3. CommandTypeOK
  BY <1>1, <1>2, CommandLineAssumption
  DEF CommandInit, CommandTypeOK, NoCommand, Commands
<1>4. pc = "idle"
  BY DEF CommandInit, Init
<1> QED
  BY <1>2, <1>3, <1>4, CommandLineAssumption
  DEF CommandInv, CommandInit, InvalidContractIsRemoved, NoCommand, KeyIdsAgree

\* A rendering concerns the contract file alone.
LEMMA RendererStep ==
  ASSUME CommandInv, NEW r \in Renderers,
         \/ Render(r)
         \/ RenderReturns(r)
         \/ RenderRefused(r)
         \/ RemoveRendered(r)
         \/ RendererDies(r)
  PROVE  CommandInv'
<1>1. UNCHANGED <<vars, command>>
  BY DEF Render, RenderReturns, RenderRefused, RemoveRendered, RendererDies
<1>2. UNCHANGED <<pc, file, manifest, TypeOK>>
  BY <1>1 DEF vars, call, reads, TypeOK
<1>3. contractFile' \in Documents \cup {None}
  <2>1. \A input \in Inputs : Rendered(input) \in Documents
    BY CommandLineAssumption DEF Rendered, Documents, ReleaseStates
  <2> QED
    BY <2>1 DEF CommandInv, CommandTypeOK, Render, RenderReturns, RenderRefused,
                RemoveRendered, RendererDies
<1>4. /\ renderer' \in [Renderers -> {"idle", "written", "refused"}]
      /\ contractBy' \in Renderers \cup {"nobody", "dead"}
  BY DEF CommandInv, CommandTypeOK, Render, RenderReturns, RenderRefused,
         RemoveRendered, RendererDies
<1>5. InvalidContractIsRemoved'
  <2>1. CASE Render(r)
    BY <2>1 DEF Render, InvalidContractIsRemoved, CommandInv, CommandTypeOK
  <2>2. CASE RenderReturns(r)
    BY <2>2 DEF RenderReturns, Loadable, InvalidContractIsRemoved
  <2>3. CASE RenderRefused(r)
    BY <2>3 DEF RenderRefused, InvalidContractIsRemoved, CommandInv, CommandTypeOK
  <2>4. CASE RemoveRendered(r)
    BY <2>4 DEF RemoveRendered, InvalidContractIsRemoved
  <2>5. CASE RendererDies(r)
    BY <2>5 DEF RendererDies, InvalidContractIsRemoved, CommandInv, CommandTypeOK
  <2> QED
    BY <2>1, <2>2, <2>3, <2>4, <2>5
<1> QED
  BY <1>1, <1>2, <1>3, <1>4, <1>5
  DEF CommandInv, CommandTypeOK, Meets, AllowedStates, Minimum, ExpectedKeyId, KeyIdsAgree

\* A command starts with a contract that load_release_contract accepted.
LEMMA CallerStep ==
  ASSUME CommandInv, Invoke \/ Serve, TypeOK'
  PROVE  CommandInv'
<1>1. UNCHANGED contractVars
  BY DEF Invoke, Serve
<1>2. pc' \in {"validate", "lock"}
  BY DEF Invoke, Serve, Call
<1>3. /\ command' \in Commands
      /\ command'.given <=> command'.contract # None
      /\ command'.contract # None => Valid(command'.contract)
      /\ KeyIdsAgree(command'.contract, command'.keyId)
  <2>1. CASE Serve
    BY <2>1, CommandLineAssumption DEF Serve, NoCommand, Commands, KeyIdsAgree
  <2>2. CASE Invoke
    <3>1. PICK given \in BOOLEAN, promote \in BOOLEAN, flag \in KeyIds \cup {None},
               environment \in Environments :
               \E d \in IF given THEN LoadContract ELSE {None} :
                 /\ KeyIdsAgree(d, flag)
                 /\ command' = [given |-> given, contract |-> d, promote |-> promote,
                                keyId |-> flag, environment |-> environment]
      BY <2>2 DEF Invoke
    <3>2. PICK d \in IF given THEN LoadContract ELSE {None} :
                 /\ KeyIdsAgree(d, flag)
                 /\ command' = [given |-> given, contract |-> d, promote |-> promote,
                                keyId |-> flag, environment |-> environment]
      BY <3>1
    <3>3. IF given THEN d # None /\ Valid(d) /\ d \in Documents ELSE d = None
      BY DEF LoadContract, Loadable, CommandInv, CommandTypeOK
    <3> QED
      BY <3>2, <3>3, CommandLineAssumption DEF Commands
  <2> QED
    BY <2>1, <2>2
<1> QED
  BY <1>1, <1>2, <1>3
  DEF CommandInv, CommandTypeOK, contractVars, InvalidContractIsRemoved, KeyIdsAgree, Valid

\* The call goes on: the manifest is checked when it is read, and kept.
LEMMA VerifyStep ==
  ASSUME CommandInv, Verify, TypeOK'
  PROVE  CommandInv'
<1> DEFINE Checked == {"hashInventory", "readInventory", "verifyArtifacts", "readArtifacts",
                       "return", "done"}
<1>1. UNCHANGED contractVars /\ command' = IF pc' = "failed" THEN NoCommand ELSE command
  BY DEF Verify
<1>2. /\ command' \in Commands
      /\ command'.given <=> command'.contract # None
      /\ command'.contract # None => Valid(command'.contract)
      /\ KeyIdsAgree(command'.contract, command'.keyId)
  BY <1>1, CommandLineAssumption
  DEF CommandInv, CommandTypeOK, NoCommand, Commands, KeyIdsAgree, Valid
<1>3. pc' \in Checked => Meets(command, manifest')
  <2>1. CASE pc = "readManifest"
    <3>1. pc' \in Checked => manifest' = file["manifest"] /\ pc' = "hashInventory"
      BY <2>1 DEF Verify, Work, Validate, ValidateFails, Lock, LockTimeout, Revalidate,
           RevalidateFails, ReadManifest, PolicyFails, HashInventory, HashInventoryFails,
           ReadInventory, VerifyArtifact, VerifyArtifactFails, CheckSignature,
           CheckSignatureFails, ReadArtifact, ReadArtifactFails, ReadDone, Return, Fail, Go
    <3> QED
      BY <2>1, <3>1 DEF Verify
  <2>2. CASE pc # "readManifest"
    <3>1. pc' \in Checked => pc \in Checked /\ manifest' = manifest
      BY <2>2 DEF Verify, Work, Validate, ValidateFails, Lock, LockTimeout, Revalidate,
           RevalidateFails, ReadManifest, PolicyFails, HashInventory, HashInventoryFails,
           ReadInventory, VerifyArtifact, VerifyArtifactFails, CheckSignature,
           CheckSignatureFails, ReadArtifact, ReadArtifactFails, ReadDone, Return, Fail, Go,
           reads
    <3> QED
      BY <3>1 DEF CommandInv
  <2> QED
    BY <2>1, <2>2
<1>4. pc' \in Checked => Meets(command, manifest)'
  BY <1>1, <1>3 DEF Meets, AllowedStates, Minimum, ExpectedKeyId
<1> QED
  BY <1>1, <1>2, <1>4
  DEF CommandInv, CommandTypeOK, contractVars, InvalidContractIsRemoved, KeyIdsAgree, Valid

\* CommandInv is inductive.
LEMMA CommandStep == CommandInv /\ [CommandNext]_commandVars => CommandInv'
<1> SUFFICES ASSUME CommandInv, [CommandNext]_commandVars
             PROVE  CommandInv'
  OBVIOUS
<1>1. TypeOK'
  BY CommandSteps, TypeStep DEF CommandInv, CommandTypeOK
<1>2. CASE Others \/ UNCHANGED commandVars
  <2>1. UNCHANGED <<contractFile, renderer, contractBy, command, pc, manifest>>
    BY <1>2 DEF Others, OtherLocks, OtherUnlocks, OtherWrites, commandVars, contractVars,
                vars, reads
  <2> QED
    BY <1>1, <2>1
    DEF CommandInv, CommandTypeOK, InvalidContractIsRemoved, KeyIdsAgree, Valid, Meets,
        AllowedStates, Minimum, ExpectedKeyId
<1> QED
  BY <1>1, <1>2, RendererStep, CallerStep, VerifyStep DEF CommandNext

\* The invariant of the command and its contract.
THEOREM CommandInvariant == CommandSpec => []CommandInv
  BY CommandInitially, CommandStep, PTL DEF CommandSpec

\* main of cli.py accepts what meets the loaded contract and the flags, though
\* contract and release files are replaced while it verifies.
THEOREM CommandMeetsContract == CommandSpec => []AcceptedUnderContract
<1>1. CommandInv => AcceptedUnderContract
  BY DEF CommandInv, AcceptedUnderContract, Meets, AllowedStates, Minimum, ExpectedKeyId,
         KeyIdsAgree
<1> QED
  BY <1>1, CommandInvariant, PTL

\* render_release_contract_template leaves no invalid contract behind, unless it
\* is killed: whatever other renderings do to the file meanwhile.
THEOREM InvalidContractsGo == CommandSpec => []InvalidContractIsRemoved
<1>1. CommandInv => InvalidContractIsRemoved
  BY DEF CommandInv
<1> QED
  BY <1>1, CommandInvariant, PTL
=============================================================================
