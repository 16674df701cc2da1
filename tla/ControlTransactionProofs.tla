---------------------- MODULE ControlTransactionProofs ----------------------
(***************************************************************************)
(* Proofs about ControlTransaction, for any set of processes, contents and *)
(* releases, and any number of kills and power losses: first what the disk *)
(* holds (ControlInv), from which the refinement of AtomicRelease follows, *)
(* then what processes see (ViewInv), which needs no directory fsync.      *)
(***************************************************************************)
EXTENDS ControlTransaction, TLAPS

LEMMA StateEntry ==
  ASSUME NEW s \in States, NEW c \in Controls
  PROVE  s[c] \in Contents \cup {Absent}
  BY DEF States

LEMMA StateUpdate ==
  ASSUME NEW s \in States, NEW c \in Controls, NEW v \in Contents \cup {Absent}
  PROVE  [s EXCEPT ![c] = v] \in States
  BY DEF States

LEMMA InitType == Init => TypeOK
  <1> SUFFICES ASSUME Init PROVE TypeOK
    OBVIOUS
  <1>1. NoFiles \in States
    BY DEF NoFiles, States
  <1>2. controls \in States
    BY <1>1, ReleasesAssumption DEF Init, States, Controls
  <1>3. QED
    BY <1>1, <1>2 DEF Init, TypeOK, PCs, Roles

LEMMA TypeStep == TypeOK /\ [Next]_vars => TypeOK'
  <1> SUFFICES ASSUME TypeOK, [Next]_vars PROVE TypeOK'
    OBVIOUS
  <1> USE DEF TypeOK
  <1>0. NoFiles \in States
    BY DEF NoFiles, States
  <1>1. ASSUME NEW p \in Processes, Begin(p) PROVE TypeOK'
    BY <1>1 DEF Begin, Goto, PCs, files, locals, faults, Roles
  <1>2. ASSUME NEW p \in Processes, Acquire(p) \/ LockTimeout(p) PROVE TypeOK'
    BY <1>2 DEF Acquire, LockTimeout, Goto, PCs, Critical, Recovering, files, locals, answers, faults
  <1>3. ASSUME NEW p \in Processes, Recovery(p) PROVE TypeOK'
    <2>1. CASE SkipRecovery(p) \/ StartRecovery(p)
      BY <2>1, <1>3 DEF SkipRecovery, StartRecovery, Inside, Goto, Body, PCs, Critical, Recovering, Verifying, BeforeTry, files, locals, answers, faults
    <2>2. ASSUME NEW c \in Controls, RestoreControl(p, c) PROVE TypeOK'
      BY <2>2, <1>3 DEF RestoreControl, Replace, Inside, Goto, PCs, Critical, Recovering, files, locals, answers, faults, States
    <2>3. CASE SyncRestored(p)
      BY <2>3, <1>3 DEF SyncRestored, SyncRoot, Inside, Goto, PCs, Critical, Recovering, files, locals, answers, faults
    <2>4. CASE DropJournal(p)
      BY <2>4, <1>3 DEF DropJournal, WriteJournalFile, Inside, Goto, PCs, Critical, Recovering, files, locals, answers, faults
    <2>5. CASE SyncDropped(p)
      BY <2>5, <1>3 DEF SyncDropped, SyncParent, Inside, Goto, Body, PCs, Critical, Verifying, BeforeTry, files, locals, answers, faults
    <2>6. QED
      BY <1>3, <2>1, <2>2, <2>3, <2>4, <2>5 DEF Recovery
  <1>4. ASSUME NEW p \in Processes, Finalization(p) PROVE TypeOK'
    <2> USE DEF Inside, Goto, PCs, Critical, files, locals, answers, faults
    <2>1. CASE TakeSnapshot(p) \/ CheckPolicy(p)
      BY <2>1, ReleasesAssumption DEF TakeSnapshot, CheckPolicy, BeforeTry
    <2>2. CASE WriteJournal(p) \/ SyncJournal(p)
      BY <2>2 DEF WriteJournal, SyncJournal, WriteJournalFile, SyncParent, BeforeTry, InTry
    <2>3. CASE WriteInventory(p) \/ WriteSignature(p) \/ WriteManifest(p)
      <3>1. PICK c \in Controls : Replace(c, new[p][c])
        BY <2>3 DEF WriteInventory, WriteSignature, WriteManifest, WriteControl, Controls
      <3>2. controls' \in States
        BY <3>1, StateEntry, StateUpdate DEF Replace
      <3>3. pc' \in [Processes -> PCs]
        BY <2>3 DEF WriteInventory, WriteSignature, WriteManifest, WriteControl, InTry
      <3>4. QED
        BY <2>3, <3>1, <3>2, <3>3 DEF WriteInventory, WriteSignature, WriteManifest, WriteControl, Replace
    <2>4. CASE SyncInventory(p) \/ SyncSignature(p) \/ SyncManifest(p)
      BY <2>4 DEF SyncInventory, SyncSignature, SyncManifest, SyncControl, SyncRoot, InTry
    <2>5. CASE VerifyPayload(p) \/ VerifyEqualities(p)
      BY <2>5 DEF VerifyPayload, VerifyEqualities, Passes, InTry
    <2>6. CASE Commit(p)
      BY <2>6 DEF Commit, WriteJournalFile, InTry
    <2>7. CASE SyncCommit(p)
      BY <2>7, <1>0 DEF SyncCommit, SyncParent, Leave
    <2>8. QED
      BY <1>4, <2>1, <2>2, <2>3, <2>4, <2>5, <2>6, <2>7 DEF Finalization
  <1>5. ASSUME NEW p \in Processes, Rollback(p) PROVE TypeOK'
    <2> USE DEF Inside, Goto, PCs, Critical, files, locals, answers, faults, Undoing
    <2>1. CASE StartRollback(p)
      BY <2>1 DEF StartRollback
    <2>2. ASSUME NEW c \in Controls, UndoControl(p, c) PROVE TypeOK'
      BY <2>2 DEF UndoControl, Replace, States
    <2>3. CASE SyncUndone(p)
      BY <2>3 DEF SyncUndone, SyncRoot
    <2>4. CASE DropUndone(p)
      BY <2>4 DEF DropUndone, WriteJournalFile
    <2>5. CASE SyncUndropped(p)
      BY <2>5, <1>0 DEF SyncUndropped, SyncParent, Leave
    <2>6. QED
      BY <1>5, <2>1, <2>2, <2>3, <2>4, <2>5 DEF Rollback
  <1>6. ASSUME NEW p \in Processes, Verification(p) PROVE TypeOK'
    <2> USE DEF Inside, Goto, PCs, Critical, Verifying, files, locals, answers, faults
    <2>1. CASE ReadManifest(p) \/ ReadInventory(p) \/ ReadSignature(p)
      <3>1. PICK c \in Controls : seen' = [seen EXCEPT ![p][c] = controls[c]]
        BY <2>1 DEF ReadManifest, ReadInventory, ReadSignature, ReadControl, Controls
      <3>2. seen' \in [Processes -> States]
        BY <3>1, StateEntry, StateUpdate
      <3>3. pc' \in [Processes -> PCs]
        BY <2>1 DEF ReadManifest, ReadInventory, ReadSignature, ReadControl
      <3>4. QED
        BY <2>1, <3>2, <3>3 DEF ReadManifest, ReadInventory, ReadSignature, ReadControl
    <2>2. CASE Accept(p) \/ Reject(p)
      BY <2>2, <1>0 DEF Accept, Reject, Leave
    <2>3. QED
      BY <1>6, <2>1, <2>2 DEF Verification
  <1>7. ASSUME NEW p \in Processes, Abort(p) PROVE TypeOK'
    BY <1>7, <1>0 DEF Abort, Leave, Goto, PCs, files, faults
  <1>8. ASSUME NEW p \in Processes, Kill(p) PROVE TypeOK'
    <2>1. /\ litter' \in BOOLEAN
          /\ kills' \in Nat
          /\ holder' \in Processes \cup {Nobody}
      <3>1. litter' \in {litter, TRUE}
        BY <1>8, Zenon DEF Kill
      <3>2. kills' = kills + 1 /\ (holder' = Nobody \/ holder' = holder)
        BY <1>8 DEF Kill
      <3>3. litter' \in BOOLEAN
        BY <3>1, Zenon
      <3>4. kills' \in Nat /\ holder' \in Processes \cup {Nobody}
        BY <3>2
      <3>5. QED
        BY <3>3, <3>4
    <2>2. /\ pc' \in [Processes -> PCs]
          /\ orig' \in [Processes -> States]
          /\ new' \in [Processes -> States]
          /\ seen' \in [Processes -> States]
          /\ todo' \in [Processes -> SUBSET Controls]
      BY <1>8, <1>0 DEF Kill, Goto, PCs
    <2>3. outcome' \in [Processes -> {"none", "ok", "error", "rejected"}]
      BY <1>8 DEF Kill
    <2>4. QED
      BY <1>8, <2>1, <2>2, <2>3 DEF Kill
  <1>9. CASE PowerLoss
    <2>1. litter' \in {litter, TRUE}
      BY <1>9, Zenon DEF PowerLoss
    <2>2. losses' = losses + 1 /\ controls' \in States /\ diskControls' \in States
      BY <1>9 DEF PowerLoss, Mixtures
    <2>3. /\ journal' \in States \cup {NoJournal}
          /\ diskJournal' \in States \cup {NoJournal}
      BY <1>9 DEF PowerLoss
    <2>4. /\ pc' \in [Processes -> PCs]
          /\ orig' \in [Processes -> States]
          /\ new' \in [Processes -> States]
          /\ seen' \in [Processes -> States]
          /\ todo' \in [Processes -> SUBSET Controls]
          /\ outcome' \in [Processes -> {"none", "ok", "error", "rejected"}]
      BY <1>9, <1>0 DEF PowerLoss, PCs
    <2>5. /\ holder' \in Processes \cup {Nobody}
          /\ UNCHANGED <<role, told, kills>>
      BY <1>9 DEF PowerLoss
    <2>6. litter' \in BOOLEAN
      BY <2>1, Zenon
    <2>7. losses' \in Nat
      BY <2>2
    <2>8. QED
      BY <2>2, <2>3, <2>4, <2>5, <2>6, <2>7
  <1>10. CASE UNCHANGED vars
    BY <1>10 DEF vars, files, locals, answers, faults
  <1>11. QED
    BY <1>1, <1>2, <1>3, <1>4, <1>5, <1>6, <1>7, <1>8, <1>9, <1>10 DEF Next, Work

(* Every variable keeps to its type, whatever the faults and errors. *)
THEOREM TypeCorrect == Spec => []TypeOK
  <1>1. Init => TypeOK
    BY InitType
  <1>2. TypeOK /\ [Next]_vars => TypeOK'
    BY TypeStep
  <1>3. QED
    BY <1>1, <1>2, PTL DEF Spec

-----------------------------------------------------------------------------
(* Who holds the lock.                                                     *)

\* A step of a process that stays in the lock's block, and one that leaves it.
Stays(p) == /\ pc[p] \in Critical
            /\ holder' = holder
            /\ \E x \in Critical : pc' = [pc EXCEPT ![p] = x]

Leaves(p) == /\ pc[p] \in Critical
             /\ holder' = Nobody
             /\ pc' = [pc EXCEPT ![p] = "idle"]

LEMMA RecoveryStays ==
  ASSUME NEW p \in Processes, Recovery(p)
  PROVE  Stays(p)
  BY DEF Recovery, SkipRecovery, StartRecovery, RestoreControl, SyncRestored, DropJournal,
         SyncDropped, Stays, Inside, Goto, Body, Critical, Recovering, BeforeTry, Verifying

LEMMA FinalizationKinds ==
  ASSUME NEW p \in Processes, Finalization(p)
  PROVE  Stays(p) \/ Leaves(p)
  <1> USE DEF Stays, Inside, Goto, Critical, BeforeTry, InTry
  <1>1. CASE TakeSnapshot(p) \/ CheckPolicy(p) \/ WriteJournal(p) \/ SyncJournal(p)
    BY <1>1 DEF TakeSnapshot, CheckPolicy, WriteJournal, SyncJournal
  <1>2. CASE WriteInventory(p) \/ WriteSignature(p) \/ WriteManifest(p)
    BY <1>2 DEF WriteInventory, WriteSignature, WriteManifest, WriteControl
  <1>3. CASE SyncInventory(p) \/ SyncSignature(p) \/ SyncManifest(p)
    BY <1>3 DEF SyncInventory, SyncSignature, SyncManifest, SyncControl
  <1>4. CASE VerifyPayload(p) \/ VerifyEqualities(p) \/ Commit(p)
    BY <1>4 DEF VerifyPayload, VerifyEqualities, Passes, Commit
  <1>5. CASE SyncCommit(p)
    BY <1>5 DEF SyncCommit, Leave, Leaves
  <1>6. QED
    BY <1>1, <1>2, <1>3, <1>4, <1>5 DEF Finalization

LEMMA RollbackKinds ==
  ASSUME NEW p \in Processes, Rollback(p)
  PROVE  Stays(p) \/ Leaves(p)
  BY DEF Rollback, StartRollback, UndoControl, SyncUndone, DropUndone, SyncUndropped,
         Leave, Leaves, Stays, Inside, Goto, Critical, InTry, Undoing

LEMMA VerificationKinds ==
  ASSUME NEW p \in Processes, Verification(p)
  PROVE  Stays(p) \/ Leaves(p)
  BY DEF Verification, ReadManifest, ReadInventory, ReadSignature, ReadControl, Accept,
         Reject, Leave, Leaves, Stays, Inside, Goto, Critical, Verifying

LEMMA AbortLeaves ==
  ASSUME NEW p \in Processes, Abort(p)
  PROVE  Leaves(p)
  BY DEF Abort, Leave, Leaves, Goto, Critical

LEMMA OutsideBlock == "idle" \notin Critical /\ "wait" \notin Critical
  BY DEF Critical, Recovering, BeforeTry, InTry, Undoing, Verifying

\* While a process works in the block, every other one is outside and stays so.
LEMMA OthersWait ==
  ASSUME TypeOK, LockExclusion, NEW p \in Processes, Stays(p) \/ Leaves(p),
         NEW q \in Processes, q # p
  PROVE  pc[q] \notin Critical /\ pc'[q] = pc[q]
  BY DEF TypeOK, LockExclusion, Stays, Leaves

LEMMA LockBlockStep ==
  ASSUME TypeOK, LockExclusion, NEW p \in Processes, Stays(p) \/ Leaves(p)
  PROVE  LockExclusion'
  <1>1. CASE Stays(p)
    BY <1>1 DEF TypeOK, LockExclusion, Stays
  <1>2. CASE Leaves(p)
    BY <1>2, OutsideBlock, NamesAssumption DEF TypeOK, LockExclusion, Leaves
  <1>3. QED
    BY <1>1, <1>2

LEMMA InitLock == Init => LockExclusion
  <1> SUFFICES ASSUME Init, NEW p \in Processes PROVE pc[p] \in Critical <=> holder = p
    BY DEF LockExclusion
  <1>1. pc[p] = "idle" /\ holder = Nobody
    BY Zenon DEF Init
  <1>2. QED
    BY <1>1, OutsideBlock, NamesAssumption

LEMMA LockStep == TypeOK /\ LockExclusion /\ [Next]_vars => LockExclusion'
  <1> SUFFICES ASSUME TypeOK, LockExclusion, [Next]_vars PROVE LockExclusion'
    OBVIOUS
  <1>0. "idle" \notin Critical /\ "wait" \notin Critical
    BY OutsideBlock
  <1>1. ASSUME NEW p \in Processes, Begin(p) PROVE LockExclusion'
    BY <1>0, <1>1 DEF Begin, Goto, TypeOK, LockExclusion
  <1>2. ASSUME NEW p \in Processes, Acquire(p) PROVE LockExclusion'
    <2>1. "recover" \in Critical
      BY DEF Critical, Recovering
    <2>2. QED
      BY <1>0, <1>2, <2>1, NamesAssumption DEF Acquire, Goto, TypeOK, LockExclusion
  <1>3. ASSUME NEW p \in Processes, LockTimeout(p) PROVE LockExclusion'
    BY <1>0, <1>3 DEF LockTimeout, Goto, TypeOK, LockExclusion
  <1>4. ASSUME NEW p \in Processes,
               Recovery(p) \/ Finalization(p) \/ Rollback(p) \/ Verification(p) \/ Abort(p)
        PROVE LockExclusion'
    BY <1>4, LockBlockStep, RecoveryStays, FinalizationKinds, RollbackKinds,
       VerificationKinds, AbortLeaves
  <1>5. ASSUME NEW p \in Processes, Kill(p) PROVE LockExclusion'
    BY <1>0, <1>5, NamesAssumption DEF Kill, Goto, TypeOK, LockExclusion
  <1>6. CASE PowerLoss
    BY <1>0, <1>6, NamesAssumption DEF PowerLoss, TypeOK, LockExclusion
  <1>7. CASE UNCHANGED vars
    BY <1>7 DEF vars, LockExclusion
  <1>8. QED
    BY <1>1, <1>2, <1>3, <1>4, <1>5, <1>6, <1>7 DEF Next, Work

(* At most one process is inside the lock's block, and it owns the lock.   *)
THEOREM LockExclusive == Spec => []LockExclusion
  <1>1. Init => TypeOK /\ LockExclusion
    BY InitType, InitLock
  <1>2. TypeOK /\ LockExclusion /\ [Next]_vars => TypeOK' /\ LockExclusion'
    BY TypeStep, LockStep
  <1>3. QED
    BY <1>1, <1>2, PTL DEF Spec

-----------------------------------------------------------------------------
(* What survives: from here on directories can be fsynced, and no          *)
(* interrupt arrives between the unlink of the journal and the return.     *)

ProcessInv(p) == RestoreInv(p) /\ WriteInv(p) /\ ReadInv(p) /\ SettledInv(p)

LEMMA SameState ==
  ASSUME NEW s \in States, NEW t \in States, \A c \in Controls : s[c] = t[c]
  PROVE  s = t
  BY DEF States

\* A process outside the block relies on nothing.
LEMMA OutsideInv ==
  ASSUME NEW p \in Processes, pc[p] \notin Critical
  PROVE  ProcessInv(p)
  BY DEF ProcessInv, RestoreInv, WriteInv, ReadInv, SettledInv, Critical, Recovering,
         BeforeTry, InTry, Undoing, Verifying

LEMMA OutsideInvPrime ==
  ASSUME NEW p \in Processes, pc'[p] \notin Critical
  PROVE  ProcessInv(p)'
  BY DEF ProcessInv, RestoreInv, WriteInv, ReadInv, SettledInv, Critical, Recovering,
         BeforeTry, InTry, Undoing, Verifying

\* So a step inside the block need only be checked for its own process.
LEMMA OwnerOnly ==
  ASSUME TypeOK, LockExclusion, NEW p \in Processes, Stays(p) \/ Leaves(p),
         DiskInv', ProcessInv(p)'
  PROVE  ControlInv'
  <1>1. ASSUME NEW q \in Processes PROVE ProcessInv(q)'
    <2>1. CASE q = p
      BY <2>1
    <2>2. CASE q # p
      BY <2>2, OthersWait, OutsideInvPrime
    <2>3. QED
      BY <2>1, <2>2
  <1>2. QED
    BY <1>1 DEF ControlInv, ProcessInv

LEMMA RecoveryInv ==
  ASSUME DirectorySync, TypeOK, ControlInv, NEW p \in Processes, Recovery(p)
  PROVE  DiskInv' /\ ProcessInv(p)'
  <1> USE DEF TypeOK, ControlInv, Inside, Goto
  <1>1. CASE SkipRecovery(p)
    BY <1>1 DEF SkipRecovery, Body, DiskInv, ProcessInv, RestoreInv, WriteInv, ReadInv,
       SettledInv, InTry, Verifying, files, locals
  <1>2. CASE StartRecovery(p)
    BY <1>2 DEF StartRecovery, DiskInv, ProcessInv, RestoreInv, WriteInv, ReadInv,
       SettledInv, InTry, Verifying, files
  <1>3. ASSUME NEW c \in Controls, RestoreControl(p, c) PROVE DiskInv' /\ ProcessInv(p)'
    <2>1. /\ journal' = journal /\ diskJournal' = diskJournal /\ diskControls' = diskControls
          /\ controls' = [controls EXCEPT ![c] = journal[c]]
          /\ orig' = orig /\ orig[p] = journal /\ journal # NoJournal
          /\ pc'[p] = "restoreSync"
          /\ todo'[p] = todo[p] \ {c}
      <3>1. pc[p] = "restore" /\ orig[p] = journal /\ orig[p] \in States
        BY <1>3 DEF RestoreControl, RestoreInv
      <3>2. journal # NoJournal
        BY <3>1, NamesAssumption
      <3>3. /\ journal' = journal /\ diskJournal' = diskJournal
            /\ diskControls' = diskControls /\ orig' = orig
            /\ controls' = [controls EXCEPT ![c] = orig[p][c]]
        BY <1>3 DEF RestoreControl, Replace
      <3>4. pc'[p] = "restoreSync" /\ todo'[p] = todo[p] \ {c}
        BY <1>3 DEF RestoreControl
      <3>5. QED
        BY <3>1, <3>2, <3>3, <3>4
    <2>2. DiskInv'
      <3>1. ASSUME journal # diskJournal PROVE controls' = controls
        BY <2>1, <3>1 DEF DiskInv, States
      <3>2. QED
        BY <2>1, <3>1 DEF DiskInv
    <2>3. \A d \in Controls \ todo'[p] : controls'[d] = orig'[p][d]
      BY <1>3, <2>1 DEF RestoreInv, States, RestoreControl
    <2>4. QED
      BY <2>1, <2>2, <2>3 DEF ProcessInv, RestoreInv, WriteInv, ReadInv, SettledInv, InTry,
         Verifying
  <1>4. CASE SyncRestored(p)
    BY <1>4 DEF SyncRestored, SyncRoot, DiskInv, ProcessInv, RestoreInv, WriteInv, ReadInv,
       SettledInv, InTry, Verifying, locals
  <1>5. CASE DropJournal(p)
    <2>1. diskControls = controls
      BY <1>5 DEF DropJournal, RestoreInv, Controls
    <2>2. DiskInv'
      BY <1>5, <2>1 DEF DropJournal, WriteJournalFile, DiskInv
    <2>3. pc'[p] = "dropSync" /\ journal' = NoJournal
      BY <1>5 DEF DropJournal, WriteJournalFile
    <2>4. QED
      BY <2>2, <2>3 DEF ProcessInv, RestoreInv, WriteInv, ReadInv, SettledInv, InTry, Verifying
  <1>6. CASE SyncDropped(p)
    BY <1>6 DEF SyncDropped, SyncParent, Body, DiskInv, ProcessInv, RestoreInv, WriteInv,
       ReadInv, SettledInv, InTry, Verifying, locals
  <1>7. QED
    BY <1>1, <1>2, <1>3, <1>4, <1>5, <1>6 DEF Recovery

LEMMA FinalizationInv ==
  ASSUME DirectorySync, TypeOK, ControlInv, NEW p \in Processes, Finalization(p)
  PROVE  DiskInv' /\ ProcessInv(p)'
  <1> USE DEF TypeOK, ControlInv, Inside, Goto
  <1>1. CASE TakeSnapshot(p) \/ CheckPolicy(p)
    BY <1>1 DEF TakeSnapshot, CheckPolicy, DiskInv, ProcessInv, RestoreInv, WriteInv, ReadInv,
       SettledInv, InTry, Verifying, files
  <1>2. CASE WriteJournal(p)
    <2>1. journal = NoJournal /\ orig[p] = controls /\ pc[p] = "writeJournal"
      BY <1>2 DEF WriteJournal, WriteInv, SettledInv
    <2>2. /\ journal' = orig[p] /\ orig' = orig /\ controls' = controls
          /\ diskControls' = diskControls /\ pc'[p] = "syncJournal"
      BY <1>2 DEF WriteJournal, WriteJournalFile, locals
    <2>3. DiskInv'
      BY <2>1, <2>2 DEF DiskInv
    <2>4. QED
      BY <2>1, <2>2, <2>3 DEF ProcessInv, RestoreInv, WriteInv, ReadInv, SettledInv, InTry,
         Verifying
  <1>3. CASE SyncJournal(p)
    BY <1>3, NamesAssumption DEF SyncJournal, SyncParent, DiskInv, ProcessInv, RestoreInv,
       WriteInv, ReadInv, SettledInv, InTry, Verifying, locals
  <1>4. CASE WriteInventory(p) \/ WriteSignature(p) \/ WriteManifest(p)
    <2>1. /\ journal' = journal /\ diskJournal' = diskJournal
          /\ orig' = orig /\ new' = new
          /\ pc[p] \in InTry /\ pc'[p] \in {"syncInventory", "syncSignature", "syncManifest"}
      BY <1>4 DEF WriteInventory, WriteSignature, WriteManifest, WriteControl, Replace, InTry,
         locals
    <2>2. orig[p] = journal /\ diskJournal = journal /\ journal # NoJournal
      BY <2>1, NamesAssumption DEF WriteInv
    <2>3. DiskInv'
      BY <2>1, <2>2 DEF DiskInv
    <2>4. WriteInv(p)'
      BY <1>4, <2>1, <2>2 DEF WriteInventory, WriteSignature, WriteManifest, WriteControl,
         Replace, WriteInv, InTry, States, Controls
    <2>5. QED
      BY <2>1, <2>3, <2>4 DEF ProcessInv, RestoreInv, ReadInv, SettledInv, Verifying
  <1>5. CASE SyncInventory(p) \/ SyncSignature(p) \/ SyncManifest(p)
    BY <1>5, NamesAssumption DEF SyncInventory, SyncSignature, SyncManifest, SyncControl,
       SyncRoot, DiskInv, ProcessInv, RestoreInv, WriteInv, ReadInv, SettledInv, InTry,
       Verifying, locals
  <1>6. CASE VerifyPayload(p) \/ VerifyEqualities(p)
    BY <1>6 DEF VerifyPayload, VerifyEqualities, Passes, DiskInv, ProcessInv, RestoreInv,
       WriteInv, ReadInv, SettledInv, InTry, Verifying, locals, files
  <1>7. CASE Commit(p)
    <2>1. /\ pc[p] = "commit" /\ pc'[p] = "syncCommit" /\ journal' = NoJournal
          /\ controls' = controls /\ diskControls' = diskControls /\ new' = new
      BY <1>7 DEF Commit, WriteJournalFile, locals
    <2>2. /\ diskControls = controls
          /\ \A c \in Controls : controls[c] = new[p][c]
      BY <2>1 DEF WriteInv, InTry, Controls
    <2>3. controls = new[p]
      BY <2>2, SameState
    <2>4. QED
      BY <2>1, <2>2, <2>3 DEF DiskInv, ProcessInv, RestoreInv, WriteInv, ReadInv, SettledInv,
         InTry, Verifying
  <1>8. CASE SyncCommit(p)
    <2>1. DiskInv'
      BY <1>8 DEF SyncCommit, SyncParent, WriteInv, SettledInv, DiskInv
    <2>2. pc'[p] \notin Critical
      BY <1>8, OutsideBlock DEF SyncCommit, Leave
    <2>3. QED
      BY <2>1, <2>2, OutsideInvPrime
  <1>9. QED
    BY <1>1, <1>2, <1>3, <1>4, <1>5, <1>6, <1>7, <1>8 DEF Finalization

LEMMA RollbackInv ==
  ASSUME ~LateInterrupt, DirectorySync, TypeOK, ControlInv, NEW p \in Processes, Rollback(p)
  PROVE  DiskInv' /\ ProcessInv(p)'
  <1> USE DEF TypeOK, ControlInv, Inside, Goto
  <1>1. CASE StartRollback(p)
    BY <1>1 DEF StartRollback, DiskInv, ProcessInv, RestoreInv, WriteInv, ReadInv, SettledInv,
       InTry, Verifying, files
  <1>2. ASSUME NEW c \in Controls, UndoControl(p, c) PROVE DiskInv' /\ ProcessInv(p)'
    <2>1. /\ pc[p] = "undo" /\ pc'[p] = "undoSync"
          /\ journal' = journal /\ diskJournal' = diskJournal /\ orig' = orig
          /\ controls' = [controls EXCEPT ![c] = orig[p][c]]
          /\ todo'[p] = todo[p] \ {c}
      BY <1>2 DEF UndoControl, Replace
    <2>2. orig[p] = journal /\ diskJournal = journal /\ journal # NoJournal
      BY <2>1, NamesAssumption DEF RestoreInv
    <2>3. \A d \in Controls \ todo'[p] : controls'[d] = orig'[p][d]
      BY <2>1 DEF RestoreInv, States
    <2>4. QED
      BY <2>1, <2>2, <2>3 DEF DiskInv, ProcessInv, RestoreInv, WriteInv, ReadInv, SettledInv,
         InTry, Verifying
  <1>3. CASE SyncUndone(p)
    BY <1>3, NamesAssumption DEF SyncUndone, SyncRoot, DiskInv, ProcessInv, RestoreInv,
       WriteInv, ReadInv, SettledInv, InTry, Verifying, locals
  <1>4. CASE DropUndone(p)
    <2>1. /\ pc[p] = "undo" /\ pc'[p] = "undropSync" /\ journal' = NoJournal
          /\ controls' = controls /\ diskControls' = diskControls /\ orig' = orig
          /\ diskJournal' = diskJournal /\ todo[p] = {}
      BY <1>4 DEF DropUndone, WriteJournalFile, locals
    <2>2. /\ diskControls = controls /\ diskJournal = orig[p]
          /\ \A c \in Controls : controls[c] = orig[p][c]
      BY <2>1 DEF RestoreInv, Controls
    <2>3. controls = orig[p]
      BY <2>2, SameState
    <2>4. QED
      BY <2>1, <2>2, <2>3 DEF DiskInv, ProcessInv, RestoreInv, WriteInv, ReadInv, SettledInv,
         InTry, Verifying
  <1>5. CASE SyncUndropped(p)
    <2>1. DiskInv'
      BY <1>5 DEF SyncUndropped, SyncParent, SettledInv, DiskInv
    <2>2. pc'[p] \notin Critical
      BY <1>5, OutsideBlock DEF SyncUndropped, Leave
    <2>3. QED
      BY <2>1, <2>2, OutsideInvPrime
  <1>6. QED
    BY <1>1, <1>2, <1>3, <1>4, <1>5 DEF Rollback

LEMMA VerificationInv ==
  ASSUME TypeOK, ControlInv, NEW p \in Processes, Verification(p)
  PROVE  DiskInv' /\ ProcessInv(p)'
  <1> USE DEF TypeOK, ControlInv, Inside, Goto
  <1>1. CASE ReadManifest(p) \/ ReadInventory(p) \/ ReadSignature(p)
    BY <1>1 DEF ReadManifest, ReadInventory, ReadSignature, ReadControl, DiskInv, ProcessInv,
       RestoreInv, WriteInv, ReadInv, SettledInv, InTry, Verifying, files, States, Controls
  <1>2. CASE Accept(p) \/ Reject(p)
    <2>1. pc'[p] \notin Critical
      BY <1>2, OutsideBlock DEF Accept, Reject, Leave
    <2>2. DiskInv'
      BY <1>2 DEF Accept, Reject, files, DiskInv
    <2>3. QED
      BY <2>1, <2>2, OutsideInvPrime
  <1>3. QED
    BY <1>1, <1>2 DEF Verification

LEMMA AbortInv ==
  ASSUME TypeOK, ControlInv, NEW p \in Processes, Abort(p)
  PROVE  DiskInv' /\ ProcessInv(p)'
  <1>1. pc'[p] \notin Critical
    BY OutsideBlock DEF Abort, Leave, Goto, TypeOK
  <1>2. DiskInv'
    BY DEF Abort, files, ControlInv, DiskInv
  <1>3. QED
    BY <1>1, <1>2, OutsideInvPrime

LEMMA InitInv == Init => ControlInv
  <1> SUFFICES ASSUME Init PROVE ControlInv
    OBVIOUS
  <1>1. DiskInv
    BY Zenon DEF Init, DiskInv
  <1>2. ASSUME NEW p \in Processes PROVE ProcessInv(p)
    <2>1. pc[p] = "idle"
      BY Zenon DEF Init
    <2>2. QED
      BY <2>1, OutsideBlock, OutsideInv
  <1>3. QED
    BY <1>1, <1>2 DEF ControlInv, ProcessInv

\* The inductive step.
LEMMA ControlStep ==
  ASSUME DirectorySync, ~LateInterrupt
  PROVE  TypeOK /\ LockExclusion /\ ControlInv /\ [Next]_vars => ControlInv'
  <1> SUFFICES ASSUME TypeOK, LockExclusion, ControlInv, [Next]_vars PROVE ControlInv'
    OBVIOUS
  <1>1. ASSUME NEW p \in Processes,
               Recovery(p) \/ Finalization(p) \/ Rollback(p) \/ Verification(p) \/ Abort(p)
        PROVE  ControlInv'
    <2>1. Stays(p) \/ Leaves(p)
      BY <1>1, RecoveryStays, FinalizationKinds, RollbackKinds, VerificationKinds, AbortLeaves
    <2>2. DiskInv' /\ ProcessInv(p)'
      BY <1>1, RecoveryInv, FinalizationInv, RollbackInv, VerificationInv, AbortInv
    <2>3. QED
      BY <2>1, <2>2, OwnerOnly
  <1>2. ASSUME NEW p \in Processes, Begin(p) \/ Acquire(p) \/ LockTimeout(p) \/ Kill(p)
        PROVE  ControlInv'
    <2>1. /\ UNCHANGED <<controls, diskControls, journal, diskJournal>>
          /\ pc'[p] \in {"idle", "wait", "recover"}
          /\ \A q \in Processes \ {p} :
               /\ pc'[q] = pc[q] /\ orig'[q] = orig[q] /\ new'[q] = new[q]
               /\ seen'[q] = seen[q] /\ todo'[q] = todo[q]
      BY <1>2 DEF Begin, Acquire, LockTimeout, Kill, Goto, TypeOK, files, locals
    <2>2. DiskInv'
      BY <2>1 DEF ControlInv, DiskInv
    <2>3. ProcessInv(p)'
      BY <2>1 DEF ProcessInv, RestoreInv, WriteInv, ReadInv, SettledInv, InTry, Verifying
    <2>4. ASSUME NEW q \in Processes, q # p PROVE ProcessInv(q)'
      BY <2>1, <2>4 DEF ControlInv, ProcessInv, RestoreInv, WriteInv, ReadInv, SettledInv
    <2>5. QED
      BY <2>2, <2>3, <2>4 DEF ControlInv, ProcessInv
  <1>3. CASE PowerLoss
    <2>1. DiskInv'
      BY <1>3 DEF PowerLoss, DiskInv
    <2>2. ASSUME NEW q \in Processes PROVE ProcessInv(q)'
      <3>1. pc'[q] = "idle"
        BY <1>3 DEF PowerLoss
      <3>2. QED
        BY <3>1, OutsideBlock, OutsideInvPrime
    <2>3. QED
      BY <2>1, <2>2 DEF ControlInv, ProcessInv
  <1>4. CASE UNCHANGED vars
    BY <1>4 DEF vars, files, locals, ControlInv, DiskInv, RestoreInv, WriteInv, ReadInv,
       SettledInv
  <1>5. QED
    BY <1>1, <1>2, <1>3, <1>4 DEF Next, Work

(* What every program point relies on holds in every reachable state.      *)
THEOREM ControlInvariant ==
  ASSUME DirectorySync, ~LateInterrupt
  PROVE  Spec => []ControlInv
  <1>1. Init => TypeOK /\ LockExclusion /\ ControlInv
    BY InitType, InitLock, InitInv
  <1>2. TypeOK /\ LockExclusion /\ ControlInv /\ [Next]_vars
          => TypeOK' /\ LockExclusion' /\ ControlInv'
    BY TypeStep, LockStep, ControlStep
  <1>3. QED
    BY <1>1, <1>2, PTL DEF Spec

LEMMA DiskInvIsSafe ==
  ASSUME TypeOK, DiskInv
  PROVE  PowerLossSafe
  <1> SUFFICES ASSUME NEW m \in Mixtures, NEW j \in {journal, diskJournal}
               PROVE  (IF j = NoJournal THEN m ELSE j) \in {Committed, Durable}
    BY DEF PowerLossSafe
  <1>1. CASE j # NoJournal
    BY <1>1 DEF Committed, Durable
  <1>2. CASE j = NoJournal
    <2>1. \/ journal = NoJournal
          \/ journal # NoJournal /\ diskJournal = NoJournal
      BY <1>2
    <2>2. diskControls = controls
      BY <2>1 DEF DiskInv
    <2>3. m = controls
      BY <2>2, SameState DEF Mixtures, TypeOK
    <2>4. controls = Committed
      BY <2>1 DEF DiskInv, Committed
    <2>5. QED
      BY <1>2, <2>3, <2>4
  <1>3. QED
    BY <1>1, <1>2

(* A power loss at any moment, keeping any subset of the unsynced          *)
(* directory entries, leaves files that recovery turns into one whole      *)
(* release: the committed one or the last durable one.                     *)
THEOREM PowerLossIsSafe ==
  ASSUME DirectorySync, ~LateInterrupt
  PROVE  Spec => []PowerLossSafe
  <1>1. TypeOK /\ ControlInv => PowerLossSafe
    BY DiskInvIsSafe DEF ControlInv
  <1>2. QED
    BY <1>1, TypeCorrect, ControlInvariant, PTL

-----------------------------------------------------------------------------
(* The protocol implements the atomic release.                             *)

\* Each process is in the code of the call it made.
RoleInv ==
  \A p \in Processes :
    /\ pc[p] \in BeforeTry \cup InTry \cup {"syncCommit"} \cup Undoing => role[p] = "finalize"
    /\ pc[p] \in Verifying => role[p] = "verify"

LEMMA InitRole == Init => RoleInv
  <1> SUFFICES ASSUME Init, NEW p \in Processes PROVE pc[p] = "idle"
    BY OutsideBlock DEF RoleInv, Critical
  <1>1. QED
    BY Zenon DEF Init

LEMMA RoleStep == TypeOK /\ RoleInv /\ [Next]_vars => RoleInv'
  <1> SUFFICES ASSUME TypeOK, RoleInv, [Next]_vars PROVE RoleInv'
    OBVIOUS
  <1> USE DEF TypeOK, RoleInv, Inside, Goto, BeforeTry, InTry, Undoing, Verifying
  <1>1. ASSUME NEW p \in Processes, Begin(p) \/ Acquire(p) \/ LockTimeout(p) PROVE RoleInv'
    BY <1>1 DEF Begin, Acquire, LockTimeout
  <1>2. ASSUME NEW p \in Processes, Recovery(p) PROVE RoleInv'
    BY <1>2 DEF Recovery, SkipRecovery, StartRecovery, RestoreControl, SyncRestored,
       DropJournal, SyncDropped, Body, Roles
  <1>3. ASSUME NEW p \in Processes, Finalization(p) PROVE RoleInv'
    <2>1. CASE \/ TakeSnapshot(p) \/ CheckPolicy(p) \/ WriteJournal(p) \/ SyncJournal(p)
               \/ Commit(p) \/ SyncCommit(p)
      BY <2>1 DEF TakeSnapshot, CheckPolicy, WriteJournal, SyncJournal, Commit, SyncCommit,
         Leave
    <2>2. CASE WriteInventory(p) \/ WriteSignature(p) \/ WriteManifest(p)
      BY <2>2 DEF WriteInventory, WriteSignature, WriteManifest, WriteControl
    <2>3. CASE SyncInventory(p) \/ SyncSignature(p) \/ SyncManifest(p)
      BY <2>3 DEF SyncInventory, SyncSignature, SyncManifest, SyncControl
    <2>4. CASE VerifyPayload(p) \/ VerifyEqualities(p)
      BY <2>4 DEF VerifyPayload, VerifyEqualities, Passes
    <2>5. QED
      BY <1>3, <2>1, <2>2, <2>3, <2>4 DEF Finalization
  <1>4. ASSUME NEW p \in Processes, Rollback(p) PROVE RoleInv'
    BY <1>4 DEF Rollback, StartRollback, UndoControl, SyncUndone, DropUndone, SyncUndropped,
       Leave
  <1>5. ASSUME NEW p \in Processes, Verification(p) \/ Abort(p) PROVE RoleInv'
    BY <1>5 DEF Verification, ReadManifest, ReadInventory, ReadSignature, ReadControl, Accept,
       Reject, Abort, Leave
  <1>6. ASSUME NEW p \in Processes, Kill(p) PROVE RoleInv'
    BY <1>6 DEF Kill
  <1>7. CASE PowerLoss
    BY <1>7 DEF PowerLoss
  <1>8. CASE UNCHANGED vars
    BY <1>8 DEF vars
  <1>9. QED
    BY <1>1, <1>2, <1>3, <1>4, <1>5, <1>6, <1>7, <1>8 DEF Next, Work

\* Steps the atomic release does not see, but for storage catching up.
Quiet == /\ Committed' = Committed
         /\ Durable' \in {Durable, Committed}
         /\ CallState' = CallState
         /\ UNCHANGED answers

AtomicStep == [Atomic!Next]_(Atomic!vars)

LEMMA QuietStep == Quiet => AtomicStep
  BY DEF Quiet, AtomicStep, answers, Atomic!Next, Atomic!Settle, Atomic!vars

InCall == (Critical \ {"syncCommit"}) \cup {"wait"}

LEMMA SameCall ==
  ASSUME TypeOK, NEW p \in Processes, NEW x \in InCall,
         pc[p] \in InCall, pc' = [pc EXCEPT ![p] = x], role' = role
  PROVE  CallState' = CallState
  <1>1. ASSUME NEW q \in Processes PROVE CallState'[q] = CallState[q]
    BY OutsideBlock DEF InCall, CallState, TypeOK
  <1>2. QED
    BY <1>1 DEF CallState

LEMMA CallEnds ==
  ASSUME TypeOK, NEW p \in Processes, pc' = [pc EXCEPT ![p] = "idle"], role' = role
  PROVE  CallState' = [CallState EXCEPT ![p] = "idle"]
  BY DEF CallState, TypeOK

\* What the two fsyncs and the replacement of a control do to the release.
LEMMA SyncParentQuiet ==
  ASSUME DirectorySync, DiskInv, SyncParent
  PROVE  Committed' = Committed /\ Durable' = Committed
  BY DEF SyncParent, DiskInv, Committed, Durable

LEMMA SyncRootQuiet ==
  ASSUME DirectorySync, DiskInv, SyncRoot
  PROVE  Committed' = Committed /\ Durable' \in {Durable, Committed}
  BY DEF SyncRoot, DiskInv, Committed, Durable

LEMMA ReplaceQuiet ==
  ASSUME NEW c \in Controls, NEW v, Replace(c, v), journal # NoJournal
  PROVE  Committed' = Committed /\ Durable' = Durable
  BY DEF Replace, Committed, Durable

LEMMA RecoveryQuiet ==
  ASSUME DirectorySync, TypeOK, ControlInv, NEW p \in Processes, Recovery(p)
  PROVE  Quiet
  <1> USE DEF ControlInv
  <1>1. Committed' = Committed /\ Durable' \in {Durable, Committed}
    <2>1. CASE SkipRecovery(p) \/ StartRecovery(p)
      BY <2>1 DEF SkipRecovery, StartRecovery, files, Committed, Durable
    <2>2. ASSUME NEW c \in Controls, RestoreControl(p, c) 
          PROVE  Committed' = Committed /\ Durable' \in {Durable, Committed}
      <3>1. orig[p] = journal /\ orig[p] \in States
        BY <2>2 DEF RestoreControl, RestoreInv, TypeOK
      <3>2. journal # NoJournal
        BY <3>1, NamesAssumption
      <3>3. QED
        BY <2>2, <3>2, ReplaceQuiet DEF RestoreControl
    <2>3. CASE SyncRestored(p)
      BY <2>3, SyncRootQuiet DEF SyncRestored
    <2>4. CASE DropJournal(p)
      <3>1. /\ pc[p] = "restore" /\ todo[p] = {} /\ journal' = NoJournal
            /\ controls' = controls /\ diskControls' = diskControls
            /\ diskJournal' = diskJournal
        BY <2>4 DEF DropJournal, WriteJournalFile
      <3>2. orig[p] = journal /\ \A c \in Controls : controls[c] = orig[p][c]
        BY <3>1 DEF RestoreInv
      <3>3. controls = journal /\ journal # NoJournal
        BY <3>2, SameState, NamesAssumption DEF TypeOK
      <3>4. QED
        BY <3>1, <3>3 DEF Committed, Durable
    <2>5. CASE SyncDropped(p)
      BY <2>5, SyncParentQuiet DEF SyncDropped
    <2>6. QED
      BY <2>1, <2>2, <2>3, <2>4, <2>5 DEF Recovery
  <1>2. CallState' = CallState
    <2>1. PICK x \in InCall : pc' = [pc EXCEPT ![p] = x]
      BY DEF Recovery, SkipRecovery, StartRecovery, RestoreControl, SyncRestored, DropJournal,
         SyncDropped, Goto, Body, InCall, Critical, Recovering, BeforeTry, Verifying
    <2>2. pc[p] \in InCall /\ role' = role
      BY DEF Recovery, SkipRecovery, StartRecovery, RestoreControl, SyncRestored, DropJournal,
         SyncDropped, Inside, InCall, Critical, Recovering
    <2>3. QED
      BY <2>1, <2>2, SameCall
  <1>3. UNCHANGED answers
    BY DEF Recovery, SkipRecovery, StartRecovery, RestoreControl, SyncRestored, DropJournal,
       SyncDropped, Inside
  <1>4. QED
    BY <1>1, <1>2, <1>3 DEF Quiet

LEMMA WritingQuiet ==
  ASSUME DirectorySync, TypeOK, ControlInv, NEW p \in Processes,
         Finalization(p), ~Commit(p), ~SyncCommit(p)
  PROVE  Quiet
  <1> USE DEF ControlInv
  <1>1. CASE TakeSnapshot(p) \/ CheckPolicy(p) \/ VerifyPayload(p) \/ VerifyEqualities(p)
    <2>1. UNCHANGED files
      BY <1>1 DEF TakeSnapshot, CheckPolicy, VerifyPayload, VerifyEqualities, Passes
    <2>2. Committed' = Committed /\ Durable' = Durable
      BY <2>1 DEF files, Committed, Durable
    <2>3. PICK x \in InCall : pc' = [pc EXCEPT ![p] = x]
      BY <1>1 DEF TakeSnapshot, CheckPolicy, VerifyPayload, VerifyEqualities, Passes, Goto,
         InCall, Critical, BeforeTry, InTry
    <2>4. pc[p] \in InCall /\ role' = role /\ UNCHANGED answers
      BY <1>1 DEF TakeSnapshot, CheckPolicy, VerifyPayload, VerifyEqualities, Passes, Inside,
         InCall, Critical, BeforeTry, InTry
    <2>5. QED
      BY <2>2, <2>3, <2>4, SameCall DEF Quiet
  <1>2. CASE WriteJournal(p)
    <2>1. /\ pc[p] = "writeJournal" /\ pc' = [pc EXCEPT ![p] = "syncJournal"]
          /\ journal' = orig[p] /\ controls' = controls /\ diskControls' = diskControls
          /\ diskJournal' = diskJournal /\ role' = role /\ UNCHANGED answers
      BY <1>2 DEF WriteJournal, WriteJournalFile, Goto, Inside
    <2>2. journal = NoJournal /\ orig[p] = controls
      BY <2>1 DEF WriteInv, SettledInv
    <2>3. Committed' = Committed /\ Durable' = Durable
      BY <2>1, <2>2 DEF Committed, Durable
    <2>4. CallState' = CallState
      BY <2>1, SameCall DEF InCall, Critical, BeforeTry
    <2>5. QED
      BY <2>1, <2>3, <2>4 DEF Quiet
  <1>3. CASE SyncJournal(p)
    <2>1. CallState' = CallState
      BY <1>3, SameCall DEF SyncJournal, Goto, Inside, InCall, Critical, BeforeTry, InTry
    <2>2. QED
      BY <1>3, <2>1, SyncParentQuiet DEF SyncJournal, Inside, Quiet
  <1>4. CASE WriteInventory(p) \/ WriteSignature(p) \/ WriteManifest(p)
    <2>1. PICK c \in Controls : Replace(c, new[p][c])
      BY <1>4 DEF WriteInventory, WriteSignature, WriteManifest, WriteControl, Controls
    <2>2. PICK x \in InCall : pc' = [pc EXCEPT ![p] = x]
      BY <1>4 DEF WriteInventory, WriteSignature, WriteManifest, WriteControl, Goto, InCall,
         Critical, InTry
    <2>3. pc[p] \in InTry /\ role' = role /\ UNCHANGED answers
      BY <1>4 DEF WriteInventory, WriteSignature, WriteManifest, WriteControl, Inside, InTry
    <2>4. journal # NoJournal
      BY <2>3, NamesAssumption DEF WriteInv, TypeOK
    <2>5. CallState' = CallState
      BY <2>2, <2>3, SameCall DEF InCall, Critical, InTry
    <2>6. QED
      BY <2>1, <2>3, <2>4, <2>5, ReplaceQuiet DEF Quiet
  <1>5. CASE SyncInventory(p) \/ SyncSignature(p) \/ SyncManifest(p)
    <2>1. PICK x \in InCall : pc' = [pc EXCEPT ![p] = x]
      BY <1>5 DEF SyncInventory, SyncSignature, SyncManifest, SyncControl, Goto, InCall,
         Critical, InTry
    <2>2. /\ pc[p] \in InCall /\ role' = role /\ UNCHANGED answers
          /\ SyncRoot
      BY <1>5 DEF SyncInventory, SyncSignature, SyncManifest, SyncControl, Inside, InCall,
         Critical, InTry
    <2>3. QED
      BY <2>1, <2>2, SameCall, SyncRootQuiet DEF Quiet
  <1>6. QED
    BY <1>1, <1>2, <1>3, <1>4, <1>5 DEF Finalization

LEMMA UndoingQuiet ==
  ASSUME DirectorySync, TypeOK, ControlInv, ~LateInterrupt, NEW p \in Processes,
         Rollback(p), ~SyncUndropped(p)
  PROVE  Quiet
  <1> USE DEF ControlInv
  <1>1. Committed' = Committed /\ Durable' \in {Durable, Committed}
    <2>1. CASE StartRollback(p)
      BY <2>1 DEF StartRollback, files, Committed, Durable
    <2>2. ASSUME NEW c \in Controls, UndoControl(p, c)
          PROVE  Committed' = Committed /\ Durable' \in {Durable, Committed}
      <3>1. journal # NoJournal
        BY <2>2, NamesAssumption DEF UndoControl, RestoreInv, TypeOK
      <3>2. QED
        BY <2>2, <3>1, ReplaceQuiet DEF UndoControl
    <2>3. CASE SyncUndone(p)
      BY <2>3, SyncRootQuiet DEF SyncUndone
    <2>4. CASE DropUndone(p)
      <3>1. /\ pc[p] = "undo" /\ todo[p] = {} /\ journal' = NoJournal
            /\ controls' = controls /\ diskControls' = diskControls
            /\ diskJournal' = diskJournal
        BY <2>4 DEF DropUndone, WriteJournalFile
      <3>2. orig[p] = journal /\ \A c \in Controls : controls[c] = orig[p][c]
        BY <3>1 DEF RestoreInv
      <3>3. controls = journal /\ journal # NoJournal
        BY <3>2, SameState, NamesAssumption DEF TypeOK
      <3>4. QED
        BY <3>1, <3>3 DEF Committed, Durable
    <2>5. QED
      BY <2>1, <2>2, <2>3, <2>4 DEF Rollback
  <1>2. PICK x \in InCall : pc' = [pc EXCEPT ![p] = x]
    BY DEF Rollback, StartRollback, UndoControl, SyncUndone, DropUndone, Goto, InCall,
       Critical, Undoing
  <1>3. pc[p] \in InCall /\ role' = role /\ UNCHANGED answers
    BY DEF Rollback, StartRollback, UndoControl, SyncUndone, DropUndone, Inside, InCall,
       Critical, Undoing, InTry
  <1>4. QED
    BY <1>1, <1>2, <1>3, SameCall DEF Quiet

LEMMA CommitImplements ==
  ASSUME TypeOK, ControlInv, RoleInv, NEW p \in Processes, Commit(p)
  PROVE  Atomic!Commit(p)
  <1>1. /\ pc[p] = "commit" /\ pc' = [pc EXCEPT ![p] = "syncCommit"] /\ role' = role
        /\ journal' = NoJournal /\ controls' = controls /\ diskControls' = diskControls
        /\ diskJournal' = diskJournal /\ UNCHANGED answers
    BY DEF Commit, WriteJournalFile, Goto, Inside
  <1>2. role[p] = "finalize"
    BY <1>1 DEF RoleInv, InTry
  <1>3. CallState[p] = "writing" /\ CallState' = [CallState EXCEPT ![p] = "effected"]
    BY <1>1, <1>2 DEF CallState, TypeOK
  <1>4. Committed' \in Atomic!States /\ Durable' = Durable
    BY <1>1 DEF Committed, Durable, TypeOK, States, Atomic!States
  <1>5. QED
    BY <1>1, <1>3, <1>4 DEF Atomic!Commit, answers

LEMMA SyncCommitImplements ==
  ASSUME DirectorySync, TypeOK, ControlInv, RoleInv, NEW p \in Processes, SyncCommit(p)
  PROVE  Atomic!Finish(p)
  <1>1. /\ pc[p] = "syncCommit" /\ pc' = [pc EXCEPT ![p] = "idle"] /\ role' = role
        /\ SyncParent /\ outcome' = [outcome EXCEPT ![p] = "ok"]
        /\ told' = [told EXCEPT ![p] = new[p]]
    BY DEF SyncCommit, Leave, Goto
  <1>2. role[p] = "finalize"
    BY <1>1 DEF RoleInv
  <1>3. CallState[p] = "effected" /\ CallState' = [CallState EXCEPT ![p] = "idle"]
    BY <1>1, <1>2, CallEnds DEF CallState
  <1>4. Committed = new[p]
    BY <1>1 DEF ControlInv, SettledInv, WriteInv, Committed
  <1>5. Committed' = Committed /\ Durable' = Committed
    BY <1>1, SyncParentQuiet DEF ControlInv
  <1>6. QED
    BY <1>1, <1>3, <1>4, <1>5 DEF Atomic!Finish

LEMMA SyncUndroppedImplements ==
  ASSUME DirectorySync, TypeOK, ControlInv, RoleInv, NEW p \in Processes, SyncUndropped(p)
  PROVE  Atomic!Fail(p)
  <1>1. /\ pc[p] = "undropSync" /\ pc' = [pc EXCEPT ![p] = "idle"] /\ role' = role
        /\ SyncParent /\ outcome' = [outcome EXCEPT ![p] = "error"] /\ told' = told
    BY DEF SyncUndropped, Leave, Goto
  <1>2. role[p] = "finalize"
    BY <1>1 DEF RoleInv, Undoing
  <1>3. CallState[p] = "writing" /\ CallState' = [CallState EXCEPT ![p] = "idle"]
    BY <1>1, <1>2, CallEnds DEF CallState
  <1>4. journal = NoJournal /\ controls = orig[p] /\ diskJournal = orig[p] /\ orig[p] \in States
    BY <1>1 DEF ControlInv, SettledInv, RestoreInv, TypeOK
  <1>5. Committed = orig[p] /\ Durable = orig[p]
    BY <1>4, NamesAssumption DEF Committed, Durable
  <1>6. Committed' = Committed /\ Durable' = Durable
    BY <1>1, <1>5, SyncParentQuiet DEF ControlInv
  <1>7. QED
    BY <1>1, <1>3, <1>6 DEF Atomic!Fail

LEMMA VerificationImplements ==
  ASSUME TypeOK, ControlInv, RoleInv, NEW p \in Processes, Verification(p)
  PROVE  Quiet \/ Atomic!Read(p) \/ Atomic!Fail(p)
  <1> USE DEF ControlInv
  <1>1. CASE ReadManifest(p) \/ ReadInventory(p) \/ ReadSignature(p)
    <2>1. PICK x \in InCall : pc' = [pc EXCEPT ![p] = x]
      BY <1>1 DEF ReadManifest, ReadInventory, ReadSignature, ReadControl, Goto, InCall,
         Critical, Verifying
    <2>2. pc[p] \in InCall /\ role' = role /\ UNCHANGED answers /\ UNCHANGED files
      BY <1>1 DEF ReadManifest, ReadInventory, ReadSignature, ReadControl, Inside, InCall,
         Critical, Verifying
    <2>3. QED
      BY <2>1, <2>2, SameCall DEF Quiet, files, Committed, Durable
  <1>2. CASE Accept(p) \/ Reject(p)
    <2>1. /\ pc[p] = "answer" /\ pc' = [pc EXCEPT ![p] = "idle"] /\ role' = role
          /\ UNCHANGED files
      BY <1>2 DEF Accept, Reject, Leave, Goto
    <2>2. role[p] = "verify"
      BY <2>1 DEF RoleInv, Verifying
    <2>3. CallState[p] = "reading" /\ CallState' = [CallState EXCEPT ![p] = "idle"]
      BY <2>1, <2>2, CallEnds DEF CallState
    <2>4. Committed' = Committed /\ Durable' = Durable
      BY <2>1 DEF files, Committed, Durable
    <2>5. seen[p] = Committed
      <3>1. journal = NoJournal /\ \A c \in Controls : seen[p][c] = controls[c]
        BY <2>1 DEF SettledInv, ReadInv, Verifying, Controls
      <3>2. QED
        BY <3>1, SameState DEF TypeOK, Committed
    <2>6. CASE Accept(p)
      BY <2>3, <2>4, <2>5, <2>6 DEF Accept, Leave, Atomic!Read
    <2>7. CASE Reject(p)
      BY <2>3, <2>4, <2>7 DEF Reject, Leave, Atomic!Fail
    <2>8. QED
      BY <1>2, <2>6, <2>7
  <1>3. QED
    BY <1>1, <1>2 DEF Verification

LEMMA AbortImplements ==
  ASSUME TypeOK, NEW p \in Processes, Abort(p)
  PROVE  Atomic!Fail(p)
  <1>1. /\ pc' = [pc EXCEPT ![p] = "idle"] /\ role' = role /\ UNCHANGED files
        /\ outcome' = [outcome EXCEPT ![p] = "error"] /\ told' = told
        /\ pc[p] \notin {"idle", "syncCommit"}
    BY DEF Abort, Leave, Goto, Recovering, BeforeTry, Undoing, Verifying
  <1>2. /\ CallState[p] \in {"writing", "reading"}
        /\ CallState' = [CallState EXCEPT ![p] = "idle"]
    BY <1>1, CallEnds DEF CallState
  <1>3. QED
    BY <1>1, <1>2 DEF Atomic!Fail, files, Committed, Durable

LEMMA CallImplements ==
  ASSUME TypeOK, NEW p \in Processes, Begin(p) \/ Acquire(p) \/ LockTimeout(p)
  PROVE  Quiet \/ Atomic!Begin(p) \/ Atomic!Fail(p)
  <1>1. Committed' = Committed /\ Durable' = Durable
    BY DEF Begin, Acquire, LockTimeout, files, Committed, Durable
  <1>2. CASE Begin(p)
    <2>1. PICK o \in {"writing", "reading"} : CallState' = [CallState EXCEPT ![p] = o]
      BY <1>2 DEF Begin, Goto, Roles, TypeOK, CallState
    <2>2. CallState[p] = "idle"
      BY <1>2 DEF Begin, CallState
    <2>3. QED
      BY <1>1, <1>2, <2>1, <2>2 DEF Begin, Atomic!Begin
  <1>3. CASE Acquire(p)
    <2>1. "wait" \in InCall /\ "recover" \in InCall
      BY DEF InCall, Critical, Recovering
    <2>2. CallState' = CallState
      BY <1>3, <2>1, SameCall DEF Acquire, Goto
    <2>3. QED
      BY <1>1, <1>3, <2>2 DEF Acquire, Quiet
  <1>4. CASE LockTimeout(p)
    <2>1. /\ CallState[p] \in {"writing", "reading"}
          /\ CallState' = [CallState EXCEPT ![p] = "idle"]
      BY <1>4, CallEnds DEF LockTimeout, Goto, CallState
    <2>2. QED
      BY <1>1, <1>4, <2>1 DEF LockTimeout, Atomic!Fail
  <1>5. QED
    BY <1>2, <1>3, <1>4

LEMMA KillImplements ==
  ASSUME TypeOK, NEW p \in Processes, Kill(p)
  PROVE  Atomic!Kill(p)
  <1>1. Committed' = Committed /\ Durable' = Durable
    BY DEF Kill, Committed, Durable
  <1>2. CallState' = [CallState EXCEPT ![p] = "idle"]
    BY CallEnds DEF Kill, Goto
  <1>3. QED
    BY <1>1, <1>2 DEF Kill, Atomic!Kill

LEMMA PowerLossImplements ==
  ASSUME TypeOK, ControlInv, PowerLoss
  PROVE  Atomic!PowerLoss
  <1>1. PICK m \in Mixtures : controls' = m /\ diskControls' = m
    BY DEF PowerLoss
  <1>2. PICK j \in {journal, diskJournal} : journal' = j /\ diskJournal' = j
    BY DEF PowerLoss
  <1>3. Committed' = (IF j = NoJournal THEN m ELSE j) /\ Durable' = Committed'
    BY <1>1, <1>2 DEF Committed, Durable
  <1>4. Committed' \in {Committed, Durable}
    BY <1>3, DiskInvIsSafe DEF PowerLossSafe, ControlInv
  <1>5. CallState' = [p \in Processes |-> "idle"]
    BY DEF PowerLoss, CallState
  <1>6. QED
    BY <1>3, <1>4, <1>5 DEF PowerLoss, Atomic!PowerLoss

LEMMA InitImplements == Init => Atomic!Init
  <1> SUFFICES ASSUME Init PROVE Atomic!Init
    OBVIOUS
  <1>1. /\ journal = NoJournal /\ diskJournal = NoJournal /\ diskControls = controls
        /\ told = [p \in Processes |-> controls]
        /\ outcome = [p \in Processes |-> "none"]
        /\ pc = [p \in Processes |-> "idle"]
    BY Zenon DEF Init
  <1>2. controls \in States
    BY InitType DEF TypeOK
  <1>3. Committed = controls /\ Durable = controls
    BY <1>1 DEF Committed, Durable
  <1>4. CallState = [p \in Processes |-> "idle"]
    BY <1>1 DEF CallState
  <1>5. QED
    BY <1>1, <1>2, <1>3, <1>4 DEF Atomic!Init, Atomic!States, States

\* Every step of the protocol is a step of the atomic release, or none.
LEMMA StepImplements ==
  ASSUME DirectorySync, ~LateInterrupt
  PROVE  TypeOK /\ ControlInv /\ RoleInv /\ [Next]_vars => AtomicStep
  <1> SUFFICES ASSUME TypeOK, ControlInv, RoleInv, [Next]_vars PROVE AtomicStep
    OBVIOUS
  <1>1. ASSUME NEW p \in Processes,
               \/ Quiet \/ Atomic!Begin(p) \/ Atomic!Commit(p) \/ Atomic!Finish(p)
               \/ Atomic!Read(p) \/ Atomic!Fail(p) \/ Atomic!Kill(p)
        PROVE  AtomicStep
    BY <1>1, QuietStep DEF AtomicStep, Atomic!Next
  <1>2. ASSUME NEW p \in Processes, Begin(p) \/ Acquire(p) \/ LockTimeout(p) PROVE AtomicStep
    BY <1>1, <1>2, CallImplements
  <1>3. ASSUME NEW p \in Processes, Recovery(p) PROVE AtomicStep
    BY <1>3, RecoveryQuiet, QuietStep
  <1>4. ASSUME NEW p \in Processes, Finalization(p) PROVE AtomicStep
    BY <1>1, <1>4, WritingQuiet, QuietStep, CommitImplements, SyncCommitImplements
  <1>5. ASSUME NEW p \in Processes, Rollback(p) PROVE AtomicStep
    BY <1>1, <1>5, UndoingQuiet, QuietStep, SyncUndroppedImplements
  <1>6. ASSUME NEW p \in Processes, Verification(p) PROVE AtomicStep
    BY <1>1, <1>6, VerificationImplements
  <1>7. ASSUME NEW p \in Processes, Abort(p) PROVE AtomicStep
    BY <1>1, <1>7, AbortImplements
  <1>8. ASSUME NEW p \in Processes, Kill(p) PROVE AtomicStep
    BY <1>1, <1>8, KillImplements
  <1>9. CASE PowerLoss
    BY <1>9, PowerLossImplements DEF AtomicStep, Atomic!Next
  <1>10. CASE UNCHANGED vars
    BY <1>10 DEF vars, files, answers, AtomicStep, Atomic!vars, Committed, Durable, CallState
  <1>11. QED
    BY <1>2, <1>3, <1>4, <1>5, <1>6, <1>7, <1>8, <1>9, <1>10 DEF Next, Work

(* The journal protocol implements the atomic release: seen through its    *)
(* journal, a release changes in one step or not at all, errors change     *)
(* nothing, and what a finalization reported is never lost.                *)
THEOREM Implementation ==
  ASSUME DirectorySync, ~LateInterrupt
  PROVE  Spec => ImplementsAtomicRelease
  <1>1. Init => TypeOK /\ LockExclusion /\ ControlInv /\ RoleInv /\ Atomic!Init
    BY InitType, InitLock, InitInv, InitRole, InitImplements
  <1>2. TypeOK /\ LockExclusion /\ ControlInv /\ RoleInv /\ [Next]_vars
          => TypeOK' /\ LockExclusion' /\ ControlInv' /\ RoleInv'
    BY TypeStep, LockStep, ControlStep, RoleStep
  <1>3. TypeOK /\ ControlInv /\ RoleInv /\ [Next]_vars => [Atomic!Next]_(Atomic!vars)
    BY StepImplements DEF AtomicStep
  <1>4. QED
    BY <1>1, <1>2, <1>3, PTL DEF Spec, ImplementsAtomicRelease, Atomic!Spec

-----------------------------------------------------------------------------
(* What processes see, with and without directory fsync and whenever an    *)
(* interrupt arrives: the part of ControlInv that is not about the disk.   *)

SeenInv(p) ==
  /\ pc[p] \in {"restore", "restoreSync"} => orig[p] = journal
  /\ pc[p] \in {"undo", "undoSync"} => LateInterrupt \/ orig[p] = journal
  /\ pc[p] \in {"restore", "restoreSync", "undo", "undoSync"} =>
       \A c \in Controls \ todo[p] : controls[c] = orig[p][c]
  /\ pc[p] = "undropSync" => controls = orig[p]
  /\ pc[p] \in {"policy", "writeJournal", "syncJournal"} => orig[p] = controls
  /\ pc[p] \in InTry \cup {"syncJournal"} => orig[p] = journal
  /\ ReadInv(p)
  /\ SettledInv(p)

ViewInv == \A p \in Processes : SeenInv(p)

LEMMA OutsideSeenPrime ==
  ASSUME NEW p \in Processes, pc'[p] \notin Critical
  PROVE  SeenInv(p)'
  BY DEF SeenInv, ReadInv, SettledInv, Critical, Recovering, BeforeTry, InTry, Undoing,
         Verifying

LEMMA InitView == Init => ViewInv
  <1> SUFFICES ASSUME Init, NEW p \in Processes PROVE SeenInv(p)
    BY DEF ViewInv
  <1>1. pc[p] = "idle"
    BY Zenon DEF Init
  <1>2. QED
    BY <1>1 DEF SeenInv, ReadInv, SettledInv, InTry, Verifying

LEMMA RecoverySees ==
  ASSUME TypeOK, NEW p \in Processes, SeenInv(p), Recovery(p)
  PROVE  SeenInv(p)'
  <1> USE DEF TypeOK, Inside, Goto
  <1>1. CASE SkipRecovery(p) \/ StartRecovery(p)
    BY <1>1 DEF SkipRecovery, StartRecovery, Body, SeenInv, ReadInv, SettledInv, InTry,
       Verifying, files, locals
  <1>2. ASSUME NEW c \in Controls, RestoreControl(p, c) PROVE SeenInv(p)'
    <2>1. /\ journal' = journal /\ controls' = [controls EXCEPT ![c] = orig[p][c]]
          /\ orig' = orig /\ orig[p] = journal /\ orig[p] \in States
          /\ pc[p] = "restore" /\ pc'[p] = "restoreSync" /\ todo'[p] = todo[p] \ {c}
      BY <1>2 DEF RestoreControl, Replace, SeenInv
    <2>2. \A d \in Controls \ todo'[p] : controls'[d] = orig'[p][d]
      BY <2>1 DEF SeenInv, States
    <2>3. QED
      BY <2>1, <2>2 DEF SeenInv, ReadInv, SettledInv, InTry, Verifying
  <1>3. CASE SyncRestored(p)
    BY <1>3 DEF SyncRestored, SyncRoot, SeenInv, ReadInv, SettledInv, InTry, Verifying, locals
  <1>4. CASE DropJournal(p) \/ SyncDropped(p)
    BY <1>4 DEF DropJournal, SyncDropped, WriteJournalFile, SyncParent, Body, SeenInv, ReadInv,
       SettledInv, InTry, Verifying, locals
  <1>5. QED
    BY <1>1, <1>2, <1>3, <1>4 DEF Recovery

LEMMA FinalizationSees ==
  ASSUME TypeOK, NEW p \in Processes, SeenInv(p), Finalization(p)
  PROVE  SeenInv(p)'
  <1> USE DEF TypeOK, Inside, Goto
  <1>1. CASE TakeSnapshot(p) \/ CheckPolicy(p)
    BY <1>1 DEF TakeSnapshot, CheckPolicy, SeenInv, ReadInv, SettledInv, InTry, Verifying, files
  <1>2. CASE WriteJournal(p) \/ SyncJournal(p)
    BY <1>2 DEF WriteJournal, SyncJournal, WriteJournalFile, SyncParent, SeenInv, ReadInv,
       SettledInv, InTry, Verifying, locals
  <1>3. CASE WriteInventory(p) \/ WriteSignature(p) \/ WriteManifest(p)
    <2>1. /\ journal' = journal /\ orig' = orig
          /\ pc[p] \in InTry /\ pc'[p] \in {"syncInventory", "syncSignature", "syncManifest"}
      BY <1>3 DEF WriteInventory, WriteSignature, WriteManifest, WriteControl, Replace, InTry,
         locals
    <2>2. QED
      BY <2>1 DEF SeenInv, ReadInv, SettledInv, InTry, Verifying
  <1>4. CASE SyncInventory(p) \/ SyncSignature(p) \/ SyncManifest(p)
    BY <1>4 DEF SyncInventory, SyncSignature, SyncManifest, SyncControl, SyncRoot, SeenInv,
       ReadInv, SettledInv, InTry, Verifying, locals
  <1>5. CASE VerifyPayload(p) \/ VerifyEqualities(p)
    BY <1>5 DEF VerifyPayload, VerifyEqualities, Passes, SeenInv, ReadInv, SettledInv, InTry,
       Verifying, locals, files
  <1>6. CASE Commit(p)
    BY <1>6 DEF Commit, WriteJournalFile, SeenInv, ReadInv, SettledInv, InTry, Verifying, locals
  <1>7. CASE SyncCommit(p)
    BY <1>7, OutsideBlock, OutsideSeenPrime DEF SyncCommit, Leave
  <1>8. QED
    BY <1>1, <1>2, <1>3, <1>4, <1>5, <1>6, <1>7 DEF Finalization

LEMMA RollbackSees ==
  ASSUME TypeOK, NEW p \in Processes, SeenInv(p), Rollback(p)
  PROVE  SeenInv(p)'
  <1> USE DEF TypeOK, Inside, Goto
  <1>1. CASE StartRollback(p)
    BY <1>1 DEF StartRollback, SeenInv, ReadInv, SettledInv, InTry, Verifying, files
  <1>2. ASSUME NEW c \in Controls, UndoControl(p, c) PROVE SeenInv(p)'
    <2>1. /\ journal' = journal /\ controls' = [controls EXCEPT ![c] = orig[p][c]]
          /\ orig' = orig /\ orig[p] \in States
          /\ pc[p] = "undo" /\ pc'[p] = "undoSync" /\ todo'[p] = todo[p] \ {c}
      BY <1>2 DEF UndoControl, Replace
    <2>2. \A d \in Controls \ todo'[p] : controls'[d] = orig'[p][d]
      BY <2>1 DEF SeenInv, States
    <2>3. QED
      BY <2>1, <2>2 DEF SeenInv, ReadInv, SettledInv, InTry, Verifying
  <1>3. CASE SyncUndone(p)
    BY <1>3 DEF SyncUndone, SyncRoot, SeenInv, ReadInv, SettledInv, InTry, Verifying, locals
  <1>4. CASE DropUndone(p)
    <2>1. /\ pc[p] = "undo" /\ pc'[p] = "undropSync" /\ journal' = NoJournal
          /\ controls' = controls /\ orig' = orig /\ todo[p] = {}
      BY <1>4 DEF DropUndone, WriteJournalFile, locals
    <2>2. controls = orig[p]
      BY <2>1, SameState DEF SeenInv
    <2>3. QED
      BY <2>1, <2>2 DEF SeenInv, ReadInv, SettledInv, InTry, Verifying
  <1>5. CASE SyncUndropped(p)
    BY <1>5, OutsideBlock, OutsideSeenPrime DEF SyncUndropped, Leave
  <1>6. QED
    BY <1>1, <1>2, <1>3, <1>4, <1>5 DEF Rollback

LEMMA VerificationSees ==
  ASSUME TypeOK, NEW p \in Processes, SeenInv(p), Verification(p) \/ Abort(p)
  PROVE  SeenInv(p)'
  <1> USE DEF TypeOK, Inside, Goto
  <1>1. CASE ReadManifest(p) \/ ReadInventory(p) \/ ReadSignature(p)
    BY <1>1 DEF ReadManifest, ReadInventory, ReadSignature, ReadControl, SeenInv, ReadInv,
       SettledInv, InTry, Verifying, files, States, Controls
  <1>2. CASE Accept(p) \/ Reject(p) \/ Abort(p)
    BY <1>2, OutsideBlock, OutsideSeenPrime DEF Accept, Reject, Abort, Leave
  <1>3. QED
    BY <1>1, <1>2 DEF Verification

LEMMA ViewStep == TypeOK /\ LockExclusion /\ ViewInv /\ [Next]_vars => ViewInv'
  <1> SUFFICES ASSUME TypeOK, LockExclusion, ViewInv, [Next]_vars PROVE ViewInv'
    OBVIOUS
  <1>1. ASSUME NEW p \in Processes,
               Recovery(p) \/ Finalization(p) \/ Rollback(p) \/ Verification(p) \/ Abort(p)
        PROVE  ViewInv'
    <2>1. Stays(p) \/ Leaves(p)
      BY <1>1, RecoveryStays, FinalizationKinds, RollbackKinds, VerificationKinds, AbortLeaves
    <2>2. SeenInv(p)'
      BY <1>1, RecoverySees, FinalizationSees, RollbackSees, VerificationSees DEF ViewInv
    <2>3. ASSUME NEW q \in Processes, q # p PROVE SeenInv(q)'
      BY <2>1, <2>3, OthersWait, OutsideSeenPrime
    <2>4. QED
      BY <2>2, <2>3 DEF ViewInv
  <1>2. ASSUME NEW p \in Processes, Begin(p) \/ Acquire(p) \/ LockTimeout(p) \/ Kill(p)
        PROVE  ViewInv'
    <2>1. /\ UNCHANGED <<controls, journal>>
          /\ pc'[p] \in {"idle", "wait", "recover"}
          /\ \A q \in Processes \ {p} :
               /\ pc'[q] = pc[q] /\ orig'[q] = orig[q]
               /\ seen'[q] = seen[q] /\ todo'[q] = todo[q]
      BY <1>2 DEF Begin, Acquire, LockTimeout, Kill, Goto, TypeOK, files, locals
    <2>2. SeenInv(p)'
      BY <2>1 DEF SeenInv, ReadInv, SettledInv, InTry, Verifying
    <2>3. ASSUME NEW q \in Processes, q # p PROVE SeenInv(q)'
      BY <2>1, <2>3 DEF ViewInv, SeenInv, ReadInv, SettledInv
    <2>4. QED
      BY <2>2, <2>3 DEF ViewInv
  <1>3. CASE PowerLoss
    <2>1. ASSUME NEW q \in Processes PROVE SeenInv(q)'
      BY <1>3, OutsideBlock, OutsideSeenPrime DEF PowerLoss
    <2>2. QED
      BY <2>1 DEF ViewInv
  <1>4. CASE UNCHANGED vars
    BY <1>4 DEF vars, files, locals, ViewInv, SeenInv, ReadInv, SettledInv
  <1>5. QED
    BY <1>1, <1>2, <1>3, <1>4 DEF Next, Work

LEMMA ViewInvariant == Spec => [](TypeOK /\ LockExclusion /\ ViewInv)
  <1>1. Init => TypeOK /\ LockExclusion /\ ViewInv
    BY InitType, InitLock, InitView
  <1>2. TypeOK /\ LockExclusion /\ ViewInv /\ [Next]_vars
          => TypeOK' /\ LockExclusion' /\ ViewInv'
    BY TypeStep, LockStep, ViewStep
  <1>3. QED
    BY <1>1, <1>2, PTL DEF Spec

-----------------------------------------------------------------------------
(* The three action properties.                                            *)

\* A step within the block that changes neither the journal nor the controls,
\* or replaces a control that the journal overrides, leaves the release.
LEMMA SameFilesSameRelease ==
  ASSUME journal' = journal, controls' = controls \/ journal # NoJournal
  PROVE  Committed' = Committed
  BY DEF Committed

LEMMA RecoveryKeepsRelease ==
  ASSUME TypeOK, NEW p \in Processes, SeenInv(p), Recovery(p)
  PROVE  Committed' = Committed
  <1>1. CASE SkipRecovery(p) \/ StartRecovery(p)
    BY <1>1, SameFilesSameRelease DEF SkipRecovery, StartRecovery, files
  <1>2. ASSUME NEW c \in Controls, RestoreControl(p, c) PROVE Committed' = Committed
    <2>1. orig[p] = journal /\ orig[p] \in States
      BY <1>2 DEF RestoreControl, SeenInv, TypeOK
    <2>2. journal # NoJournal
      BY <2>1, NamesAssumption
    <2>3. QED
      BY <1>2, <2>2, SameFilesSameRelease DEF RestoreControl, Replace
  <1>3. CASE SyncRestored(p) \/ SyncDropped(p)
    BY <1>3, SameFilesSameRelease DEF SyncRestored, SyncDropped, SyncRoot, SyncParent
  <1>4. CASE DropJournal(p)
    <2>1. /\ pc[p] = "restore" /\ todo[p] = {}
          /\ journal' = NoJournal /\ controls' = controls
      BY <1>4 DEF DropJournal, WriteJournalFile
    <2>2. orig[p] = journal /\ \A c \in Controls : controls[c] = orig[p][c]
      BY <2>1 DEF SeenInv
    <2>3. controls = journal /\ journal # NoJournal
      BY <2>2, SameState, NamesAssumption DEF TypeOK
    <2>4. QED
      BY <2>1, <2>3 DEF Committed
  <1>5. QED
    BY <1>1, <1>2, <1>3, <1>4 DEF Recovery

LEMMA WritingKeepsRelease ==
  ASSUME TypeOK, NEW p \in Processes, SeenInv(p), Finalization(p), ~Commit(p)
  PROVE  Committed' = Committed
  <1>1. CASE TakeSnapshot(p) \/ CheckPolicy(p) \/ VerifyPayload(p) \/ VerifyEqualities(p)
    BY <1>1, SameFilesSameRelease DEF TakeSnapshot, CheckPolicy, VerifyPayload,
       VerifyEqualities, Passes, files
  <1>2. CASE WriteJournal(p)
    <2>1. journal = NoJournal /\ orig[p] = controls
      BY <1>2 DEF WriteJournal, SeenInv, SettledInv
    <2>2. QED
      BY <1>2, <2>1 DEF WriteJournal, WriteJournalFile, Committed
  <1>3. CASE SyncJournal(p) \/ SyncCommit(p)
    BY <1>3, SameFilesSameRelease DEF SyncJournal, SyncCommit, SyncParent
  <1>4. CASE WriteInventory(p) \/ WriteSignature(p) \/ WriteManifest(p)
    <2>1. pc[p] \in InTry /\ journal' = journal
      BY <1>4 DEF WriteInventory, WriteSignature, WriteManifest, WriteControl, Replace, InTry
    <2>2. journal # NoJournal
      BY <2>1, NamesAssumption DEF SeenInv, TypeOK
    <2>3. QED
      BY <2>1, <2>2, SameFilesSameRelease
  <1>5. CASE SyncInventory(p) \/ SyncSignature(p) \/ SyncManifest(p)
    BY <1>5, SameFilesSameRelease DEF SyncInventory, SyncSignature, SyncManifest, SyncControl,
       SyncRoot
  <1>6. QED
    BY <1>1, <1>2, <1>3, <1>4, <1>5 DEF Finalization

LEMMA UndoingKeepsRelease ==
  ASSUME ~LateInterrupt, TypeOK, NEW p \in Processes, SeenInv(p), Rollback(p)
  PROVE  Committed' = Committed
  <1>1. CASE StartRollback(p)
    BY <1>1, SameFilesSameRelease DEF StartRollback, files
  <1>2. ASSUME NEW c \in Controls, UndoControl(p, c) PROVE Committed' = Committed
    <2>1. journal # NoJournal
      BY <1>2, NamesAssumption DEF UndoControl, SeenInv, TypeOK
    <2>2. QED
      BY <1>2, <2>1, SameFilesSameRelease DEF UndoControl, Replace
  <1>3. CASE SyncUndone(p) \/ SyncUndropped(p)
    BY <1>3, SameFilesSameRelease DEF SyncUndone, SyncUndropped, SyncRoot, SyncParent
  <1>4. CASE DropUndone(p)
    <2>1. /\ pc[p] = "undo" /\ todo[p] = {}
          /\ journal' = NoJournal /\ controls' = controls
      BY <1>4 DEF DropUndone, WriteJournalFile
    <2>2. orig[p] = journal /\ \A c \in Controls : controls[c] = orig[p][c]
      BY <2>1 DEF SeenInv
    <2>3. controls = journal /\ journal # NoJournal
      BY <2>2, SameState, NamesAssumption DEF TypeOK
    <2>4. QED
      BY <2>1, <2>3 DEF Committed
  <1>5. QED
    BY <1>1, <1>2, <1>3, <1>4 DEF Rollback

LEMMA CallKeepsRelease ==
  ASSUME NEW p \in Processes,
         \/ Begin(p) \/ Acquire(p) \/ LockTimeout(p) \/ Verification(p) \/ Abort(p) \/ Kill(p)
  PROVE  Committed' = Committed
  BY SameFilesSameRelease DEF Begin, Acquire, LockTimeout, Verification, ReadManifest,
     ReadInventory, ReadSignature, ReadControl, Accept, Reject, Abort, Kill, files

(* The release that recovery would yield changes in the journal unlink of  *)
(* a finalization and in a power loss only, directory fsync or not, if no  *)
(* interrupt arrives after that unlink.                                    *)
THEOREM ReleaseChangesAtCommit ==
  ASSUME ~LateInterrupt
  PROVE  Spec => OnlyCommitChangesTheRelease
  <1> DEFINE Allowed == Committed' # Committed =>
                          \/ losses' # losses
                          \/ \E p \in Processes : pc[p] = "commit" /\ pc'[p] = "syncCommit"
  <1>1. TypeOK /\ ViewInv /\ [Next]_vars => [Allowed]_vars
    <2> SUFFICES ASSUME TypeOK, ViewInv, Next, Committed' # Committed
                 PROVE  \/ losses' # losses
                        \/ \E p \in Processes : pc[p] = "commit" /\ pc'[p] = "syncCommit"
      OBVIOUS
    <2>1. CASE PowerLoss
      BY <2>1 DEF PowerLoss, TypeOK
    <2>2. ASSUME NEW p \in Processes, Begin(p) \/ Work(p) \/ Kill(p)
          PROVE  pc[p] = "commit" /\ pc'[p] = "syncCommit"
      <3>1. Finalization(p)
        BY <2>2, CallKeepsRelease, RecoveryKeepsRelease, UndoingKeepsRelease DEF ViewInv, Work
      <3>2. Commit(p)
        BY <3>1, WritingKeepsRelease DEF ViewInv
      <3>3. QED
        BY <3>2 DEF Commit, Goto, TypeOK
    <2>3. QED
      BY <2>1, <2>2 DEF Next
  <1>2. QED
    BY <1>1, ViewInvariant, PTL DEF Spec, OnlyCommitChangesTheRelease

\* A process leaves the last step of its rollback with the controls as they are.
LEMMA RollbackEnds ==
  ASSUME TypeOK, LockExclusion, Next, losses' = losses,
         NEW p \in Processes, pc[p] = "undropSync", pc'[p] = "idle"
  PROVE  controls' = controls
  <1>1. ~PowerLoss
    <2>1. losses \in Nat
      BY DEF TypeOK
    <2>2. PowerLoss => losses' = losses + 1
      BY Zenon DEF PowerLoss
    <2>3. QED
      BY <2>1, <2>2
  <1>2. PICK q \in Processes : Begin(q) \/ Work(q) \/ Kill(q)
    BY <1>1 DEF Next
  <1>3. CASE Begin(q) \/ Acquire(q) \/ LockTimeout(q) \/ Kill(q) \/ Abort(q)
    BY <1>3 DEF Begin, Acquire, LockTimeout, Kill, Abort, files
  <1>4. CASE Recovery(q) \/ Finalization(q) \/ Rollback(q) \/ Verification(q)
    <2>1. Stays(q) \/ Leaves(q)
      BY <1>4, RecoveryStays, FinalizationKinds, RollbackKinds, VerificationKinds
    <2>2. q = p
      BY <2>1, OthersWait
    <2>3. ~Stays(p)
      BY OutsideBlock DEF Stays, TypeOK
    <2>4. CASE Recovery(p)
      BY <2>3, <2>4, RecoveryStays
    <2>5. CASE Verification(p)
      BY <2>5 DEF Verification, ReadManifest, ReadInventory, ReadSignature, ReadControl, Accept,
         Reject, files
    <2>6. CASE Rollback(p)
      BY <2>6 DEF Rollback, StartRollback, UndoControl, SyncUndone, DropUndone, SyncUndropped,
         SyncParent, SyncRoot, WriteJournalFile, InTry
    <2>7. CASE Finalization(p)
      <3>1. pc[p] \notin BeforeTry \cup InTry \cup {"syncCommit"}
        BY DEF BeforeTry, InTry
      <3>2. pc[p] \in BeforeTry \cup InTry \cup {"syncCommit"}
        BY <2>7 DEF Finalization, TakeSnapshot, CheckPolicy, WriteJournal, SyncJournal,
           WriteInventory, SyncInventory, VerifyPayload, WriteSignature, SyncSignature,
           WriteManifest, SyncManifest, VerifyEqualities, Commit, SyncCommit, WriteControl,
           SyncControl, Passes, BeforeTry, InTry
      <3>3. QED
        BY <3>1, <3>2
    <2>8. QED
      BY <1>4, <2>2, <2>4, <2>5, <2>6, <2>7
  <1>5. QED
    BY <1>2, <1>3, <1>4 DEF Work

(* A rollback that runs to its end has put back all three controls, at     *)
(* whatever point of the try block it began, an interrupt after the        *)
(* journal unlink included, with directory fsync or without.               *)
THEOREM RollbackRestores == Spec => RollbackRestoresEverything
  <1> DEFINE Restored == \A p \in Processes :
                           pc[p] = "undropSync" /\ pc'[p] = "idle" /\ losses' = losses
                             => controls' = orig[p]
  <1>1. TypeOK /\ LockExclusion /\ ViewInv /\ [Next]_vars => [Restored]_vars
    <2> SUFFICES ASSUME TypeOK, LockExclusion, ViewInv, Next, losses' = losses,
                        NEW p \in Processes, pc[p] = "undropSync", pc'[p] = "idle"
                 PROVE  controls' = orig[p]
      OBVIOUS
    <2>1. controls = orig[p]
      BY DEF ViewInv, SeenInv
    <2>2. QED
      BY <2>1, RollbackEnds
  <1>2. QED
    BY <1>1, ViewInvariant, PTL DEF Spec, RollbackRestoresEverything

(* Verification turns down only what is no release, whatever transaction,  *)
(* finalization or recovery was interrupted before it and however, unless  *)
(* its caller asked for a root without untracked files.                    *)
THEOREM RejectionIsJust ==
  ASSUME ~StrictFileSet
  PROVE  Spec => RejectsOnlyNonReleases
  <1> DEFINE Just == \A p \in Processes : outcome'[p] = "rejected" /\ outcome[p] # "rejected"
                                            => Committed \notin Releases
  <1>1. TypeOK /\ ViewInv /\ [Next]_vars => [Just]_vars
    <2> SUFFICES ASSUME TypeOK, ViewInv, Next, NEW p \in Processes,
                        outcome'[p] = "rejected", outcome[p] # "rejected"
                 PROVE  Committed \notin Releases
      OBVIOUS
    <2>1. ~PowerLoss
      BY DEF PowerLoss
    <2>2. PICK q \in Processes : Begin(q) \/ Work(q) \/ Kill(q)
      BY <2>1 DEF Next
    <2>3. \/ UNCHANGED outcome
          \/ \E o \in {"none", "ok", "error"} : outcome' = [outcome EXCEPT ![q] = o]
          \/ Reject(q)
      <3>1. CASE Begin(q) \/ Acquire(q) \/ LockTimeout(q) \/ Kill(q) \/ Abort(q)
        BY <3>1 DEF Begin, Acquire, LockTimeout, Kill, Abort, Leave, answers
      <3>2. CASE Recovery(q)
        BY <3>2 DEF Recovery, SkipRecovery, StartRecovery, RestoreControl, SyncRestored,
           DropJournal, SyncDropped, Inside, answers
      <3>3. CASE Finalization(q)
        BY <3>3 DEF Finalization, TakeSnapshot, CheckPolicy, WriteJournal, SyncJournal,
           WriteInventory, SyncInventory, VerifyPayload, WriteSignature, SyncSignature,
           WriteManifest, SyncManifest, VerifyEqualities, Commit, SyncCommit, WriteControl,
           SyncControl, Passes, Leave, Inside, answers
      <3>4. CASE Rollback(q)
        BY <3>4 DEF Rollback, StartRollback, UndoControl, SyncUndone, DropUndone,
           SyncUndropped, Leave, Inside, answers
      <3>5. CASE Verification(q)
        BY <3>5 DEF Verification, ReadManifest, ReadInventory, ReadSignature, ReadControl,
           Accept, Leave, Inside, answers
      <3>6. QED
        BY <2>2, <3>1, <3>2, <3>3, <3>4, <3>5 DEF Work
    <2>4. Reject(q) /\ q = p
      <3>1. Reject(q)
        BY <2>3 DEF TypeOK
      <3>2. outcome' = [outcome EXCEPT ![q] = "rejected"]
        BY <3>1 DEF Reject, Leave
      <3>3. QED
        BY <3>1, <3>2 DEF TypeOK
    <2>5. pc[p] = "answer" /\ seen[p] \notin Releases
      BY <2>4 DEF Reject, Verifies
    <2>6. journal = NoJournal /\ \A c \in Controls : seen[p][c] = controls[c]
      BY <2>5 DEF ViewInv, SeenInv, ReadInv, SettledInv, Verifying, Controls
    <2>7. seen[p] = Committed
      BY <2>6, SameState DEF TypeOK, Committed
    <2>8. QED
      BY <2>5, <2>7
  <1>2. QED
    BY <1>1, ViewInvariant, PTL DEF Spec, RejectsOnlyNonReleases

-----------------------------------------------------------------------------
(* What a caller is told.                                                  *)

\* The release that a finalization writes, and what of it is in place.
NewInv(p) ==
  /\ pc[p] \in {"writeJournal", "syncJournal", "syncCommit"} \cup InTry => new[p] \in Releases
  /\ pc[p] \in InTry \ {"writeInventory"} => controls["inventory"] = new[p]["inventory"]
  /\ pc[p] \in {"syncSignature", "writeManifest", "syncManifest",
                "verifyEqualities", "commit"} => controls["signature"] = new[p]["signature"]
  /\ pc[p] \in {"syncManifest", "verifyEqualities", "commit"} =>
       controls["manifest"] = new[p]["manifest"]
  /\ pc[p] = "syncCommit" => controls = new[p]

LEMMA NewOutside ==
  ASSUME NEW p \in Processes,
         pc'[p] \notin BeforeTry \cup InTry \cup {"syncCommit"}
           \/ pc'[p] \in {"snapshot", "policy"}
  PROVE  NewInv(p)'
  BY DEF NewInv, BeforeTry, InTry

LEMMA FinalizationWritesNew ==
  ASSUME TypeOK, NEW p \in Processes, NewInv(p), Finalization(p)
  PROVE  NewInv(p)'
  <1> USE DEF TypeOK, Inside, Goto
  <1>1. CASE TakeSnapshot(p)
    BY <1>1, NewOutside DEF TakeSnapshot, InTry, BeforeTry
  <1>2. CASE CheckPolicy(p)
    BY <1>2, ReleasesAssumption DEF CheckPolicy, NewInv, InTry
  <1>3. CASE WriteJournal(p) \/ SyncJournal(p)
    BY <1>3 DEF WriteJournal, SyncJournal, WriteJournalFile, SyncParent, NewInv, InTry, locals
  <1>4. CASE WriteInventory(p)
    <2>1. /\ controls' = [controls EXCEPT !["inventory"] = new[p]["inventory"]] /\ new' = new
          /\ pc[p] = "writeInventory" /\ pc'[p] = "syncInventory"
      BY <1>4 DEF WriteInventory, WriteControl, Replace, locals
    <2>2. QED
      BY <2>1 DEF NewInv, InTry, States, Controls
  <1>5. CASE WriteSignature(p)
    <2>1. /\ controls' = [controls EXCEPT !["signature"] = new[p]["signature"]] /\ new' = new
          /\ pc[p] = "writeSignature" /\ pc'[p] = "syncSignature"
      BY <1>5 DEF WriteSignature, WriteControl, Replace, locals
    <2>2. QED
      BY <2>1 DEF NewInv, InTry, States, Controls
  <1>6. CASE WriteManifest(p)
    <2>1. /\ controls' = [controls EXCEPT !["manifest"] = new[p]["manifest"]] /\ new' = new
          /\ pc[p] = "writeManifest" /\ pc'[p] = "syncManifest"
      BY <1>6 DEF WriteManifest, WriteControl, Replace, locals
    <2>2. QED
      BY <2>1 DEF NewInv, InTry, States, Controls
  <1>7. CASE SyncInventory(p) \/ SyncSignature(p) \/ SyncManifest(p)
    BY <1>7 DEF SyncInventory, SyncSignature, SyncManifest, SyncControl, SyncRoot, NewInv,
       InTry, locals
  <1>8. CASE VerifyPayload(p) \/ VerifyEqualities(p)
    BY <1>8 DEF VerifyPayload, VerifyEqualities, Passes, NewInv, InTry, locals, files
  <1>9. CASE Commit(p)
    <2>1. /\ controls' = controls /\ new' = new /\ pc[p] = "commit" /\ pc'[p] = "syncCommit"
      BY <1>9 DEF Commit, WriteJournalFile, locals
    <2>2. \A c \in Controls : controls[c] = new[p][c]
      BY <2>1 DEF NewInv, InTry, Controls
    <2>3. controls = new[p]
      BY <2>2, SameState
    <2>4. QED
      BY <2>1, <2>3 DEF NewInv, InTry
  <1>10. CASE SyncCommit(p)
    BY <1>10, NewOutside DEF SyncCommit, Leave, InTry, BeforeTry
  <1>11. QED
    BY <1>1, <1>2, <1>3, <1>4, <1>5, <1>6, <1>7, <1>8, <1>9, <1>10 DEF Finalization

\* Every other step of a call is at or leads to a point of which NewInv says nothing.
LEMMA OthersWriteNothingNew ==
  ASSUME TypeOK, NEW p \in Processes, Recovery(p) \/ Rollback(p) \/ Verification(p) \/ Abort(p)
  PROVE  NewInv(p)'
  <1> USE DEF TypeOK, Inside, Goto, InTry, BeforeTry
  <1>1. CASE Recovery(p)
    BY <1>1, NewOutside DEF Recovery, SkipRecovery, StartRecovery, RestoreControl, SyncRestored,
       DropJournal, SyncDropped, Body
  <1>2. CASE Rollback(p)
    BY <1>2, NewOutside DEF Rollback, StartRollback, UndoControl, SyncUndone, DropUndone,
       SyncUndropped, Leave
  <1>3. CASE Verification(p) \/ Abort(p)
    BY <1>3, NewOutside DEF Verification, ReadManifest, ReadInventory, ReadSignature,
       ReadControl, Accept, Reject, Abort, Leave
  <1>4. QED
    BY <1>1, <1>2, <1>3

AllNew == \A p \in Processes : NewInv(p)

LEMMA InitNew == Init => AllNew
  <1> SUFFICES ASSUME Init, NEW p \in Processes PROVE NewInv(p)
    BY DEF AllNew
  <1>1. pc[p] = "idle"
    BY Zenon DEF Init
  <1>2. QED
    BY <1>1 DEF NewInv, InTry

LEMMA NewStep == TypeOK /\ LockExclusion /\ AllNew /\ [Next]_vars => AllNew'
  <1> SUFFICES ASSUME TypeOK, LockExclusion, AllNew, [Next]_vars PROVE AllNew'
    OBVIOUS
  <1>1. ASSUME NEW p \in Processes,
               Recovery(p) \/ Finalization(p) \/ Rollback(p) \/ Verification(p) \/ Abort(p)
        PROVE  AllNew'
    <2>1. Stays(p) \/ Leaves(p)
      BY <1>1, RecoveryStays, FinalizationKinds, RollbackKinds, VerificationKinds, AbortLeaves
    <2>2. NewInv(p)'
      BY <1>1, FinalizationWritesNew, OthersWriteNothingNew DEF AllNew
    <2>3. ASSUME NEW q \in Processes, q # p PROVE NewInv(q)'
      <3>1. pc'[q] \notin Critical
        BY <2>1, <2>3, OthersWait
      <3>2. QED
        BY <3>1, NewOutside DEF Critical
    <2>4. QED
      BY <2>2, <2>3 DEF AllNew
  <1>2. ASSUME NEW p \in Processes, Begin(p) \/ Acquire(p) \/ LockTimeout(p) \/ Kill(p)
        PROVE  AllNew'
    <2>1. /\ controls' = controls
          /\ pc'[p] \in {"idle", "wait", "recover"}
          /\ \A q \in Processes \ {p} : pc'[q] = pc[q] /\ new'[q] = new[q]
      BY <1>2 DEF Begin, Acquire, LockTimeout, Kill, Goto, TypeOK, files, locals
    <2>2. NewInv(p)'
      BY <2>1, NewOutside DEF BeforeTry, InTry
    <2>3. ASSUME NEW q \in Processes, q # p PROVE NewInv(q)'
      BY <2>1, <2>3 DEF AllNew, NewInv
    <2>4. QED
      BY <2>2, <2>3 DEF AllNew
  <1>3. CASE PowerLoss
    <2>1. ASSUME NEW q \in Processes PROVE NewInv(q)'
      BY <1>3, NewOutside DEF PowerLoss, BeforeTry, InTry
    <2>2. QED
      BY <2>1 DEF AllNew
  <1>4. CASE UNCHANGED vars
    BY <1>4 DEF vars, files, locals, AllNew, NewInv
  <1>5. QED
    BY <1>1, <1>2, <1>3, <1>4 DEF Next, Work

\* The steps by which a call gets the answer "ok".
LEMMA OkSteps ==
  ASSUME TypeOK, Next, NEW p \in Processes, outcome'[p] = "ok", outcome[p] # "ok"
  PROVE  SyncCommit(p) \/ Accept(p)
  <1>1. ~PowerLoss
    BY DEF PowerLoss
  <1>2. PICK q \in Processes : Begin(q) \/ Work(q) \/ Kill(q)
    BY <1>1 DEF Next
  <1>3. \/ UNCHANGED outcome
        \/ \E o \in {"none", "rejected", "error"} : outcome' = [outcome EXCEPT ![q] = o]
        \/ SyncCommit(q) \/ Accept(q)
    <2>1. CASE Begin(q) \/ Acquire(q) \/ LockTimeout(q) \/ Kill(q) \/ Abort(q)
      BY <2>1 DEF Begin, Acquire, LockTimeout, Kill, Abort, Leave, answers
    <2>2. CASE Recovery(q)
      BY <2>2 DEF Recovery, SkipRecovery, StartRecovery, RestoreControl, SyncRestored,
         DropJournal, SyncDropped, Inside, answers
    <2>3. CASE Finalization(q)
      BY <2>3 DEF Finalization, TakeSnapshot, CheckPolicy, WriteJournal, SyncJournal,
         WriteInventory, SyncInventory, VerifyPayload, WriteSignature, SyncSignature,
         WriteManifest, SyncManifest, VerifyEqualities, Commit, WriteControl,
         SyncControl, Passes, Inside, answers
    <2>4. CASE Rollback(q)
      BY <2>4 DEF Rollback, StartRollback, UndoControl, SyncUndone, DropUndone,
         SyncUndropped, Leave, Inside, answers
    <2>5. CASE Verification(q)
      BY <2>5 DEF Verification, ReadManifest, ReadInventory, ReadSignature, ReadControl,
         Reject, Leave, Inside, answers
    <2>6. QED
      BY <1>2, <2>1, <2>2, <2>3, <2>4, <2>5 DEF Work
  <1>4. SyncCommit(q) \/ Accept(q)
    BY <1>3 DEF TypeOK
  <1>5. outcome' = [outcome EXCEPT ![q] = "ok"]
    BY <1>4 DEF SyncCommit, Accept, Leave
  <1>6. QED
    BY <1>4, <1>5 DEF TypeOK

\* A call that ends well has told its caller the release as it stands, which is
\* one that a finalization was asked to write.
AnswersAreTheRelease ==
  [][\A p \in Processes :
       outcome'[p] = "ok" /\ outcome[p] # "ok"
         => /\ told'[p] = Committed
            /\ Committed' = Committed
            /\ Committed \in Releases]_vars

(* A finalization that returns and a verification that accepts tell the    *)
(* release as it stands, whole, on any platform and whatever interrupt,    *)
(* death or power loss there was before.                                   *)
THEOREM OkIsTheRelease == Spec => AnswersAreTheRelease
  <1> DEFINE Told == \A p \in Processes :
                       outcome'[p] = "ok" /\ outcome[p] # "ok"
                         => /\ told'[p] = Committed
                            /\ Committed' = Committed
                            /\ Committed \in Releases
  <1>1. TypeOK /\ ViewInv /\ AllNew /\ [Next]_vars => [Told]_vars
    <2> SUFFICES ASSUME TypeOK, ViewInv, AllNew, Next, NEW p \in Processes,
                        outcome'[p] = "ok", outcome[p] # "ok"
                 PROVE  /\ told'[p] = Committed
                        /\ Committed' = Committed
                        /\ Committed \in Releases
      OBVIOUS
    <2>1. CASE SyncCommit(p)
      <3>1. /\ pc[p] = "syncCommit" /\ UNCHANGED <<controls, journal>>
            /\ told' = [told EXCEPT ![p] = new[p]]
        BY <2>1 DEF SyncCommit, SyncParent
      <3>2. journal = NoJournal /\ controls = new[p] /\ new[p] \in Releases
        BY <3>1 DEF ViewInv, SeenInv, SettledInv, AllNew, NewInv
      <3>3. QED
        BY <3>1, <3>2 DEF Committed, TypeOK
    <2>2. CASE Accept(p)
      <3>1. /\ pc[p] = "answer" /\ UNCHANGED <<controls, journal>>
            /\ told' = [told EXCEPT ![p] = seen[p]] /\ seen[p] \in Releases
        BY <2>2 DEF Accept, Verifies, files
      <3>2. journal = NoJournal /\ \A c \in Controls : seen[p][c] = controls[c]
        BY <3>1 DEF ViewInv, SeenInv, ReadInv, SettledInv, Verifying, Controls
      <3>3. seen[p] = controls
        BY <3>2, SameState DEF TypeOK
      <3>4. QED
        BY <3>1, <3>2, <3>3 DEF Committed, TypeOK
    <2>3. QED
      BY <2>1, <2>2, OkSteps
  <1>2. Init => AllNew
    BY InitNew
  <1>3. TypeOK /\ LockExclusion /\ AllNew /\ [Next]_vars => AllNew'
    BY NewStep
  <1>4. QED
    BY <1>1, <1>2, <1>3, ViewInvariant, PTL DEF Spec, AnswersAreTheRelease

\* A finalization that ends well leaves nothing that a power loss could undo.
FinalizedIsDurable ==
  [][\A p \in Processes :
       pc[p] = "syncCommit" /\ outcome'[p] = "ok" /\ outcome[p] # "ok"
         => /\ Durable' = Committed'
            /\ \A m \in Mixtures' : m = told'[p]]_vars

(* A finalization returns when its release is on disk, so that a power     *)
(* loss right after leaves that release, whichever directory entries are   *)
(* lost.  (A verification may tell a release that the killed finalization  *)
(* before it has not yet made durable.)                                    *)
THEOREM OkIsDurable ==
  ASSUME DirectorySync, ~LateInterrupt
  PROVE  Spec => FinalizedIsDurable
  <1> DEFINE Kept == \A p \in Processes :
                       pc[p] = "syncCommit" /\ outcome'[p] = "ok" /\ outcome[p] # "ok"
                         => /\ Durable' = Committed'
                            /\ \A m \in Mixtures' : m = told'[p]
  <1>1. TypeOK /\ ControlInv /\ AllNew /\ [Next]_vars => [Kept]_vars
    <2> SUFFICES ASSUME TypeOK, ControlInv, AllNew, Next, NEW p \in Processes,
                        pc[p] = "syncCommit", outcome'[p] = "ok", outcome[p] # "ok"
                 PROVE  /\ Durable' = Committed'
                        /\ \A m \in Mixtures' : m = told'[p]
      OBVIOUS
    <2>1. SyncCommit(p) \/ Accept(p)
      BY OkSteps
    <2>2. /\ UNCHANGED <<controls, diskControls, journal>> /\ diskJournal' = journal
          /\ told' = [told EXCEPT ![p] = new[p]]
      BY <2>1 DEF SyncCommit, SyncParent, Accept
    <2>3. journal = NoJournal /\ diskControls = controls /\ controls = new[p]
      BY DEF ControlInv, DiskInv, SettledInv, AllNew, NewInv
    <2>4. Durable' = Committed' /\ told'[p] = controls
      BY <2>2, <2>3 DEF Durable, Committed, TypeOK
    <2>5. ASSUME NEW m \in Mixtures' PROVE m = controls
      <3>1. m \in States /\ \A c \in Controls : m[c] = controls[c]
        BY <2>2, <2>3, <2>5 DEF Mixtures
      <3>2. QED
        BY <3>1, SameState DEF TypeOK
    <2>6. QED
      BY <2>4, <2>5
  <1>2. QED
    BY <1>1, InitNew, NewStep, TypeCorrect, LockExclusive, ControlInvariant, PTL
       DEF Spec, FinalizedIsDurable
=============================================================================
