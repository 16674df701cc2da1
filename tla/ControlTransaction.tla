------------------------- MODULE ControlTransaction -------------------------
(***************************************************************************)
(* The journal protocol of release_security.py: how finalizing and         *)
(* verifying processes replace, roll back and recover the three control    *)
(* files of a release, one file-system step at a time, under a file lock   *)
(* that the operating system frees when its owner dies.                    *)
(*                                                                         *)
(* Every file exists twice: as the processes see it (`controls',           *)
(* `journal') and as the disk would return it after a power loss           *)
(* (`diskControls', `diskJournal').  A replace or an unlink changes the    *)
(* first; the directory fsync that follows it copies the first to the      *)
(* second.  The journal lives beside the release root, the controls in it, *)
(* so that they are two directories.                                       *)
(***************************************************************************)
EXTENDS Naturals

CONSTANTS Processes,      \* pipelines and serving processes
          Contents,       \* what a control file may hold
          Absent,         \* a control file that does not exist
          NoJournal,      \* no transaction file beside the release root
          Nobody,         \* the lock is free
          Releases,       \* coherent triples a finalization may write
          DirectorySync,  \* a directory can be fsynced on this platform
          StrictFileSet,  \* callers pass reject_untracked_files
          LateInterrupt,  \* an interrupt may arrive after the journal unlink
          MaxKills,       \* bound on killed processes
          MaxLosses       \* bound on power losses

Controls == {"manifest", "inventory", "signature"}
States == [Controls -> Contents \cup {Absent}]
NoFiles == [c \in Controls |-> Absent]

ASSUME ReleasesAssumption ==
  /\ Releases \subseteq States
  /\ \A r \in Releases : r["manifest"] # Absent /\ r["inventory"] # Absent

ASSUME NamesAssumption ==
  /\ NoJournal \notin States
  /\ Nobody \notin Processes

ASSUME BoundsAssumption ==
  /\ DirectorySync \in BOOLEAN
  /\ StrictFileSet \in BOOLEAN
  /\ LateInterrupt \in BOOLEAN
  /\ MaxKills \in Nat
  /\ MaxLosses \in Nat

VARIABLES controls, diskControls,  \* the files of the release root
          journal, diskJournal,    \* the transaction file beside it
          litter,                  \* a temporary file was left in the root
          holder,                  \* owner of the release lock
          pc, role,                \* where each process is, in which call
          orig, new, todo, seen,   \* locals of each call
          outcome, told,           \* how the last call ended, about what
          kills, losses            \* faults spent

files == <<controls, diskControls, journal, diskJournal, litter>>
locals == <<orig, new, todo, seen>>
answers == <<outcome, told>>
faults == <<kills, losses>>
vars == <<files, holder, pc, role, locals, answers, faults>>

-----------------------------------------------------------------------------
(* The file system, as the code uses it.                                   *)

\* os.replace of a fsynced temporary file, or unlink when v is Absent.
Replace(c, v) == /\ controls' = [controls EXCEPT ![c] = v]
                 /\ UNCHANGED <<diskControls, journal, diskJournal, litter>>

WriteJournalFile(v) == /\ journal' = v
                       /\ UNCHANGED <<controls, diskControls, diskJournal, litter>>

\* fsync_directory(root): best effort, it returns silently where a directory
\* cannot be opened.
SyncRoot == /\ diskControls' = IF DirectorySync THEN controls ELSE diskControls
            /\ UNCHANGED <<controls, journal, diskJournal, litter>>

\* fsync_directory(root.parent).
SyncParent == /\ diskJournal' = IF DirectorySync THEN journal ELSE diskJournal
              /\ UNCHANGED <<controls, diskControls, journal, litter>>

\* What the files stand for: a pending journal overrides the controls.
Committed == IF journal = NoJournal THEN controls ELSE journal
Durable == IF diskJournal = NoJournal THEN diskControls ELSE diskJournal

-----------------------------------------------------------------------------
(* Program counters.                                                       *)

Recovering == {"recover", "restore", "restoreSync", "dropSync"}
BeforeTry == {"snapshot", "policy", "writeJournal", "syncJournal"}
InTry == {"writeInventory", "syncInventory", "verifyPayload",
          "writeSignature", "syncSignature", "writeManifest", "syncManifest",
          "verifyEqualities", "commit"}
Undoing == {"undo", "undoSync", "undropSync"}
Verifying == {"readManifest", "readInventory", "readSignature", "answer"}

Critical == Recovering \cup BeforeTry \cup InTry \cup {"syncCommit"}
              \cup Undoing \cup Verifying

PCs == {"idle", "wait"} \cup Critical
Roles == {"finalize", "verify"}

\* Where control goes once no transaction is pending.
Body(p) == IF role[p] = "finalize" THEN "snapshot" ELSE "readManifest"

Goto(p, at) == pc' = [pc EXCEPT ![p] = at]

\* c is the control to handle next: the first of S in the given order.
RecoveryOrder == [inventory |-> 1, manifest |-> 2, signature |-> 3]
RollbackOrder == [manifest |-> 1, inventory |-> 2, signature |-> 3]
First(order, c, S) == c \in S /\ \A d \in S : order[c] <= order[d]

\* p is inside atomic_write_bytes of a control: mkstemp has made a temporary
\* file in the root that os.replace has not consumed.
TempOpen(p) ==
  \/ pc[p] \in {"writeInventory", "writeManifest"}
  \/ pc[p] = "writeSignature" /\ new[p]["signature"] # Absent
  \/ pc[p] \in {"restore", "undo"} /\ \E c \in todo[p] : orig[p][c] # Absent

\* Leave the `with lock' block with this result.
Leave(p, result) == /\ Goto(p, "idle")
                    /\ holder' = Nobody
                    /\ orig' = [orig EXCEPT ![p] = NoFiles]
                    /\ new' = [new EXCEPT ![p] = NoFiles]
                    /\ seen' = [seen EXCEPT ![p] = NoFiles]
                    /\ todo' = [todo EXCEPT ![p] = {}]
                    /\ outcome' = [outcome EXCEPT ![p] = result]
                    /\ UNCHANGED <<role, faults>>

\* What a step inside the block leaves alone, but for files and locals.
Inside == UNCHANGED <<holder, role, answers, faults>>

Init == /\ controls \in {NoFiles} \cup {[NoFiles EXCEPT !["manifest"] = m] : m \in Contents}
                          \cup Releases
        /\ diskControls = controls
        /\ journal = NoJournal
        /\ diskJournal = NoJournal
        /\ litter = FALSE
        /\ holder = Nobody
        /\ pc = [p \in Processes |-> "idle"]
        /\ role = [p \in Processes |-> "verify"]
        /\ orig = [p \in Processes |-> NoFiles]
        /\ new = [p \in Processes |-> NoFiles]
        /\ seen = [p \in Processes |-> NoFiles]
        /\ todo = [p \in Processes |-> {}]
        /\ outcome = [p \in Processes |-> "none"]
        /\ told = [p \in Processes |-> controls]
        /\ kills = 0
        /\ losses = 0

-----------------------------------------------------------------------------
(* Plausible errors in the steps below.  No behaviour of the model uses    *)
(* them; each stands in for the step of the same name when the strength of *)
(* a property is tested.                                                   *)

AcquireUnguarded(p) == /\ pc[p] = "wait"
                       /\ holder' = p
                       /\ Goto(p, "recover")
                       /\ UNCHANGED <<files, role, locals, answers, faults>>

LockTimeoutNever(p) == FALSE

SkipRecoveryAlways(p) == /\ pc[p] = "recover"
                         /\ Goto(p, Body(p))
                         /\ UNCHANGED <<files, locals>>
                         /\ Inside

StartRecoveryAlways(p) == /\ pc[p] = "recover"
                          /\ orig' = [orig EXCEPT ![p] = journal]
                          /\ todo' = [todo EXCEPT ![p] = Controls]
                          /\ Goto(p, "restore")
                          /\ UNCHANGED <<files, new, seen>>
                          /\ Inside

DropJournalEarly(p) == /\ pc[p] = "restore"
                       /\ WriteJournalFile(NoJournal)
                       /\ Goto(p, "dropSync")
                       /\ UNCHANGED locals
                       /\ Inside

SyncJournalNever(p) == /\ pc[p] = "syncJournal"
                       /\ UNCHANGED files
                       /\ Goto(p, "writeInventory")
                       /\ UNCHANGED locals
                       /\ Inside

SyncCommitNever(p) == /\ pc[p] = "syncCommit"
                      /\ UNCHANGED files
                      /\ told' = [told EXCEPT ![p] = new[p]]
                      /\ Leave(p, "ok")

StartRollbackPartly(p) == /\ pc[p] \in InTry \/ (LateInterrupt /\ pc[p] = "syncCommit")
                          /\ todo' = [todo EXCEPT ![p] = Controls \ {"signature"}]
                          /\ Goto(p, "undo")
                          /\ UNCHANGED <<files, orig, new, seen>>
                          /\ Inside

KillKeepsLock(p) == /\ kills < MaxKills
                    /\ pc[p] # "idle"
                    /\ kills' = kills + 1
                    /\ litter' \in IF TempOpen(p) THEN {litter, TRUE} ELSE {litter}
                    /\ Goto(p, "idle")
                    /\ orig' = [orig EXCEPT ![p] = NoFiles]
                    /\ new' = [new EXCEPT ![p] = NoFiles]
                    /\ seen' = [seen EXCEPT ![p] = NoFiles]
                    /\ todo' = [todo EXCEPT ![p] = {}]
                    /\ outcome' = [outcome EXCEPT ![p] = "none"]
                    /\ UNCHANGED <<controls, diskControls, journal, diskJournal,
                                   holder, role, told, losses>>

-----------------------------------------------------------------------------
(* Calling finalize_release_security or verify_release_security.           *)

Begin(p) == /\ pc[p] = "idle"
            /\ Goto(p, "wait")
            /\ \E r \in Roles : role' = [role EXCEPT ![p] = r]
            /\ outcome' = [outcome EXCEPT ![p] = "none"]
            /\ UNCHANGED <<files, holder, locals, told, faults>>

Acquire(p) == /\ pc[p] = "wait"
              /\ holder = Nobody
              /\ holder' = p
              /\ Goto(p, "recover")
              /\ UNCHANGED <<files, role, locals, answers, faults>>

\* lock_timeout is finite: the lock's owner may still be at work.
LockTimeout(p) == /\ pc[p] = "wait"
                  /\ holder # Nobody
                  /\ Goto(p, "idle")
                  /\ outcome' = [outcome EXCEPT ![p] = "error"]
                  /\ UNCHANGED <<files, holder, role, locals, told, faults>>

-----------------------------------------------------------------------------
(* _recover_pending_transaction                                            *)

SkipRecovery(p) == /\ pc[p] = "recover"
                   /\ journal = NoJournal
                   /\ Goto(p, Body(p))
                   /\ UNCHANGED <<files, locals>>
                   /\ Inside

StartRecovery(p) == /\ pc[p] = "recover"
                    /\ journal # NoJournal
                    /\ orig' = [orig EXCEPT ![p] = journal]
                    /\ todo' = [todo EXCEPT ![p] = Controls]
                    /\ Goto(p, "restore")
                    /\ UNCHANGED <<files, new, seen>>
                    /\ Inside

RestoreControl(p, c) == /\ pc[p] = "restore"
                        /\ First(RecoveryOrder, c, todo[p])
                        /\ Replace(c, orig[p][c])
                        /\ todo' = [todo EXCEPT ![p] = @ \ {c}]
                        /\ Goto(p, "restoreSync")
                        /\ UNCHANGED <<orig, new, seen>>
                        /\ Inside

SyncRestored(p) == /\ pc[p] = "restoreSync"
                   /\ SyncRoot
                   /\ Goto(p, "restore")
                   /\ UNCHANGED locals
                   /\ Inside

DropJournal(p) == /\ pc[p] = "restore"
                  /\ todo[p] = {}
                  /\ WriteJournalFile(NoJournal)
                  /\ Goto(p, "dropSync")
                  /\ UNCHANGED locals
                  /\ Inside

SyncDropped(p) == /\ pc[p] = "dropSync"
                  /\ SyncParent
                  /\ Goto(p, Body(p))
                  /\ UNCHANGED locals
                  /\ Inside

-----------------------------------------------------------------------------
(* finalize_release_security, inside the lock                              *)

TakeSnapshot(p) == /\ pc[p] = "snapshot"
                   /\ orig' = [orig EXCEPT ![p] = controls]
                   /\ Goto(p, "policy")
                   /\ UNCHANGED <<files, new, todo, seen>>
                   /\ Inside

\* The policy checks and build_inventory accept, and fix what will be
\* written; any of them may refuse instead, which is Abort.  There must be a
\* manifest, and with reject_untracked_files no stray file in the root.
CheckPolicy(p) == /\ pc[p] = "policy"
                  /\ orig[p]["manifest"] # Absent
                  /\ ~(StrictFileSet /\ litter)
                  /\ \E r \in Releases : new' = [new EXCEPT ![p] = r]
                  /\ Goto(p, "writeJournal")
                  /\ UNCHANGED <<files, orig, todo, seen>>
                  /\ Inside

WriteJournal(p) == /\ pc[p] = "writeJournal"
                   /\ WriteJournalFile(orig[p])
                   /\ Goto(p, "syncJournal")
                   /\ UNCHANGED locals
                   /\ Inside

SyncJournal(p) == /\ pc[p] = "syncJournal"
                  /\ SyncParent
                  /\ Goto(p, "writeInventory")
                  /\ UNCHANGED locals
                  /\ Inside

\* The three control writes: replace at `at', then fsync the root.
WriteControl(p, at, c, next) == /\ pc[p] = at
                                /\ Replace(c, new[p][c])
                                /\ Goto(p, next)
                                /\ UNCHANGED locals
                                /\ Inside

SyncControl(p, at, next) == /\ pc[p] = at
                            /\ SyncRoot
                            /\ Goto(p, next)
                            /\ UNCHANGED locals
                            /\ Inside

\* A check that reads and passes; that it fails is StartRollback.
Passes(p, at, next) == /\ pc[p] = at
                       /\ Goto(p, next)
                       /\ UNCHANGED <<files, locals>>
                       /\ Inside

WriteInventory(p) == WriteControl(p, "writeInventory", "inventory", "syncInventory")
SyncInventory(p) == SyncControl(p, "syncInventory", "verifyPayload")
VerifyPayload(p) == Passes(p, "verifyPayload", "writeSignature")
WriteSignature(p) == WriteControl(p, "writeSignature", "signature", "syncSignature")
SyncSignature(p) == SyncControl(p, "syncSignature", "writeManifest")
WriteManifest(p) == WriteControl(p, "writeManifest", "manifest", "syncManifest")
SyncManifest(p) == SyncControl(p, "syncManifest", "verifyEqualities")
VerifyEqualities(p) == Passes(p, "verifyEqualities", "commit")

\* Unlinking the journal makes the new release the one recovery yields.
Commit(p) == /\ pc[p] = "commit"
             /\ WriteJournalFile(NoJournal)
             /\ Goto(p, "syncCommit")
             /\ UNCHANGED locals
             /\ Inside

SyncCommit(p) == /\ pc[p] = "syncCommit"
                 /\ SyncParent
                 /\ told' = [told EXCEPT ![p] = new[p]]
                 /\ Leave(p, "ok")

-----------------------------------------------------------------------------
(* The rollback of the `except BaseException' clause                       *)

StartRollback(p) == /\ pc[p] \in InTry \/ (LateInterrupt /\ pc[p] = "syncCommit")
                    /\ todo' = [todo EXCEPT ![p] = Controls]
                    /\ Goto(p, "undo")
                    /\ UNCHANGED <<files, orig, new, seen>>
                    /\ Inside

UndoControl(p, c) == /\ pc[p] = "undo"
                     /\ First(RollbackOrder, c, todo[p])
                     /\ Replace(c, orig[p][c])
                     /\ todo' = [todo EXCEPT ![p] = @ \ {c}]
                     /\ Goto(p, "undoSync")
                     /\ UNCHANGED <<orig, new, seen>>
                     /\ Inside

SyncUndone(p) == /\ pc[p] = "undoSync"
                 /\ SyncRoot
                 /\ Goto(p, "undo")
                 /\ UNCHANGED locals
                 /\ Inside

DropUndone(p) == /\ pc[p] = "undo"
                 /\ todo[p] = {}
                 /\ WriteJournalFile(NoJournal)
                 /\ Goto(p, "undropSync")
                 /\ UNCHANGED locals
                 /\ Inside

SyncUndropped(p) == /\ pc[p] = "undropSync"
                    /\ SyncParent
                    /\ Leave(p, "error")
                    /\ UNCHANGED told

\* An error outside the try block leaves the files as they are: a policy
\* refusal, an I/O error, an error of the recovery or of the rollback itself.
Abort(p) == /\ pc[p] \in Recovering \cup BeforeTry \cup Undoing \cup Verifying
            /\ Leave(p, "error")
            /\ UNCHANGED <<files, told>>

-----------------------------------------------------------------------------
(* _verify_release_security_locked, after recovery                         *)

ReadControl(p, at, c, next) == /\ pc[p] = at
                               /\ seen' = [seen EXCEPT ![p][c] = controls[c]]
                               /\ Goto(p, next)
                               /\ UNCHANGED <<files, orig, new, todo>>
                               /\ Inside

ReadManifest(p) == ReadControl(p, "readManifest", "manifest", "readInventory")
ReadInventory(p) == ReadControl(p, "readInventory", "inventory", "readSignature")
ReadSignature(p) == ReadControl(p, "readSignature", "signature", "answer")

\* The manifest names this inventory, the signature is this manifest's, and
\* with reject_untracked_files nothing else is in the root.
Verifies(p) == seen[p] \in Releases /\ ~(StrictFileSet /\ litter)

Accept(p) == /\ pc[p] = "answer"
             /\ Verifies(p)
             /\ told' = [told EXCEPT ![p] = seen[p]]
             /\ Leave(p, "ok")
             /\ UNCHANGED files

Reject(p) == /\ pc[p] = "answer"
             /\ ~Verifies(p)
             /\ Leave(p, "rejected")
             /\ UNCHANGED <<files, told>>

-----------------------------------------------------------------------------
(* Faults.                                                                 *)

\* The process dies (SIGKILL): nothing of its except clauses runs, the
\* system frees its lock, a temporary file may stay behind.
Kill(p) == /\ kills < MaxKills
           /\ pc[p] # "idle"
           /\ kills' = kills + 1
           /\ litter' \in IF TempOpen(p) THEN {litter, TRUE} ELSE {litter}
           /\ Goto(p, "idle")
           /\ holder' = IF holder = p THEN Nobody ELSE holder
           /\ orig' = [orig EXCEPT ![p] = NoFiles]
           /\ new' = [new EXCEPT ![p] = NoFiles]
           /\ seen' = [seen EXCEPT ![p] = NoFiles]
           /\ todo' = [todo EXCEPT ![p] = {}]
           /\ outcome' = [outcome EXCEPT ![p] = "none"]
           /\ UNCHANGED <<controls, diskControls, journal, diskJournal,
                          role, told, losses>>

\* What the disk may hold after a power loss: each directory entry either as
\* last fsynced or as last written.
Mixtures == {m \in States : \A c \in Controls : m[c] \in {controls[c], diskControls[c]}}

PowerLoss == /\ losses < MaxLosses
             /\ losses' = losses + 1
             /\ \E m \in Mixtures : controls' = m /\ diskControls' = m
             /\ \E j \in {journal, diskJournal} : journal' = j /\ diskJournal' = j
             /\ litter' \in IF \E p \in Processes : TempOpen(p) THEN {litter, TRUE} ELSE {litter}
             /\ holder' = Nobody
             /\ pc' = [p \in Processes |-> "idle"]
             /\ orig' = [p \in Processes |-> NoFiles]
             /\ new' = [p \in Processes |-> NoFiles]
             /\ seen' = [p \in Processes |-> NoFiles]
             /\ todo' = [p \in Processes |-> {}]
             /\ outcome' = [p \in Processes |-> "none"]
             /\ UNCHANGED <<role, told, kills>>

-----------------------------------------------------------------------------
Recovery(p) == \/ SkipRecovery(p)
               \/ StartRecovery(p)
               \/ \E c \in Controls : RestoreControl(p, c)
               \/ SyncRestored(p)
               \/ DropJournal(p)
               \/ SyncDropped(p)

Finalization(p) == \/ TakeSnapshot(p)
                   \/ CheckPolicy(p)
                   \/ WriteJournal(p)
                   \/ SyncJournal(p)
                   \/ WriteInventory(p)
                   \/ SyncInventory(p)
                   \/ VerifyPayload(p)
                   \/ WriteSignature(p)
                   \/ SyncSignature(p)
                   \/ WriteManifest(p)
                   \/ SyncManifest(p)
                   \/ VerifyEqualities(p)
                   \/ Commit(p)
                   \/ SyncCommit(p)

Rollback(p) == \/ StartRollback(p)
               \/ \E c \in Controls : UndoControl(p, c)
               \/ SyncUndone(p)
               \/ DropUndone(p)
               \/ SyncUndropped(p)

Verification(p) == \/ ReadManifest(p)
                   \/ ReadInventory(p)
                   \/ ReadSignature(p)
                   \/ Accept(p)
                   \/ Reject(p)

\* Everything a call does once it has begun.
Work(p) == \/ Acquire(p)
           \/ LockTimeout(p)
           \/ Recovery(p)
           \/ Finalization(p)
           \/ Rollback(p)
           \/ Verification(p)
           \/ Abort(p)

Next == \/ \E p \in Processes : Begin(p) \/ Work(p) \/ Kill(p)
        \/ PowerLoss

Spec == Init /\ [][Next]_vars

\* A process that runs is scheduled, and calls keep being made.
Fairness == \A p \in Processes : WF_vars(Work(p)) /\ WF_vars(Begin(p))
FairSpec == Spec /\ Fairness

-----------------------------------------------------------------------------
(* Type invariant: the values each variable ranges over.                   *)
TypeOK == /\ controls \in States
          /\ diskControls \in States
          /\ journal \in States \cup {NoJournal}
          /\ diskJournal \in States \cup {NoJournal}
          /\ litter \in BOOLEAN
          /\ holder \in Processes \cup {Nobody}
          /\ pc \in [Processes -> PCs]
          /\ role \in [Processes -> Roles]
          /\ orig \in [Processes -> States]
          /\ new \in [Processes -> States]
          /\ seen \in [Processes -> States]
          /\ todo \in [Processes -> SUBSET Controls]
          /\ outcome \in [Processes -> {"none", "ok", "error", "rejected"}]
          /\ told \in [Processes -> States]
          /\ kills \in Nat
          /\ losses \in Nat

\* A process works on the release's files only while it owns the lock:
\* across recovery, both error paths and the death of an owner.
LockExclusion == \A p \in Processes : pc[p] \in Critical <=> holder = p

\* Pull the plug at any moment, keep any subset of the directory entries that
\* were not fsynced: recovery of what is left yields the release as it was
\* committed or as it was last made durable, never a mixture of two.
PowerLossSafe ==
  \A m \in Mixtures : \A j \in {journal, diskJournal} :
    (IF j = NoJournal THEN m ELSE j) \in {Committed, Durable}

\* What each program point relies on, the strengthening that makes
\* PowerLossSafe inductive.  The journal and the two copies of the controls:
\* with no journal nothing is unsynced in the root; a journal that is not yet
\* (or no longer) on disk says what the controls say.
DiskInv == /\ journal = NoJournal => diskControls = controls
           /\ journal \notin {NoJournal, diskJournal} =>
                controls = journal /\ diskControls = journal

\* A restoring process: what it has restored is back, and on disk.
RestoreInv(p) ==
  /\ pc[p] \in {"restore", "restoreSync"} => orig[p] = journal
  /\ pc[p] \in {"undo", "undoSync"} => orig[p] = journal /\ diskJournal = journal
  /\ pc[p] \in {"restore", "restoreSync", "undo", "undoSync"} =>
       \A c \in Controls \ todo[p] : controls[c] = orig[p][c]
  /\ pc[p] \in {"restore", "undo"} /\ todo[p] # Controls => diskControls = controls
  /\ pc[p] = "undropSync" => controls = orig[p] /\ diskJournal = orig[p]

\* A finalizing process: its journal is on disk before it touches a control,
\* and the three controls are on disk before the journal goes.
WriteInv(p) ==
  /\ pc[p] \in {"policy", "writeJournal", "syncJournal"} => orig[p] = controls
  /\ pc[p] = "syncJournal" => orig[p] = journal
  /\ pc[p] \in InTry => orig[p] = journal /\ diskJournal = journal
  /\ pc[p] \in {"verifyPayload", "writeSignature", "writeManifest",
                "verifyEqualities", "commit"} => diskControls = controls
  /\ pc[p] \in InTry \ {"writeInventory"} => controls["inventory"] = new[p]["inventory"]
  /\ pc[p] \in {"syncSignature", "writeManifest", "syncManifest",
                "verifyEqualities", "commit"} => controls["signature"] = new[p]["signature"]
  /\ pc[p] \in {"syncManifest", "verifyEqualities", "commit"} =>
       controls["manifest"] = new[p]["manifest"]
  /\ pc[p] = "syncCommit" => controls = new[p]

\* A verifying process: what it has read is what is there.
ReadInv(p) ==
  /\ pc[p] \in {"readInventory", "readSignature", "answer"} =>
       seen[p]["manifest"] = controls["manifest"]
  /\ pc[p] \in {"readSignature", "answer"} => seen[p]["inventory"] = controls["inventory"]
  /\ pc[p] = "answer" => seen[p]["signature"] = controls["signature"]

\* Where no transaction can be pending, none is.
SettledInv(p) ==
  pc[p] \in {"dropSync", "snapshot", "policy", "writeJournal", "syncCommit", "undropSync"}
              \cup Verifying => journal = NoJournal

ControlInv == /\ DiskInv
              /\ \A p \in Processes : /\ RestoreInv(p)
                                       /\ WriteInv(p)
                                       /\ ReadInv(p)
                                       /\ SettledInv(p)

\* The calls together implement the atomic release: _restore, the journal and
\* the order of the writes make a finalization one step to every observer.
CallState == [p \in Processes |-> IF pc[p] = "idle" THEN "idle"
                                 ELSE IF role[p] = "verify" THEN "reading"
                                 ELSE IF pc[p] = "syncCommit" THEN "effected"
                                 ELSE "writing"]

Atomic == INSTANCE AtomicRelease
            WITH committed <- Committed, durable <- Durable, op <- CallState

ImplementsAtomicRelease == Atomic!Spec

\* The release that recovery would yield changes at one program point, the
\* journal unlink of a finalization, and in a power loss.  No restore,
\* rollback, write, error or kill changes it.
OnlyCommitChangesTheRelease ==
  [][Committed' # Committed =>
       \/ losses' # losses
       \/ \E p \in Processes : pc[p] = "commit" /\ pc'[p] = "syncCommit"]_vars

\* A finalization that reports an error after its rollback ran to the end has
\* put back all three controls, wherever in the try block the error arose,
\* an interrupt after the journal was already gone included.  (What a power
\* loss in its last step leaves is PowerLossSafe's.)
RollbackRestoresEverything ==
  [][\A p \in Processes :
       pc[p] = "undropSync" /\ pc'[p] = "idle" /\ losses' = losses
         => controls' = orig[p]]_vars

\* Verification turns down only what is no release: a pending transaction, an
\* interrupted finalization or an interrupted recovery does not make a
\* finalized release unverifiable.
RejectsOnlyNonReleases ==
  [][\A p \in Processes :
       outcome'[p] = "rejected" /\ outcome[p] # "rejected" => Committed \notin Releases]_vars

\* Every call returns, or its process dies: nobody waits for ever on a lock
\* or inside a recovery.
EveryCallReturns == \A p \in Processes : pc[p] # "idle" ~> pc[p] = "idle"

\* An error inside a recovery or a rollback, which leaves its journal behind.
RestoreError == \E p \in Processes : pc[p] \in Recovering \cup Undoing /\ Abort(p)

\* Once storage stops failing, a pending transaction does not stay pending,
\* whichever process left it behind and whoever calls next.
PendingTransactionResolved ==
  <>[][~RestoreError]_vars => []<>(journal = NoJournal)
=============================================================================
