---------------------------- MODULE VerifiedLoad ----------------------------
(***************************************************************************)
(* One process that verifies a release and reads artifacts of it           *)
(* (verify_release_security, read_verified_artifacts), while writers that  *)
(* take the release lock wait for it and writers that do not go on         *)
(* replacing files under it.                                               *)
(*                                                                         *)
(* A file's content is the version of the bundle its bytes belong to: the  *)
(* manifest of version v records the digest of the inventory of version v, *)
(* the signature of version v is the one of that manifest, and the         *)
(* inventory of version v lists the digests of the artifacts of version v. *)
(* Every release is signed.  The recovery of a pending transaction, which  *)
(* precedes the reads under the lock, is ControlTransaction's.             *)
(***************************************************************************)
CONSTANTS Versions,   \* bundles that writers may put in the release root
          Artifacts,  \* payload files
          Listed,     \* the artifacts each version's inventory lists
          Requested,  \* the artifacts the caller asks for
          Unlocked,   \* files that may be replaced without the lock
          Timeouts,   \* lock_timeout arguments: "negative", "finite"
          None        \* nothing read yet

Controls == {"manifest", "inventory", "signature"}
Files == Controls \cup Artifacts
Entries == {"verify", "load"}
Errors == {"ReleaseSecurityError", "BundleInventoryError", "ManifestAuthenticationError"}

ASSUME LoadAssumption ==
  /\ Listed \in [Versions -> SUBSET Artifacts]
  /\ Requested \subseteq Artifacts
  /\ Unlocked \subseteq Files
  /\ Timeouts \subseteq {"negative", "finite"}
  /\ Artifacts \cap Controls = {}
  /\ None \notin Versions

VARIABLES file,       \* the version each file's bytes are of
          owner,      \* of the release lock
          pc,         \* where the call is
          entry,      \* which function was called
          timeout,    \* its lock_timeout
          manifest,   \* the manifest as read, whose metadata is returned
          inventory,  \* the inventory as read
          unchecked,  \* listed artifacts not yet verified
          wanted,     \* requested artifacts not yet read
          got,        \* the bytes read
          error       \* the class of the exception raised

call == <<entry, timeout>>
reads == <<manifest, inventory, unchecked, wanted, got>>
vars == <<file, owner, pc, call, reads, error>>

PCs == {"idle", "validate", "lock", "revalidate", "readManifest", "hashInventory",
        "readInventory", "verifyArtifacts", "readArtifacts", "return", "done", "failed"}

\* The program points inside the `with FileLock' block.
Locked == {"revalidate", "readManifest", "hashInventory", "readInventory",
           "verifyArtifacts", "readArtifacts", "return"}

Init == /\ file \in [Files -> Versions]
        /\ owner = "nobody"
        /\ pc = "idle"
        /\ entry = "load"
        /\ timeout \in Timeouts
        /\ manifest = None
        /\ inventory = None
        /\ unchecked = {}
        /\ wanted = {}
        /\ got = [a \in Artifacts |-> None]
        /\ error = "none"

-----------------------------------------------------------------------------
\* An exception leaves the block.  Only the verifier's own lock block
\* translates what it calls; the loader's translates a lock timeout alone.
Fail(e) == /\ pc' = "failed"
           /\ owner' = IF pc \in Locked THEN "nobody" ELSE owner
           /\ error' = IF entry = "verify" THEN "ReleaseSecurityError" ELSE e
           /\ UNCHANGED <<file, call, reads>>

Go(at) == /\ pc' = at
          /\ UNCHANGED <<file, owner, call, error>>

Call == /\ pc \in {"idle", "done", "failed"}
        /\ entry' \in Entries
        /\ timeout' \in Timeouts
        /\ pc' = IF entry' = "verify" THEN "validate" ELSE "lock"
        /\ manifest' = None
        /\ inventory' = None
        /\ unchecked' = {}
        /\ wanted' = Requested
        /\ got' = [a \in Artifacts |-> None]
        /\ error' = "none"
        /\ UNCHANGED <<file, owner>>

\* verify_release_security validates lock_timeout before it locks ...
Validate == /\ pc = "validate"
            /\ timeout # "negative"
            /\ Go("lock")
            /\ UNCHANGED reads

ValidateFails == /\ pc = "validate"
                 /\ timeout = "negative"
                 /\ Fail("ReleaseSecurityError")

Lock == /\ pc = "lock"
        /\ owner = "nobody"
        /\ owner' = "caller"
        /\ pc' = IF entry = "load" THEN "revalidate" ELSE "readManifest"
        /\ UNCHANGED <<file, call, reads, error>>

LockTimeoutIgnored == FALSE

\* FileLock gives up after lock_timeout, and never if it is negative.
LockTimeout == /\ pc = "lock"
               /\ owner # "nobody"
               /\ timeout # "negative"
               /\ Fail("ReleaseSecurityError")

\* ... which the loader reaches only once it holds the lock.
Revalidate == /\ pc = "revalidate"
              /\ timeout # "negative"
              /\ Go("readManifest")
              /\ UNCHANGED reads

RevalidateFails == /\ pc = "revalidate"
                   /\ timeout = "negative"
                   /\ Fail("ReleaseSecurityError")

\* The manifest is read once; its state, sequence and key id may be refused.
ReadManifest == /\ pc = "readManifest"
                /\ manifest' = file["manifest"]
                /\ Go("hashInventory")
                /\ UNCHANGED <<inventory, unchecked, wanted, got>>

PolicyFails == /\ pc = "readManifest"
               /\ Fail("ReleaseSecurityError")

HashInventoryUnchecked == /\ pc = "hashInventory"
                          /\ Go("readInventory")
                          /\ UNCHANGED reads

\* sha256_file(inventory_path) against the manifest ...
HashInventory == /\ pc = "hashInventory"
                 /\ file["inventory"] = manifest
                 /\ Go("readInventory")
                 /\ UNCHANGED reads

HashInventoryFails == /\ pc = "hashInventory"
                      /\ file["inventory"] # manifest
                      /\ Fail("ReleaseSecurityError")

\* ... and then the file is read a second time.
ReadInventory == /\ pc = "readInventory"
                 /\ inventory' = file["inventory"]
                 /\ unchecked' = Listed[inventory']
                 /\ Go("verifyArtifacts")
                 /\ UNCHANGED <<manifest, wanted, got>>

VerifyArtifact(a) == /\ pc = "verifyArtifacts"
                     /\ a \in unchecked
                     /\ file[a] = inventory
                     /\ unchecked' = unchecked \ {a}
                     /\ Go("verifyArtifacts")
                     /\ UNCHANGED <<manifest, inventory, wanted, got>>

VerifyArtifactFails(a) == /\ pc = "verifyArtifacts"
                          /\ a \in unchecked
                          /\ file[a] # inventory
                          /\ Fail("BundleInventoryError")

CheckSignatureAlone == /\ pc = "verifyArtifacts"
                       /\ file["signature"] = manifest
                       /\ Go(IF entry = "load" THEN "readArtifacts" ELSE "return")
                       /\ UNCHANGED reads

\* The signature is checked against the manifest as read, last.
CheckSignature == /\ pc = "verifyArtifacts"
                  /\ unchecked = {}
                  /\ file["signature"] = manifest
                  /\ Go(IF entry = "load" THEN "readArtifacts" ELSE "return")
                  /\ UNCHANGED reads

CheckSignatureFails == /\ pc = "verifyArtifacts"
                       /\ unchecked = {}
                       /\ file["signature"] # manifest
                       /\ Fail("ManifestAuthenticationError")

ReadArtifactUnchecked(a) == /\ pc = "readArtifacts"
                            /\ a \in wanted
                            /\ a \in Listed[inventory]
                            /\ got' = [got EXCEPT ![a] = file[a]]
                            /\ wanted' = wanted \ {a}
                            /\ Go("readArtifacts")
                            /\ UNCHANGED <<manifest, inventory, unchecked>>

\* The bytes returned are read afresh and must have the verified digest.
ReadArtifact(a) == /\ pc = "readArtifacts"
                   /\ a \in wanted
                   /\ a \in Listed[inventory]
                   /\ file[a] = inventory
                   /\ got' = [got EXCEPT ![a] = file[a]]
                   /\ wanted' = wanted \ {a}
                   /\ Go("readArtifacts")
                   /\ UNCHANGED <<manifest, inventory, unchecked>>

ReadArtifactFails(a) == /\ pc = "readArtifacts"
                        /\ a \in wanted
                        /\ a \in Listed[inventory] => file[a] # inventory
                        /\ Fail("ReleaseSecurityError")

ReadDone == /\ pc = "readArtifacts"
            /\ wanted = {}
            /\ Go("return")
            /\ UNCHANGED reads

Return == /\ pc = "return"
          /\ pc' = "done"
          /\ owner' = "nobody"
          /\ UNCHANGED <<file, call, reads, error>>

-----------------------------------------------------------------------------
(* Writers.                                                                *)

OtherLocks == /\ owner = "nobody"
              /\ owner' = "other"
              /\ UNCHANGED <<file, pc, call, reads, error>>

OtherUnlocks == /\ owner = "other"
                /\ owner' = "nobody"
                /\ UNCHANGED <<file, pc, call, reads, error>>

OtherWritesAnytime(f) == /\ \E v \in Versions : file' = [file EXCEPT ![f] = v]
                         /\ UNCHANGED <<owner, pc, call, reads, error>>

\* Replacing a file: any file under the lock, and the Unlocked ones at any time.
OtherWrites(f) == /\ owner = "other" \/ f \in Unlocked
                  /\ \E v \in Versions : file' = [file EXCEPT ![f] = v]
                  /\ UNCHANGED <<owner, pc, call, reads, error>>

-----------------------------------------------------------------------------
Work == \/ Validate
        \/ ValidateFails
        \/ Lock
        \/ LockTimeout
        \/ Revalidate
        \/ RevalidateFails
        \/ ReadManifest
        \/ PolicyFails
        \/ HashInventory
        \/ HashInventoryFails
        \/ ReadInventory
        \/ \E a \in Artifacts : VerifyArtifact(a)
        \/ \E a \in Artifacts : VerifyArtifactFails(a)
        \/ CheckSignature
        \/ CheckSignatureFails
        \/ \E a \in Artifacts : ReadArtifact(a)
        \/ \E a \in Artifacts : ReadArtifactFails(a)
        \/ ReadDone
        \/ Return

Next == \/ Call
        \/ Work
        \/ OtherLocks
        \/ OtherUnlocks
        \/ \E f \in Files : OtherWrites(f)

Spec == Init /\ [][Next]_vars

\* The call is scheduled; nothing is assumed of the writers, which may hold
\* the lock for ever.
FairSpec == Spec /\ WF_vars(Work)

-----------------------------------------------------------------------------
(* Type invariant.                                                         *)
TypeOK == /\ file \in [Files -> Versions]
          /\ owner \in {"nobody", "caller", "other"}
          /\ pc \in PCs
          /\ entry \in Entries
          /\ timeout \in Timeouts
          /\ manifest \in Versions \cup {None}
          /\ inventory \in Versions \cup {None}
          /\ unchecked \in SUBSET Artifacts
          /\ wanted \in SUBSET Requested
          /\ got \in [Artifacts -> Versions \cup {None}]
          /\ error \in Errors \cup {"none"}

\* The loader hands out bytes of the very release whose manifest it reports
\* (run, state, sequence): never of a release put in its place meanwhile,
\* and never of two.
LoadedIsVerifiedRelease ==
  pc = "done" /\ entry = "load" => \A a \in Requested : got[a] = manifest

\* When the verifier is about to say yes, all that is replaced under the lock
\* only is, at that moment, of the one release it says yes to: not a mixture of
\* files it saw at different times.
AcceptedBundleIsWhole ==
  pc = "return" =>
    \A f \in (Controls \cup Listed[manifest]) \ Unlocked : file[f] = manifest

\* What LoadedIsVerifiedRelease rests on while the inventory is replaced only
\* under the lock: from its digest check on it stays the one the manifest names,
\* and every byte sequence handed out so far is listed in it.
LoadInv ==
  /\ TypeOK
  /\ pc \in Locked <=> owner = "caller"
  /\ pc \in {"readInventory", "verifyArtifacts", "readArtifacts", "return"} =>
       file["inventory"] = manifest
  /\ pc \in {"verifyArtifacts", "readArtifacts", "return", "done"} => inventory = manifest
  /\ pc \in PCs \ {"idle", "readArtifacts", "return", "done", "failed"} => wanted = Requested
  /\ pc \in {"return", "done"} /\ entry = "load" => wanted = {}
  /\ \A a \in Requested \ wanted : got[a] = inventory

\* What AcceptedBundleIsWhole rests on: a file that is replaced under the lock
\* only, once checked, stays what it was.
WholeInv ==
  /\ LoadInv
  /\ pc \in {"hashInventory", "readInventory", "verifyArtifacts", "readArtifacts", "return"} =>
       "manifest" \in Unlocked \/ manifest = file["manifest"]
  /\ pc \in {"verifyArtifacts", "readArtifacts", "return"} =>
       \A a \in Listed[manifest] \ (unchecked \cup Unlocked) : file[a] = manifest
  /\ pc \in {"readArtifacts", "return"} =>
       unchecked = {} /\ ("signature" \in Unlocked \/ file["signature"] = manifest)

\* A call returns even when the lock is never given back, unless it is a load
\* with a negative timeout.
EveryCallReturns ==
  pc \in {"validate", "lock"} /\ (entry = "verify" \/ timeout # "negative") ~>
    pc \in {"done", "failed"}

\* "lock_timeout must be a non-negative number", of both entries.
NegativeTimeoutRefused ==
  pc \in {"validate", "lock"} /\ timeout = "negative" ~> pc = "failed"

\* "Unified release-hardening error exposed to pipelines and serving code."
ErrorsAreUnified == pc = "failed" => error = "ReleaseSecurityError"
=============================================================================
