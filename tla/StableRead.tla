------------------------------ MODULE StableRead ------------------------------
(***************************************************************************)
(* read_stable_file: how the release layer reads one file while others     *)
(* rewrite it in place, replace it, remove it or put a link in its place,  *)
(* with nothing but the metadata of the path and of the descriptor to      *)
(* tell.                                                                   *)
(*                                                                         *)
(* The directory has two names: the path that is read and one other, where *)
(* a replacement waits, where the old file may be kept, to which the path  *)
(* may be a symbolic link, or which may be a hard link to it.  mtime and   *)
(* ctime are one stamp, and each change of a file or of its names gives it *)
(* a new one: two changes within one tick of the file system's clock are   *)
(* out of the code's sight and of the model's.  The size is the number of  *)
(* chunks.                                                                 *)
(***************************************************************************)
EXTENDS Naturals, Sequences, FiniteSets

CONSTANTS Inodes,       \* file objects (st_dev, st_ino)
          Chunks,       \* what one os.read may return
          MaxSize,      \* bound on the chunks of a file
          NoFollow,     \* the platform has O_NOFOLLOW
          MaxClock,     \* bound on the changes
          Missing,      \* a name that does not exist
          Link          \* a symbolic link to the other name

ASSUME NamesAssumption == /\ Missing \notin Inodes
                          /\ Link \notin Inodes
                          /\ Missing # Link

ASSUME BoundsAssumption == /\ MaxSize \in Nat
                           /\ NoFollow \in BOOLEAN
                           /\ MaxClock \in Nat
                           /\ IsFiniteSet(Inodes)

Names == {"path", "other"}
Reading == {"open", "fstat", "read", "close", "restat"}
Opened == {"fstat", "read", "close"}
Data == UNION {[1 .. n -> Chunks] : n \in 0 .. MaxSize}

VARIABLES entry,   \* the directory
          data,    \* the content of each inode
          stamp,   \* when it was last changed
          clock,
          pc,      \* of the reader
          before,  \* before_path
          fd,      \* the inode the descriptor is of
          opened,  \* opened_before
          got,     \* the chunks read
          closing, \* opened_after
          held     \* what the path has held since before_path was taken

disk == <<entry, data, stamp, clock>>
reader == <<pc, before, fd, opened, got, closing>>
vars == <<disk, reader, held>>

Links(i) == Cardinality({n \in Names : entry[n] = i})

\* stat of an inode: the fields of _STABLE_FIELDS.
Stat(i) == [inode |-> i, size |-> Len(data[i]), stamp |-> stamp[i], links |-> Links(i)]

NoStat == [inode |-> Missing, size |-> 0, stamp |-> 0, links |-> 0]

\* What a reader of the path would see, links not followed.
Content == IF entry["path"] \in Inodes THEN data[entry["path"]] ELSE entry["path"]

Init == /\ entry \in [Names -> Inodes \cup {Missing}]
        /\ data \in [Inodes -> Data]
        /\ stamp = [i \in Inodes |-> 0]
        /\ clock = 0
        /\ pc = "idle"
        /\ before = NoStat
        /\ fd = Missing
        /\ opened = NoStat
        /\ got = <<>>
        /\ closing = NoStat
        /\ held = {}

-----------------------------------------------------------------------------
(* The reader.                                                             *)

\* StableFileError, with the descriptor closed.
Fail == /\ pc' = "idle"
        /\ before' = NoStat
        /\ fd' = Missing
        /\ opened' = NoStat
        /\ got' = <<>>
        /\ closing' = NoStat
        /\ held' = {}
        /\ UNCHANGED disk

\* A regular file with one name.
Regular(i) == i \in Inodes /\ Links(i) <= 1

StatPath == /\ pc \in {"idle", "done"}
            /\ Regular(entry["path"])
            /\ before' = Stat(entry["path"])
            /\ held' = {Content}
            /\ pc' = "open"
            /\ fd' = Missing
            /\ opened' = NoStat
            /\ got' = <<>>
            /\ closing' = NoStat
            /\ UNCHANGED disk

StatPathFails == /\ pc \in {"idle", "done"}
                 /\ ~Regular(entry["path"])
                 /\ Fail

\* What os.open finds at the path.
Target == IF entry["path"] = Link
          THEN IF NoFollow THEN Missing ELSE entry["other"]
          ELSE entry["path"]

Open == /\ pc = "open"
        /\ Target \in Inodes
        /\ fd' = Target
        /\ pc' = "fstat"
        /\ UNCHANGED <<disk, before, opened, got, closing, held>>

OpenFails == /\ pc = "open"
             /\ Target \notin Inodes
             /\ Fail

FstatAnyInode == /\ pc = "fstat"
                 /\ opened' = Stat(fd)
                 /\ pc' = "read"
                 /\ UNCHANGED <<disk, before, fd, got, closing, held>>

\* The descriptor is of the file whose path was inspected.
Fstat == /\ pc = "fstat"
         /\ Regular(fd)
         /\ before.inode = fd
         /\ opened' = Stat(fd)
         /\ pc' = "read"
         /\ UNCHANGED <<disk, before, fd, got, closing, held>>

FstatFails == /\ pc = "fstat"
              /\ ~(Regular(fd) /\ before.inode = fd)
              /\ Fail

ReadChunk == /\ pc = "read"
             /\ Len(got) < Len(data[fd])
             /\ got' = Append(got, data[fd][Len(got) + 1])
             /\ UNCHANGED <<disk, pc, before, fd, opened, closing, held>>

EndOfFile == /\ pc = "read"
             /\ Len(got) >= Len(data[fd])
             /\ pc' = "close"
             /\ UNCHANGED <<disk, before, fd, opened, got, closing, held>>

\* fstat once more, and close.
Close == /\ pc = "close"
         /\ closing' = Stat(fd)
         /\ pc' = "restat"
         /\ UNCHANGED <<disk, before, fd, opened, got, held>>

\* An error of os.read or os.fstat.
ReadFails == /\ pc \in Opened
             /\ Fail

UnchangedButForWrites == /\ Regular(entry["path"])
                         /\ before.size = Stat(entry["path"]).size
                         /\ entry["path"] = closing.inode

\* The path is stat'ed again: it, and the descriptor, are as they were.
Unchanged == /\ Regular(entry["path"])
             /\ opened = closing
             /\ before = Stat(entry["path"])
             /\ entry["path"] = closing.inode

StatAgain == /\ pc = "restat"
             /\ Unchanged
             /\ pc' = "done"
             /\ UNCHANGED <<disk, before, fd, opened, got, closing, held>>

StatAgainFails == /\ pc = "restat"
                  /\ ~Unchanged
                  /\ Fail

-----------------------------------------------------------------------------
(* The others.  Each change of an inode or of its names stamps it.         *)

Tick == /\ clock < MaxClock
        /\ clock' = clock + 1

Stamped(S) == stamp' = [i \in Inodes |-> IF i \in S THEN clock' ELSE stamp[i]]

\* What the path has held, brought up to date.
Held == held' = IF pc \in Reading THEN held \cup {Content'} ELSE held

\* Some process writes into a file.
WriteInPlace(i) == /\ Tick
                   /\ \E d \in Data : data' = [data EXCEPT ![i] = d]
                   /\ Stamped({i})
                   /\ UNCHANGED <<entry, reader>>
                   /\ Held

\* os.replace(other, path), and the way back.  (Onto another name of the same
\* file it does nothing.)
Rename(from, to) == /\ from # to
                    /\ entry[from] \notin {Missing, entry[to]}
                    /\ Tick
                    /\ entry' = [entry EXCEPT ![to] = entry[from], ![from] = Missing]
                    /\ Stamped({entry[from], entry[to]})
                    /\ UNCHANGED <<data, reader>>
                    /\ Held

Unlink(n) == /\ entry[n] # Missing
             /\ Tick
             /\ entry' = [entry EXCEPT ![n] = Missing]
             /\ Stamped({entry[n]})
             /\ UNCHANGED <<data, reader>>
             /\ Held

\* A new file, possibly with the number of one that is gone and not open.
Create(n, i) == /\ entry[n] = Missing
                /\ Links(i) = 0
                /\ i = fd => pc \notin Opened
                /\ Tick
                /\ entry' = [entry EXCEPT ![n] = i]
                /\ \E d \in Data : data' = [data EXCEPT ![i] = d]
                /\ Stamped({i})
                /\ UNCHANGED reader
                /\ Held

\* The path becomes a symbolic link to the other name.
Symlink == /\ entry["path"] = Missing
           /\ Tick
           /\ entry' = [entry EXCEPT !["path"] = Link]
           /\ UNCHANGED <<data, stamp, reader>>
           /\ Held

HardLink == /\ entry["path"] \in Inodes
            /\ entry["other"] = Missing
            /\ Tick
            /\ entry' = [entry EXCEPT !["other"] = entry["path"]]
            /\ Stamped({entry["path"]})
            /\ UNCHANGED <<data, reader>>
            /\ Held

-----------------------------------------------------------------------------
Read == \/ StatPath
        \/ StatPathFails
        \/ Open
        \/ OpenFails
        \/ Fstat
        \/ FstatFails
        \/ ReadChunk
        \/ EndOfFile
        \/ Close
        \/ ReadFails
        \/ StatAgain
        \/ StatAgainFails

Next == \/ Read
        \/ \E i \in Inodes : WriteInPlace(i)
        \/ \E m, n \in Names : Rename(m, n)
        \/ \E n \in Names : Unlink(n)
        \/ \E n \in Names, i \in Inodes : Create(n, i)
        \/ Symlink
        \/ HardLink

Spec == Init /\ [][Next]_vars

-----------------------------------------------------------------------------
Stats == [inode : Inodes \cup {Missing}, size : Nat, stamp : Nat, links : Nat]

(* Type invariant.                                                         *)
TypeOK == /\ entry \in [Names -> Inodes \cup {Missing, Link}]
          /\ data \in [Inodes -> Data]
          /\ stamp \in [Inodes -> Nat]
          /\ clock \in Nat
          /\ pc \in Reading \cup {"idle", "done"}
          /\ before \in Stats
          /\ fd \in Inodes \cup {Missing}
          /\ opened \in Stats
          /\ got \in Seq(Chunks)
          /\ closing \in Stats

\* The bytes returned are what the path held from the first stat to the last
\* and at every moment between: not a mixture of a file before and after a
\* write, not a file that was at the path for a while, nor one that a link
\* pointed to.
ReturnsTheFileAsItWas == [][pc # "done" /\ pc' = "done" => held = {got}]_vars

\* What it rests on: as long as the file first inspected has its stamp, it is
\* still what the path holds, and what was read of it is what is in it.
StableInv ==
  /\ TypeOK
  /\ \A i \in Inodes : stamp[i] <= clock
  /\ pc \in Reading => before.inode \in Inodes /\ before.stamp <= clock
  /\ pc \in Reading /\ stamp[before.inode] = before.stamp =>
       entry["path"] = before.inode /\ held = {data[before.inode]}
  /\ pc = "fstat" => fd \in Inodes
  /\ pc \in {"read", "close", "restat"} => fd = before.inode
  /\ pc \in {"open", "fstat"} => got = <<>>
  /\ pc = "read" /\ stamp[fd] = before.stamp =>
       /\ Len(got) <= Len(data[fd])
       /\ \A k \in 1 .. Len(got) : got[k] = data[fd][k]
  /\ pc \in {"close", "restat"} /\ stamp[fd] = before.stamp => got = data[fd]
=============================================================================
