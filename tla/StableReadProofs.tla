--------------------------- MODULE StableReadProofs ---------------------------
(***************************************************************************)
(* Theorems about StableRead: for any number of files, any contents and    *)
(* sizes, with and without O_NOFOLLOW, a read that returns has returned    *)
(* the one content that the path has held since the read began.            *)
(***************************************************************************)
EXTENDS StableRead, FiniteSetTheorems, SequenceTheorems, TLAPS

\* A file content is a sequence of chunks.
LEMMA DataAreSequences == Data \subseteq Seq(Chunks)
  <1>1. \A n \in 0 .. MaxSize : n \in Nat
    BY BoundsAssumption
  <1> QED
    BY <1>1, SeqDef DEF Data

\* The number of names of a file is a number.
LEMMA LinksType == \A i : Links(i) \in Nat
  <1> SUFFICES ASSUME NEW i PROVE Links(i) \in Nat
    OBVIOUS
  <1>1. IsFiniteSet(Names)
    <2>1. Names = {"path"} \cup {"other"}
      BY DEF Names
    <2> QED
      BY <2>1, FS_Singleton, FS_Union
  <1>2. IsFiniteSet({n \in Names : entry[n] = i})
    BY <1>1, FS_Subset
  <1> QED
    BY <1>2, FS_CardinalityType DEF Links

\* What fstat reports is well-formed.
LEMMA StatType ==
  ASSUME TypeOK, NEW i \in Inodes
  PROVE  Stat(i) \in Stats
  <1>1. data[i] \in Seq(Chunks)
    BY DataAreSequences DEF TypeOK
  <1>2. Len(data[i]) \in Nat
    BY <1>1, LenProperties
  <1>3. stamp[i] \in Nat
    BY DEF TypeOK
  <1> QED
    BY <1>2, <1>3, LinksType DEF Stat, Stats

-----------------------------------------------------------------------------
(* The others: a change that stamps every file whose content it changes,   *)
(* and the file that was at the path if it changes that.                   *)

LEMMA ChangeKeepsInv ==
  ASSUME StableInv, NEW S,
         entry' \in [Names -> Inodes \cup {Missing, Link}],
         data' \in [Inodes -> Data],
         clock' = clock + 1, Stamped(S), UNCHANGED reader, Held,
         \A i \in Inodes : i \notin S =>
           data'[i] = data[i] /\ (entry["path"] = i => entry'["path"] = i)
  PROVE  StableInv'
  <1>1. stamp' \in [Inodes -> Nat] /\ clock' \in Nat
    BY DEF StableInv, TypeOK, Stamped
  <1>2. TypeOK'
    BY <1>1 DEF StableInv, TypeOK, reader
  <1>3. \A i \in Inodes : stamp'[i] <= clock'
    BY DEF StableInv, TypeOK, Stamped
  <1>4. ASSUME pc \in Reading, stamp'[before.inode] = before.stamp
        PROVE  /\ before.inode \in Inodes
               /\ before.inode \notin S
               /\ stamp[before.inode] = before.stamp
    <2>1. before.inode \in Inodes /\ before.stamp <= clock /\ before.stamp \in Nat
      BY <1>4 DEF StableInv, TypeOK, Stats
    <2>2. before.inode \in S => stamp'[before.inode] = clock + 1
      BY <2>1 DEF Stamped
    <2>3. before.inode \notin S
      BY <1>4, <2>1, <2>2 DEF StableInv, TypeOK
    <2> QED
      BY <1>4, <2>1, <2>3 DEF Stamped
  <1>5. pc' \in Reading /\ stamp'[before'.inode] = before'.stamp =>
          entry'["path"] = before'.inode /\ held' = {data'[before'.inode]}
    <2> SUFFICES ASSUME pc \in Reading, stamp'[before.inode] = before.stamp
                 PROVE  entry'["path"] = before.inode /\ held' = {data'[before.inode]}
      BY DEF reader
    <2>1. entry["path"] = before.inode /\ held = {data[before.inode]}
      BY <1>4 DEF StableInv
    <2>2. entry'["path"] = before.inode /\ data'[before.inode] = data[before.inode]
      BY <1>4, <2>1
    <2>3. Content' = data'[before.inode]
      BY <1>4, <2>2 DEF Content
    <2> QED
      BY <2>1, <2>2, <2>3 DEF Held
  <1>6. /\ pc' \in Reading => before'.inode \in Inodes /\ before'.stamp <= clock'
        /\ pc' = "fstat" => fd' \in Inodes
        /\ pc' \in {"read", "close", "restat"} => fd' = before'.inode
        /\ pc' \in {"open", "fstat"} => got' = <<>>
    BY DEF StableInv, TypeOK, Stats, reader
  <1>7. ASSUME pc \in {"read", "close", "restat"}, stamp'[fd] = before.stamp
        PROVE  stamp[fd] = before.stamp /\ data'[fd] = data[fd]
    BY <1>4, <1>7 DEF StableInv, Reading
  <1>8. /\ pc' = "read" /\ stamp'[fd'] = before'.stamp =>
             /\ Len(got') <= Len(data'[fd'])
             /\ \A k \in 1 .. Len(got') : got'[k] = data'[fd'][k]
        /\ pc' \in {"close", "restat"} /\ stamp'[fd'] = before'.stamp => got' = data'[fd']
    BY <1>7 DEF StableInv, reader
  <1> QED
    BY <1>2, <1>3, <1>5, <1>6, <1>8 DEF StableInv

LEMMA OthersKeepInv ==
  ASSUME StableInv,
         \/ \E i \in Inodes : WriteInPlace(i)
         \/ \E m, n \in Names : Rename(m, n)
         \/ \E n \in Names : Unlink(n)
         \/ \E n \in Names, i \in Inodes : Create(n, i)
         \/ Symlink
         \/ HardLink
  PROVE  StableInv'
  <1> USE DEF Names
  <1>1. entry \in [Names -> Inodes \cup {Missing, Link}] /\ data \in [Inodes -> Data]
    BY DEF StableInv, TypeOK
  <1>2. ASSUME NEW i \in Inodes, WriteInPlace(i) PROVE StableInv'
    <2>1. PICK d \in Data : data' = [data EXCEPT ![i] = d]
      BY <1>2 DEF WriteInPlace
    <2> QED
      BY <1>1, <1>2, <2>1, ChangeKeepsInv DEF WriteInPlace, Tick
  <1>3. ASSUME NEW m \in Names, NEW n \in Names, Rename(m, n) PROVE StableInv'
    <2>1. entry' \in [Names -> Inodes \cup {Missing, Link}]
      BY <1>1, <1>3 DEF Rename
    <2>2. \A i \in Inodes : i \notin {entry[m], entry[n]} /\ entry["path"] = i =>
            entry'["path"] = i
      BY <1>1, <1>3 DEF Rename
    <2> QED
      BY <1>1, <1>3, <2>1, <2>2, ChangeKeepsInv DEF Rename, Tick
  <1>4. ASSUME NEW n \in Names, Unlink(n) PROVE StableInv'
    <2>1. entry' \in [Names -> Inodes \cup {Missing, Link}]
      BY <1>1, <1>4 DEF Unlink
    <2>2. \A i \in Inodes : i \notin {entry[n]} /\ entry["path"] = i => entry'["path"] = i
      BY <1>1, <1>4 DEF Unlink
    <2> QED
      BY <1>1, <1>4, <2>1, <2>2, ChangeKeepsInv DEF Unlink, Tick
  <1>5. ASSUME NEW n \in Names, NEW i \in Inodes, Create(n, i) PROVE StableInv'
    <2>1. entry' \in [Names -> Inodes \cup {Missing, Link}]
      BY <1>1, <1>5 DEF Create
    <2>2. PICK d \in Data : data' = [data EXCEPT ![i] = d]
      BY <1>5 DEF Create
    <2>3. \A j \in Inodes : entry["path"] = j => entry'["path"] = j
      BY <1>1, <1>5, NamesAssumption DEF Create
    <2> QED
      BY <1>1, <1>5, <2>1, <2>2, <2>3, ChangeKeepsInv DEF Create, Tick
  <1>6. CASE Symlink
    <2>1. entry' \in [Names -> Inodes \cup {Missing, Link}]
      BY <1>1, <1>6 DEF Symlink
    <2>2. \A j \in Inodes : entry["path"] # j
      BY <1>6, NamesAssumption DEF Symlink
    <2>3. Stamped({})
      BY <1>6 DEF Symlink, Stamped, StableInv, TypeOK
    <2> QED
      BY <1>1, <1>6, <2>1, <2>2, <2>3, ChangeKeepsInv DEF Symlink, Tick
  <1>7. CASE HardLink
    <2>1. entry' \in [Names -> Inodes \cup {Missing, Link}]
      BY <1>1, <1>7 DEF HardLink
    <2>2. entry'["path"] = entry["path"]
      BY <1>1, <1>7 DEF HardLink
    <2> QED
      BY <1>1, <1>7, <2>1, <2>2, ChangeKeepsInv DEF HardLink, Tick
  <1> QED
    BY <1>2, <1>3, <1>4, <1>5, <1>6, <1>7

-----------------------------------------------------------------------------
(* The reader.                                                             *)

LEMMA FailKeepsInv ==
  ASSUME StableInv, Fail
  PROVE  StableInv'
  <1>1. NoStat \in Stats /\ <<>> \in Seq(Chunks)
    BY DEF NoStat, Stats
  <1>2. TypeOK'
    BY <1>1 DEF StableInv, TypeOK, Fail, disk
  <1> QED
    BY <1>2 DEF StableInv, Fail, disk, Reading

LEMMA StatPathKeepsInv ==
  ASSUME StableInv, StatPath
  PROVE  StableInv'
  <1>1. entry["path"] \in Inodes
    BY DEF StatPath, Regular
  <1>2. /\ before' \in Stats
        /\ before'.inode = entry["path"]
        /\ before'.stamp = stamp[entry["path"]]
    BY <1>1, StatType DEF StatPath, Stat, StableInv
  <1>3. NoStat \in Stats /\ <<>> \in Seq(Chunks)
    BY DEF NoStat, Stats
  <1>4. TypeOK'
    BY <1>2, <1>3 DEF StableInv, TypeOK, StatPath, disk, Reading
  <1>5. held' = {data[entry["path"]]}
    BY <1>1 DEF StatPath, Content
  <1> QED
    BY <1>1, <1>2, <1>4, <1>5 DEF StableInv, StatPath, disk

LEMMA ReadChunkKeepsInv ==
  ASSUME StableInv, ReadChunk
  PROVE  StableInv'
  <1>1. fd \in Inodes /\ fd = before.inode
    BY DEF StableInv, ReadChunk, Reading
  <1>2. data[fd] \in Seq(Chunks) /\ got \in Seq(Chunks)
    BY <1>1, DataAreSequences DEF StableInv, TypeOK
  <1> DEFINE chunk == data[fd][Len(got) + 1]
  <1>3. /\ Len(got) \in Nat
        /\ Len(got) + 1 \in 1 .. Len(data[fd])
        /\ chunk \in Chunks
    BY <1>2, LenProperties, ElementOfSeq DEF ReadChunk
  <1>4. got' = Append(got, chunk)
    BY DEF ReadChunk
  <1> HIDE DEF chunk
  <1>5. /\ got' \in Seq(Chunks)
        /\ Len(got') = Len(got) + 1
        /\ \A k \in 1 .. Len(got) : got'[k] = got[k]
        /\ got'[Len(got) + 1] = chunk
    BY <1>2, <1>3, <1>4, AppendProperties
  <1>6. TypeOK'
    BY <1>5 DEF StableInv, TypeOK, ReadChunk, disk
  <1>7. ASSUME stamp[fd] = before.stamp
        PROVE  /\ Len(got') <= Len(data[fd])
               /\ \A k \in 1 .. Len(got') : got'[k] = data[fd][k]
    <2>1. \A k \in 1 .. Len(got) : got[k] = data[fd][k]
      BY <1>7 DEF StableInv, ReadChunk
    <2>2. \A k \in 1 .. Len(got') : k \in 1 .. Len(got) \/ k = Len(got) + 1
      BY <1>3, <1>5
    <2>3. chunk = data[fd][Len(got) + 1]
      BY DEF chunk
    <2> QED
      BY <1>2, <1>3, <1>5, <2>1, <2>2, <2>3, LenProperties
  <1> QED
    BY <1>6, <1>7 DEF StableInv, ReadChunk, disk, Reading

LEMMA EndOfFileKeepsInv ==
  ASSUME StableInv, EndOfFile
  PROVE  StableInv'
  <1>1. fd \in Inodes /\ fd = before.inode
    BY DEF StableInv, EndOfFile, Reading
  <1>2. data[fd] \in Seq(Chunks) /\ got \in Seq(Chunks)
    BY <1>1, DataAreSequences DEF StableInv, TypeOK
  <1>3. TypeOK'
    BY DEF StableInv, TypeOK, EndOfFile, disk, Reading
  <1>4. ASSUME stamp[fd] = before.stamp PROVE got = data[fd]
    <2>1. /\ Len(got) = Len(data[fd])
          /\ \A k \in 1 .. Len(got) : got[k] = data[fd][k]
      BY <1>2, <1>4, LenProperties DEF StableInv, EndOfFile
    <2> QED
      BY <1>2, <2>1, SeqEqual
  <1> QED
    BY <1>1, <1>3, <1>4 DEF StableInv, EndOfFile, disk, Reading

LEMMA ReadKeepsInv ==
  ASSUME StableInv, Read
  PROVE  StableInv'
  <1>1. CASE StatPath
    BY <1>1, StatPathKeepsInv
  <1>2. CASE StatPathFails \/ OpenFails \/ FstatFails \/ ReadFails \/ StatAgainFails
    BY <1>2, FailKeepsInv DEF StatPathFails, OpenFails, FstatFails, ReadFails, StatAgainFails
  <1>3. CASE Open
    BY <1>3 DEF StableInv, TypeOK, Open, disk, Reading
  <1>4. CASE Fstat
    <2>1. fd \in Inodes /\ fd = before.inode
      BY <1>4 DEF StableInv, Fstat
    <2>2. opened' \in Stats
      BY <1>4, <2>1, StatType DEF StableInv, Fstat
    <2>3. TypeOK'
      BY <1>4, <2>2 DEF StableInv, TypeOK, Fstat, disk, Reading
    <2>4. Len(got) = 0 /\ data[fd] \in Seq(Chunks)
      BY <1>4, <2>1, DataAreSequences DEF StableInv, TypeOK, Fstat
    <2>5. Len(got) <= Len(data[fd]) /\ \A k \in 1 .. Len(got) : got[k] = data[fd][k]
      BY <2>4, LenProperties
    <2> QED
      BY <1>4, <2>1, <2>3, <2>5 DEF StableInv, Fstat, disk, Reading
  <1>5. CASE ReadChunk
    BY <1>5, ReadChunkKeepsInv
  <1>6. CASE EndOfFile
    BY <1>6, EndOfFileKeepsInv
  <1>7. CASE Close
    <2>1. fd \in Inodes
      BY <1>7 DEF StableInv, Close, Reading
    <2>2. closing' \in Stats
      BY <1>7, <2>1, StatType DEF StableInv, Close
    <2>3. TypeOK'
      BY <1>7, <2>2 DEF StableInv, TypeOK, Close, disk, Reading
    <2> QED
      BY <1>7, <2>1, <2>3 DEF StableInv, Close, disk, Reading
  <1>8. CASE StatAgain
    BY <1>8 DEF StableInv, TypeOK, StatAgain, disk, Reading
  <1> QED
    BY <1>1, <1>2, <1>3, <1>4, <1>5, <1>6, <1>7, <1>8 DEF Read

-----------------------------------------------------------------------------
\* A file that keeps its stamp keeps its place and its content, and a read of
\* it has read what is in it.
THEOREM StableInvariant == Spec => []StableInv
  <1>1. Init => StableInv
    <2> SUFFICES ASSUME Init PROVE StableInv
      OBVIOUS
    <2>1. NoStat \in Stats /\ <<>> \in Seq(Chunks)
      BY DEF NoStat, Stats
    <2>2. TypeOK
      BY <2>1 DEF Init, TypeOK
    <2> QED
      BY <2>2 DEF Init, StableInv, Reading
  <1>2. StableInv /\ [Next]_vars => StableInv'
    <2> SUFFICES ASSUME StableInv, [Next]_vars PROVE StableInv'
      OBVIOUS
    <2>1. CASE Read
      BY <2>1, ReadKeepsInv
    <2>2. CASE UNCHANGED vars
      BY <2>2 DEF vars, disk, reader, StableInv, TypeOK
    <2> QED
      BY <2>1, <2>2, OthersKeepInv DEF Next
  <1> QED
    BY <1>1, <1>2, PTL DEF Spec

\* read_stable_file returns the one content that its path has held since the
\* read began, or it raises: whatever is written, replaced, linked or removed
\* meanwhile, and whether or not the platform can refuse to follow links.
THEOREM ReadIsStable == Spec => ReturnsTheFileAsItWas
  <1>1. StableInv /\ [Next]_vars => [pc # "done" /\ pc' = "done" => held = {got}]_vars
    <2> SUFFICES ASSUME StableInv, Next, pc # "done", pc' = "done"
                 PROVE  held = {got}
      OBVIOUS
    <2>1. StatAgain
      BY DEF Next, Read, StatPath, StatPathFails, Open, OpenFails, Fstat, FstatFails,
             ReadChunk, EndOfFile, Close, ReadFails, StatAgainFails, Fail,
             WriteInPlace, Rename, Unlink, Create, Symlink, HardLink, reader
    <2>2. pc = "restat" /\ fd = before.inode /\ before.inode \in Inodes
      BY <2>1 DEF StatAgain, StableInv, Reading
    <2>3. before = Stat(entry["path"]) /\ before.inode = entry["path"]
      BY <2>1 DEF StatAgain, Unchanged, Stat
    <2>4. stamp[before.inode] = before.stamp
      BY <2>3 DEF Stat
    <2> QED
      BY <2>2, <2>4 DEF StableInv, Reading
  <1> QED
    BY <1>1, StableInvariant, PTL DEF Spec, ReturnsTheFileAsItWas
=============================================================================
