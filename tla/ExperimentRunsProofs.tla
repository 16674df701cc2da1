-------------------------- MODULE ExperimentRunsProofs --------------------------
(***************************************************************************)
(* For any number of training runs, directories and transfers: a transfer  *)
(* that reports used the artifacts of one run.  The argument is that a     *)
(* directory is of one run, that the run has written what comes before its *)
(* step, and that the metrics come after everything a transfer reads.  It  *)
(* needs runs that have directories of their own.                          *)
(***************************************************************************)
EXTENDS SourcePatch, SequenceTheorems, TLAPS

USE RunsAssumption, DirsAssumption, ReuseAssumption

\* Each version writes seven to nine files.
LEMMA StepsLength ==
  ASSUME NEW r \in Runs
  PROVE  /\ Len(Steps(r)) = IF Version[r] = "v0.9.4" THEN 9
                            ELSE IF Version[r] = "v0.9.3" THEN 8 ELSE 7
         /\ Len(Steps(r)) \in 7 .. 9
         /\ MetricsStep(r) \in 1 .. Len(Steps(r))
BY DEF Steps, MetricsStep, Versions

\* No file is written twice by a run.
LEMMA StepsDistinct ==
  ASSUME NEW r \in Runs, NEW i \in 1 .. Len(Steps(r)), NEW j \in 1 .. Len(Steps(r)),
         Steps(r)[i] = Steps(r)[j]
  PROVE  i = j
<1>1. CASE Version[r] = "v0.9.4"
  BY <1>1, StepsLength DEF Steps, CandidateFile
<1>2. CASE Version[r] = "v0.9.3"
  BY <1>2, StepsLength DEF Steps, CandidateFile
<1>3. CASE Version[r] = "v0.9.2"
  BY <1>3, StepsLength DEF Steps, CandidateFile
<1> QED
  BY <1>1, <1>2, <1>3 DEF Versions

LEMMA StepsAreFiles ==
  ASSUME NEW r \in Runs, NEW i \in 1 .. Len(Steps(r))
  PROVE  Steps(r)[i] \in Files
<1>1. FrozenFiles = {"baseline_logistic", "baseline_calibrator", "candidate_calibrator",
                     "candidate_catboost"}
  BY DEF FrozenFiles, Frozen
<1>2. CASE Version[r] = "v0.9.4"
  BY <1>1, <1>2, StepsLength DEF Steps, CandidateFile, Files
<1>3. CASE Version[r] = "v0.9.3"
  BY <1>1, <1>3, StepsLength DEF Steps, CandidateFile, Files
<1>4. CASE Version[r] = "v0.9.2"
  BY <1>1, <1>4, StepsLength DEF Steps, CandidateFile, Files
<1> QED
  BY <1>2, <1>3, <1>4 DEF Versions

LEMMA FrozenAreFiles ==
  /\ FrozenFiles = {"baseline_logistic", "baseline_calibrator", "candidate_calibrator",
                    "candidate_catboost"}
  /\ FrozenFiles \subseteq Files
  /\ \A i \in 1 .. 4 : Frozen[i] \in FrozenFiles
  /\ \A f \in FrozenFiles : \E i \in 1 .. 4 : Frozen[i] = f
  /\ \A i, j \in 1 .. 4 : Frozen[i] = Frozen[j] => i = j
BY DEF FrozenFiles, Frozen, Files

\* What a transfer reads comes before the metrics in the order of the run, and
\* only CatBoost runs since v0.9.3 write what it loads.
LEMMA MetricsComeLate ==
  ASSUME NEW r \in Runs
  PROVE  /\ \A i \in 1 .. Len(Steps(r)) : Steps(r)[i] = "metrics" => i = MetricsStep(r)
         /\ \A f \in {"baseline_logistic", "baseline_calibrator", "candidate_calibrator",
                       CandidateFile(r)} :
              \E i \in 1 .. Len(Steps(r)) : i < MetricsStep(r) /\ Steps(r)[i] = f
         /\ Version[r] # "v0.9.2" =>
              \E i \in 1 .. Len(Steps(r)) : i < MetricsStep(r) /\ Steps(r)[i] = "metadata"
         /\ \A i \in 1 .. Len(Steps(r)) :
              Steps(r)[i] = "candidate_catboost" => r \in CatBoost /\ Version[r] # "v0.9.2"
<1>1. CASE Version[r] = "v0.9.4"
  <2>1. Len(Steps(r)) = 9 /\ MetricsStep(r) = 7
    BY <1>1, StepsLength DEF MetricsStep
  <2>2. /\ Steps(r)[2] = "baseline_logistic" /\ Steps(r)[3] = "baseline_calibrator"
        /\ Steps(r)[4] = "candidate_calibrator" /\ Steps(r)[5] = CandidateFile(r)
        /\ Steps(r)[6] = "metadata"
    BY <1>1 DEF Steps
  <2>3. \A i \in 1 .. 9 : Steps(r)[i] = "metrics" => i = 7
    BY <1>1 DEF Steps, CandidateFile
  <2>4. \A i \in 1 .. 9 : Steps(r)[i] = "candidate_catboost" => r \in CatBoost
    BY <1>1 DEF Steps, CandidateFile
  <2> QED
    BY <1>1, <2>1, <2>2, <2>3, <2>4
<1>2. CASE Version[r] = "v0.9.3"
  <2>1. Len(Steps(r)) = 8 /\ MetricsStep(r) = 7
    BY <1>2, StepsLength DEF MetricsStep
  <2>2. /\ Steps(r)[1] = "baseline_logistic" /\ Steps(r)[2] = "baseline_calibrator"
        /\ Steps(r)[3] = "candidate_calibrator" /\ Steps(r)[4] = CandidateFile(r)
        /\ Steps(r)[5] = "metadata"
    BY <1>2 DEF Steps
  <2>3. \A i \in 1 .. 8 : Steps(r)[i] = "metrics" => i = 7
    BY <1>2 DEF Steps, CandidateFile
  <2>4. \A i \in 1 .. 8 : Steps(r)[i] = "candidate_catboost" => r \in CatBoost
    BY <1>2 DEF Steps, CandidateFile
  <2> QED
    BY <1>2, <2>1, <2>2, <2>3, <2>4
<1>3. CASE Version[r] = "v0.9.2"
  <2>1. Len(Steps(r)) = 7 /\ MetricsStep(r) = 6
    BY <1>3, StepsLength DEF MetricsStep
  <2>2. /\ Steps(r)[1] = "baseline_logistic" /\ Steps(r)[2] = "baseline_calibrator"
        /\ Steps(r)[3] = "candidate_calibrator" /\ Steps(r)[4] = CandidateFile(r)
    BY <1>3 DEF Steps
  <2>3. \A i \in 1 .. 7 : Steps(r)[i] = "metrics" => i = 6
    BY <1>3 DEF Steps, CandidateFile
  <2>4. \A i \in 1 .. 7 : Steps(r)[i] # "candidate_catboost"
    BY <1>3 DEF Steps, CandidateFile
  <2> QED
    BY <1>3, <2>1, <2>2, <2>3, <2>4
<1> QED
  BY <1>1, <1>2, <1>3 DEF Versions

\* RunsInv in three parts: types, directories, transfers.
DirsInv ==
  /\ \A r, s \in Runs : dir[r] = dir[s] /\ dir[r] # None => r = s
  /\ \A r \in Runs : alive[r] \/ writing[r] \/ step[r] > 1 => dir[r] # None
  /\ \A r \in Runs : step[r] <= Len(Steps(r)) + 1 /\ (writing[r] => step[r] <= Len(Steps(r)))
  /\ \A r \in Runs : \A i \in 1 .. Len(Steps(r)) :
       dir[r] # None /\ i < step[r] => file[dir[r]][Steps(r)[i]] = r
  /\ \A d \in Dirs : \A f \in Files : \A r \in Runs :
       file[d][f] = r =>
         dir[r] = d /\ \E i \in 1 .. Len(Steps(r)) : i < step[r] /\ Steps(r)[i] = f
  /\ \A d \in Dirs : \A f \in Files :
       file[d][f] # None =>
         \E r \in Runs : dir[r] = d /\ \E i \in 1 .. Len(Steps(r)) : Steps(r)[i] = f

TransferInv(t) ==
  /\ pc[t] \in {"check", "load", "hash", "reported"} =>
       /\ source[t] \in Dirs
       /\ config[t] \in Runs
       /\ dir[config[t]] = source[t]
       /\ step[config[t]] > MetricsStep(config[t])
  /\ pc[t] \in {"load", "hash", "reported"} =>
       config[t] \in CatBoost /\ Version[config[t]] # "v0.9.2"
  /\ pc[t] \in {"idle", "check"} => at[t] = 1
  /\ pc[t] = "load" => \A i \in 1 .. 4 : i < at[t] => loaded[t][Frozen[i]] = config[t]
  /\ pc[t] \in {"hash", "reported"} =>
       /\ provenance[t] = config[t]
       /\ \A i \in 1 .. 4 : loaded[t][Frozen[i]] = config[t]
  /\ pc[t] = "hash" => \A i \in 1 .. 4 : i < at[t] => hashed[t][Frozen[i]] = config[t]
  /\ pc[t] = "reported" => \A i \in 1 .. 4 : hashed[t][Frozen[i]] = config[t]

LEMMA Parts == RunsInv <=> TypeOK /\ DirsInv /\ \A t \in Transfers : TransferInv(t)
BY DEF RunsInv, DirsInv, TransferInv

\* The source directory of a transfer keeps what the transfer reads.
LEMMA SourceHolds ==
  ASSUME TypeOK, DirsInv, NEW t \in Transfers, TransferInv(t), pc[t] \in {"load", "hash"}
  PROVE  /\ file[source[t]]["metadata"] = config[t]
         /\ \A i \in 1 .. 4 : file[source[t]][Frozen[i]] = config[t]
<1> DEFINE r == config[t]
<1>1. /\ r \in Runs /\ r \in CatBoost /\ Version[r] # "v0.9.2"
      /\ dir[r] = source[t] /\ source[t] \in Dirs /\ step[r] > MetricsStep(r)
  BY DEF TransferInv
<1>2. \A i \in 1 .. Len(Steps(r)) : i < step[r] => file[source[t]][Steps(r)[i]] = r
  BY <1>1 DEF DirsInv
<1>3. step[r] \in 1 .. 10 /\ MetricsStep(r) \in Int
  BY <1>1, StepsLength DEF TypeOK
<1>4. \A f \in {"baseline_logistic", "baseline_calibrator", "candidate_calibrator",
                "candidate_catboost", "metadata"} :
        \E i \in 1 .. Len(Steps(r)) : i < MetricsStep(r) /\ Steps(r)[i] = f
  BY <1>1, MetricsComeLate DEF CandidateFile
<1> HIDE DEF r
<1>5. \A f \in {"baseline_logistic", "baseline_calibrator", "candidate_calibrator",
                "candidate_catboost", "metadata"} : file[source[t]][f] = r
  <2> SUFFICES ASSUME NEW f \in {"baseline_logistic", "baseline_calibrator",
                                 "candidate_calibrator", "candidate_catboost", "metadata"}
               PROVE  file[source[t]][f] = r
    OBVIOUS
  <2>1. PICK i \in 1 .. Len(Steps(r)) : i < MetricsStep(r) /\ Steps(r)[i] = f
    BY <1>4
  <2>2. i < step[r]
    <3>1. i \in Int
      OBVIOUS
    <3> QED
      BY <3>1, <2>1, <1>1, <1>3
  <2> QED
    BY <2>1, <2>2, <1>2
<1> QED
  BY <1>5, FrozenAreFiles DEF r

LEMMA InitRuns == Init => RunsInv
<1> SUFFICES ASSUME Init
             PROVE  RunsInv
  OBVIOUS
<1>1. TypeOK
  BY DEF Init, TypeOK, NoModels
<1>2. DirsInv
  BY StepsAreFiles DEF Init, DirsInv
<1>3. ASSUME NEW t \in Transfers
      PROVE  TransferInv(t)
  BY DEF Init, TransferInv
<1> QED
  BY <1>1, <1>2, <1>3, Parts

\* A training step leaves the transfers' conditions as they are.
LEMMA TransfersUnmoved ==
  ASSUME TypeOK, NEW t \in Transfers, TransferInv(t), UNCHANGED transfer,
         \A r \in Runs : dir[r] # None => dir'[r] = dir[r] /\ step'[r] >= step[r],
         TypeOK'
  PROVE  TransferInv(t)'
<1>1. /\ source' = source /\ config' = config /\ pc' = pc /\ at' = at
      /\ loaded' = loaded /\ hashed' = hashed /\ provenance' = provenance
  BY DEF transfer
<1>2. \A r \in Runs : step[r] \in Int /\ step'[r] \in Int
  <2>1. step \in [Runs -> 1 .. 10] /\ step' \in [Runs -> 1 .. 10]
    BY DEF TypeOK
  <2> QED
    BY <2>1
<1>3. pc[t] \in {"check", "load", "hash", "reported"} =>
        dir'[config[t]] = source[t] /\ step'[config[t]] > MetricsStep(config[t])
  <2> SUFFICES ASSUME pc[t] \in {"check", "load", "hash", "reported"}
               PROVE  dir'[config[t]] = source[t] /\ step'[config[t]] > MetricsStep(config[t])
    OBVIOUS
  <2>1. /\ config[t] \in Runs /\ dir[config[t]] = source[t] /\ source[t] \in Dirs
        /\ step[config[t]] > MetricsStep(config[t]) /\ MetricsStep(config[t]) \in Int
    BY StepsLength DEF TransferInv
  <2>2. dir'[config[t]] = dir[config[t]] /\ step'[config[t]] >= step[config[t]]
    BY <2>1, DirsAssumption
  <2> QED
    BY <2>1, <2>2, <1>2
<1> QED
  BY <1>1, <1>3 DEF TransferInv

LEMMA StartKeeps ==
  ASSUME ~Reuse, RunsInv, NEW r \in Runs, NEW d \in Dirs, Start(r, d)
  PROVE  RunsInv'
<1>1. TypeOK /\ DirsInv /\ \A t \in Transfers : TransferInv(t)
  BY Parts
<1>2. /\ dir[r] = None /\ dir' = [dir EXCEPT ![r] = d] /\ \A s \in Runs : dir[s] # d
      /\ alive' = [alive EXCEPT ![r] = TRUE]
      /\ file' = file /\ step' = step /\ writing' = writing /\ UNCHANGED transfer
  BY DEF Start
<1>3. TypeOK'
  BY <1>1, <1>2 DEF TypeOK, transfer
<1>4. \A s \in Runs : dir'[s] = IF s = r THEN d ELSE dir[s]
  BY <1>1, <1>2 DEF TypeOK
<1>5. step[r] = 1 /\ ~writing[r] /\ \A s \in Runs : step[s] \in 1 .. 10
  <2>1. step \in [Runs -> 1 .. 10]
    BY <1>1 DEF TypeOK
  <2>2. ~writing[r] /\ ~(step[r] > 1)
    BY <1>1, <1>2 DEF DirsInv
  <2> QED
    BY <2>1, <2>2
<1>6. DirsInv'
  <2>1. \A s, u \in Runs : dir'[s] = dir'[u] /\ dir'[s] # None => s = u
    BY <1>1, <1>2, <1>4 DEF DirsInv
  <2>2. \A s \in Runs : alive'[s] \/ writing'[s] \/ step'[s] > 1 => dir'[s] # None
    BY <1>1, <1>2, <1>4 DEF DirsInv, TypeOK
  <2>3. \A s \in Runs : \A i \in 1 .. Len(Steps(s)) :
          dir'[s] # None /\ i < step'[s] => file'[dir'[s]][Steps(s)[i]] = s
    BY <1>1, <1>2, <1>4, <1>5 DEF DirsInv
  <2>4. \A e \in Dirs : \A f \in Files : \A s \in Runs :
          file'[e][f] = s =>
            dir'[s] = e /\ \E i \in 1 .. Len(Steps(s)) : i < step'[s] /\ Steps(s)[i] = f
    BY <1>1, <1>2, <1>4 DEF DirsInv
  <2>5. \A e \in Dirs : \A f \in Files :
          file'[e][f] # None =>
            \E s \in Runs : dir'[s] = e /\ \E i \in 1 .. Len(Steps(s)) : Steps(s)[i] = f
    BY <1>1, <1>2, <1>4 DEF DirsInv
  <2>6. \A s \in Runs : step'[s] <= Len(Steps(s)) + 1 /\ (writing'[s] => step'[s] <= Len(Steps(s)))
    BY <1>1, <1>2 DEF DirsInv
  <2> QED
    BY <2>1, <2>2, <2>3, <2>4, <2>5, <2>6 DEF DirsInv
<1>7. \A s \in Runs : dir[s] # None => dir'[s] = dir[s] /\ step'[s] >= step[s]
  BY <1>2, <1>4, <1>5
<1>8. ASSUME NEW t \in Transfers
      PROVE  TransferInv(t)'
  BY <1>1, <1>2, <1>3, <1>7, TransfersUnmoved
<1>9. (TypeOK /\ DirsInv /\ \A t \in Transfers : TransferInv(t))'
  BY <1>3, <1>6, <1>8
<1> QED
  BY <1>9, Parts, PTL

\* What both halves of a write do: file v at the run's step, which is Torn or
\* the run itself.
LEMMA WriteKeepsDirs ==
  ASSUME TypeOK, DirsInv, NEW r \in Runs, dir[r] # None, step[r] <= Len(Steps(r)),
         NEW v \in {Torn, r},
         \A e \in Dirs : \A g \in Files :
            file'[e][g] = IF e = dir[r] /\ g = Steps(r)[step[r]] THEN v ELSE file[e][g],
         dir' = dir, alive' = alive,
         \A s \in Runs : step'[s] = IF s = r /\ v = r THEN step[s] + 1 ELSE step[s],
         \A s \in Runs : writing'[s] => IF s = r THEN v = Torn ELSE writing[s]
  PROVE  DirsInv'
<1> DEFINE d == dir[r]
           k == step[r]
           f == Steps(r)[k]
<1>1. d \in Dirs /\ k \in 1 .. Len(Steps(r)) /\ f \in Files
  <2>1. d \in Dirs /\ k \in 1 .. 10
    BY DEF TypeOK
  <2>2. k \in 1 .. Len(Steps(r))
    BY <2>1, StepsLength
  <2> QED
    BY <2>1, <2>2, StepsAreFiles
<1>2. \A e \in Dirs : \A g \in Files :
        file'[e][g] = IF e = d /\ g = f THEN v ELSE file[e][g]
  OBVIOUS
<1>3. \A s \in Runs : /\ step[s] \in 1 .. 10 /\ step'[s] \in Int /\ step[s] <= step'[s]
                      /\ s # r => step'[s] = step[s]
                      /\ v = r => step'[r] = k + 1
                      /\ v = Torn => step'[s] = step[s]
  <2>1. step \in [Runs -> 1 .. 10]
    BY DEF TypeOK
  <2> QED
    BY <2>1, <1>1, RunsAssumption
<1>4. \A s \in Runs : dir[s] \in Dirs \cup {None}
  BY DEF TypeOK
<1>5. \A s \in Runs : s # r => dir[s] # d
  BY DEF DirsInv
<1> HIDE DEF d, k, f
<1>6. \A s \in Runs : alive'[s] \/ writing'[s] \/ step'[s] > 1 => dir'[s] # None
  BY <1>3 DEF DirsInv
<1>7. \A s \in Runs : step'[s] <= Len(Steps(s)) + 1 /\ (writing'[s] => step'[s] <= Len(Steps(s)))
  <2> SUFFICES ASSUME NEW s \in Runs
               PROVE  /\ step'[s] <= Len(Steps(s)) + 1
                      /\ writing'[s] => step'[s] <= Len(Steps(s))
    OBVIOUS
  <2>1. CASE s = r
    <3>1. Len(Steps(r)) \in Int /\ k <= Len(Steps(r))
      BY <1>1, StepsLength
    <3>2. step'[r] = k + 1 \/ step'[r] = k
      BY <1>3 DEF k
    <3>3. writing'[r] => step'[r] = k
      BY <1>3 DEF k
    <3> QED
      BY <2>1, <3>1, <3>2, <3>3, <1>1
  <2>2. CASE s # r
    BY <2>2, <1>3 DEF DirsInv
  <2> QED
    BY <2>1, <2>2
<1>8. \A s \in Runs : \A i \in 1 .. Len(Steps(s)) :
        dir'[s] # None /\ i < step'[s] => file'[dir'[s]][Steps(s)[i]] = s
  <2> SUFFICES ASSUME NEW s \in Runs, NEW i \in 1 .. Len(Steps(s)), dir[s] # None,
                      i < step'[s]
               PROVE  file'[dir[s]][Steps(s)[i]] = s
    OBVIOUS
  <2>1. dir[s] \in Dirs /\ Steps(s)[i] \in Files
    BY <1>4, StepsAreFiles
  <2>2. CASE s # r
    <3>1. i < step[s] /\ dir[s] # d
      BY <2>2, <1>3, <1>5
    <3>2. file[dir[s]][Steps(s)[i]] = s
      BY <3>1 DEF DirsInv
    <3> QED
      BY <2>1, <3>1, <3>2, <1>2
  <2>3. CASE s = r /\ i = k
    <3>1. v = r
      BY <2>3, <1>1, <1>3 DEF k
    <3> QED
      BY <2>1, <2>3, <3>1, <1>2 DEF d, f
  <2>4. CASE s = r /\ i # k
    <3>1. Steps(s)[i] # f
      BY <2>4, <1>1, StepsDistinct DEF f
    <3>2. i < step[s]
      BY <2>4, <1>1, <1>3 DEF k
    <3>3. file[dir[s]][Steps(s)[i]] = s
      BY <3>2 DEF DirsInv
    <3> QED
      BY <2>1, <3>1, <3>3, <1>2
  <2> QED
    BY <2>2, <2>3, <2>4
<1>9. \A e \in Dirs : \A g \in Files : \A s \in Runs :
        file'[e][g] = s =>
          dir'[s] = e /\ \E i \in 1 .. Len(Steps(s)) : i < step'[s] /\ Steps(s)[i] = g
  <2> SUFFICES ASSUME NEW e \in Dirs, NEW g \in Files, NEW s \in Runs, file'[e][g] = s
               PROVE  dir[s] = e /\ \E i \in 1 .. Len(Steps(s)) : i < step'[s] /\ Steps(s)[i] = g
    OBVIOUS
  <2>1. CASE e = d /\ g = f
    <3>1. v = r /\ s = r
      BY <2>1, <1>2
    <3>2. k < step'[r] /\ Steps(r)[k] = g
      BY <2>1, <3>1, <1>1, <1>3 DEF f
    <3> QED
      BY <2>1, <3>1, <3>2, <1>1 DEF d
  <2>2. CASE ~(e = d /\ g = f)
    <3>1. file[e][g] = s
      BY <2>2, <1>2
    <3>2. dir[s] = e /\ \E i \in 1 .. Len(Steps(s)) : i < step[s] /\ Steps(s)[i] = g
      BY <3>1 DEF DirsInv
    <3>3. Len(Steps(s)) \in Int
      BY StepsLength
    <3> QED
      BY <3>2, <3>3, <1>3
  <2> QED
    BY <2>1, <2>2
<1>10. \A e \in Dirs : \A g \in Files :
         file'[e][g] # None =>
           \E s \in Runs : dir'[s] = e /\ \E i \in 1 .. Len(Steps(s)) : Steps(s)[i] = g
  <2> SUFFICES ASSUME NEW e \in Dirs, NEW g \in Files, file'[e][g] # None
               PROVE  \E s \in Runs : dir[s] = e /\ \E i \in 1 .. Len(Steps(s)) : Steps(s)[i] = g
    OBVIOUS
  <2>1. CASE e = d /\ g = f
    BY <2>1, <1>1 DEF d, f
  <2>2. CASE ~(e = d /\ g = f)
    BY <2>2, <1>2 DEF DirsInv
  <2> QED
    BY <2>1, <2>2
<1> QED
  BY <1>6, <1>7, <1>8, <1>9, <1>10 DEF DirsInv

LEMMA WriteKeeps ==
  ASSUME RunsInv, NEW r \in Runs, BeginWrite(r) \/ EndWrite(r)
  PROVE  RunsInv'
<1>1. TypeOK /\ DirsInv /\ \A t \in Transfers : TransferInv(t)
  BY Parts
<1>2. /\ dir[r] # None /\ dir[r] \in Dirs /\ step[r] \in 1 .. Len(Steps(r))
      /\ step[r] \in 1 .. 9 /\ Steps(r)[step[r]] \in Files
      /\ dir' = dir /\ alive' = alive /\ UNCHANGED transfer
  <2>1. alive[r] /\ step[r] <= Len(Steps(r)) /\ dir' = dir /\ alive' = alive /\ UNCHANGED transfer
    BY <1>1 DEF BeginWrite, EndWrite, DirsInv
  <2>2. dir[r] # None
    BY <1>1, <2>1 DEF DirsInv
  <2>3. dir[r] \in Dirs /\ step[r] \in 1 .. 10
    BY <1>1, <2>1, <2>2 DEF TypeOK
  <2>4. step[r] \in 1 .. Len(Steps(r)) /\ step[r] \in 1 .. 9
    <3> DEFINE n == Len(Steps(r))
               k == step[r]
    <3>1. k \in 1 .. 10 /\ k <= n
      BY <2>1, <2>3
    <3>2. n \in 7 .. 9
      BY StepsLength
    <3> HIDE DEF n, k
    <3>3. k \in 1 .. n /\ k \in 1 .. 9
      BY <3>1, <3>2
    <3> QED
      BY <3>3 DEF n, k
  <2> QED
    BY <2>1, <2>2, <2>3, <2>4, StepsAreFiles
<1>3. CASE BeginWrite(r)
  <2>1. /\ file' = [file EXCEPT ![dir[r]][Steps(r)[step[r]]] = Torn]
        /\ writing' = [writing EXCEPT ![r] = TRUE] /\ step' = step
    BY <1>3 DEF BeginWrite
  <2>2. TypeOK'
    BY <1>1, <1>2, <2>1 DEF TypeOK, transfer
  <2>3. DirsInv'
    <3>1. \A e \in Dirs : \A g \in Files :
            file'[e][g] = IF e = dir[r] /\ g = Steps(r)[step[r]] THEN Torn ELSE file[e][g]
      <4>1. file \in [Dirs -> [Files -> Runs \cup {None, Torn}]]
        BY <1>1 DEF TypeOK
      <4> QED
        BY <4>1, <1>2, <2>1
    <3>2. \A s \in Runs : step'[s] = IF s = r /\ Torn = r THEN step[s] + 1 ELSE step[s]
      <4>1. step \in [Runs -> 1 .. 10]
        BY <1>1 DEF TypeOK
      <4> QED
        BY <4>1, <2>1, RunsAssumption
    <3>3. \A s \in Runs : writing'[s] => IF s = r THEN Torn = Torn ELSE writing[s]
      <4>1. writing \in [Runs -> BOOLEAN]
        BY <1>1 DEF TypeOK
      <4> QED
        BY <4>1, <2>1
    <3>4. step[r] <= Len(Steps(r))
      BY <1>3 DEF BeginWrite
    <3> QED
      BY <1>1, <1>2, <3>1, <3>2, <3>3, <3>4, WriteKeepsDirs
  <2>4. \A s \in Runs : dir[s] # None => dir'[s] = dir[s] /\ step'[s] >= step[s]
    <3>1. step \in [Runs -> 1 .. 10]
      BY <1>1 DEF TypeOK
    <3> QED
      BY <3>1, <1>2, <2>1
  <2>5. ASSUME NEW t \in Transfers
        PROVE  TransferInv(t)'
    BY <1>1, <1>2, <2>2, <2>4, TransfersUnmoved
  <2>6. (TypeOK /\ DirsInv /\ \A t \in Transfers : TransferInv(t))'
    BY <2>2, <2>3, <2>5
  <2> QED
    BY <2>6, Parts, PTL
<1>4. CASE EndWrite(r)
  <2>1. /\ file' = [file EXCEPT ![dir[r]][Steps(r)[step[r]]] = r]
        /\ writing' = [writing EXCEPT ![r] = FALSE]
        /\ step' = [step EXCEPT ![r] = @ + 1]
    BY <1>4 DEF EndWrite
  <2>2. TypeOK'
    BY <1>1, <1>2, <2>1 DEF TypeOK, transfer
  <2>4. DirsInv'
    <3>1. \A e \in Dirs : \A g \in Files :
            file'[e][g] = IF e = dir[r] /\ g = Steps(r)[step[r]] THEN r ELSE file[e][g]
      <4>1. file \in [Dirs -> [Files -> Runs \cup {None, Torn}]]
        BY <1>1 DEF TypeOK
      <4> QED
        BY <4>1, <1>2, <2>1
    <3>2. \A s \in Runs : step'[s] = IF s = r /\ r = r THEN step[s] + 1 ELSE step[s]
      <4>1. step \in [Runs -> 1 .. 10]
        BY <1>1 DEF TypeOK
      <4> QED
        BY <4>1, <2>1, RunsAssumption
    <3>3. \A s \in Runs : writing'[s] => IF s = r THEN r = Torn ELSE writing[s]
      <4>1. writing \in [Runs -> BOOLEAN]
        BY <1>1 DEF TypeOK
      <4> QED
        BY <4>1, <2>1
    <3>4. step[r] <= Len(Steps(r))
      BY <1>1, <1>4 DEF DirsInv, EndWrite
    <3> QED
      BY <1>1, <1>2, <3>1, <3>2, <3>3, <3>4, WriteKeepsDirs
  <2>5. \A s \in Runs : dir[s] # None => dir'[s] = dir[s] /\ step'[s] >= step[s]
    <3>1. step \in [Runs -> 1 .. 10]
      BY <1>1 DEF TypeOK
    <3> QED
      BY <3>1, <1>2, <2>1
  <2>6. ASSUME NEW t \in Transfers
        PROVE  TransferInv(t)'
    BY <1>1, <1>2, <2>2, <2>5, TransfersUnmoved
  <2>7. (TypeOK /\ DirsInv /\ \A t \in Transfers : TransferInv(t))'
    BY <2>2, <2>4, <2>6
  <2> QED
    BY <2>7, Parts, PTL
<1> QED
  BY <1>3, <1>4

LEMMA StopKeeps ==
  ASSUME RunsInv, NEW r \in Runs, Stop(r)
  PROVE  RunsInv'
BY DEF RunsInv, TypeOK, Stop, transfer

\* A step of transfer t: the directories and the other transfers do not move.
LEMMA TransferSteps ==
  ASSUME RunsInv, UNCHANGED training, TypeOK', NEW u \in Transfers, TransferInv(u)',
         \A t \in Transfers : t # u =>
            /\ source'[t] = source[t] /\ config'[t] = config[t] /\ pc'[t] = pc[t]
            /\ at'[t] = at[t] /\ loaded'[t] = loaded[t] /\ hashed'[t] = hashed[t]
            /\ provenance'[t] = provenance[t]
  PROVE  RunsInv'
<1>1. TypeOK /\ DirsInv /\ \A t \in Transfers : TransferInv(t)
  BY Parts
<1>2. DirsInv'
  BY <1>1 DEF DirsInv, training
<1>3. ASSUME NEW t \in Transfers
      PROVE  TransferInv(t)'
  <2>1. CASE t = u
    BY <2>1
  <2>2. CASE t # u
    BY <2>2, <1>1 DEF TransferInv, training
  <2> QED
    BY <2>1, <2>2
<1>4. (TypeOK /\ DirsInv /\ \A t \in Transfers : TransferInv(t))'
  BY <1>2, <1>3
<1> QED
  BY <1>4 DEF RunsInv, DirsInv, TransferInv

LEMMA TransferTypes ==
  ASSUME TypeOK, NEW u \in Transfers, NEW d \in Dirs, NEW v,
         \/ ReadMetrics(u, d, v) \/ NoMetrics(u, d, v) \/ CheckModels(u) \/ ModelsMissing(u)
         \/ Report(u) \/ StopTransfer(u)
  PROVE  /\ TypeOK'
         /\ UNCHANGED <<training, at, loaded, hashed, provenance>>
         /\ \A t \in Transfers : t # u =>
               source'[t] = source[t] /\ config'[t] = config[t] /\ pc'[t] = pc[t]
<1>1. /\ source \in [Transfers -> Dirs \cup {None}] /\ config \in [Transfers -> Runs \cup {None}]
      /\ pc \in [Transfers -> {"idle", "check", "load", "hash", "reported", "failed"}]
  BY DEF TypeOK
<1>2. CASE ReadMetrics(u, d, v)
  <2>1. /\ source' = [source EXCEPT ![u] = d] /\ pc' = [pc EXCEPT ![u] = "check"]
        /\ config' = [config EXCEPT ![u] = file[d]["metrics"]] /\ file[d]["metrics"] \in Runs
        /\ UNCHANGED <<training, at, loaded, hashed, provenance>>
    BY <1>2 DEF ReadMetrics, Goto
  <2>2. TypeOK'
    BY <2>1 DEF TypeOK, training
  <2> QED
    BY <1>1, <2>1, <2>2
<1>3. CASE ~ReadMetrics(u, d, v)
  <2>1. /\ UNCHANGED <<training, at, loaded, hashed, provenance, source, config>>
        /\ \E where \in {"load", "failed", "reported"} : pc' = [pc EXCEPT ![u] = where]
    BY <1>3 DEF NoMetrics, CheckModels, ModelsMissing, Report, StopTransfer, Goto
  <2>2. TypeOK'
    BY <2>1 DEF TypeOK, training
  <2> QED
    BY <1>1, <2>1, <2>2
<1> QED
  BY <1>2, <1>3

\* The actions that read no model.
LEMMA PlainTransferKeeps ==
  ASSUME RunsInv, NEW u \in Transfers, NEW d \in Dirs, NEW v,
         \/ ReadMetrics(u, d, v) \/ NoMetrics(u, d, v) \/ CheckModels(u) \/ ModelsMissing(u)
         \/ Report(u) \/ StopTransfer(u)
  PROVE  RunsInv'
<1>1. TypeOK /\ DirsInv /\ TransferInv(u)
  BY Parts
<1>2. /\ TypeOK'
      /\ UNCHANGED <<training, at, loaded, hashed, provenance>>
      /\ \A t \in Transfers : t # u =>
            source'[t] = source[t] /\ config'[t] = config[t] /\ pc'[t] = pc[t]
  BY <1>1, TransferTypes
<1> SUFFICES TransferInv(u)'
  BY <1>2, TransferSteps
<1>3. /\ source \in [Transfers -> Dirs \cup {None}] /\ config \in [Transfers -> Runs \cup {None}]
      /\ pc \in [Transfers -> {"idle", "check", "load", "hash", "reported", "failed"}]
      /\ at \in [Transfers -> 1 .. 5]
  BY <1>1 DEF TypeOK
<1>4. CASE ReadMetrics(u, d, v)
  <2> DEFINE r == file[d]["metrics"]
  <2>1. /\ r \in Runs /\ source'[u] = d /\ config'[u] = r /\ pc'[u] = "check"
    BY <1>3, <1>4 DEF ReadMetrics, Goto
  <2>2. "metrics" \in Files
    BY DEF Files
  <2>3. dir[r] = d /\ \E i \in 1 .. Len(Steps(r)) : i < step[r] /\ Steps(r)[i] = "metrics"
    BY <1>1, <2>1, <2>2 DEF DirsInv
  <2>4. step[r] > MetricsStep(r)
    BY <2>1, <2>3, MetricsComeLate
  <2>5. at[u] = 1
    BY <1>1, <1>4 DEF ReadMetrics, TransferInv
  <2> HIDE DEF r
  <2>6. dir' = dir /\ step' = step /\ at' = at
    BY <1>2 DEF training
  <2> QED
    BY <2>1, <2>3, <2>4, <2>5, <2>6 DEF TransferInv
<1>5. CASE CheckModels(u)
  <2>1. /\ pc[u] = "check" /\ pc'[u] = "load" /\ source' = source /\ config' = config
        /\ file[source[u]]["candidate_catboost"] # None
    BY <1>3, <1>5, FrozenAreFiles DEF CheckModels, Goto
  <2>2. /\ source[u] \in Dirs /\ config[u] \in Runs /\ dir[config[u]] = source[u]
        /\ step[config[u]] > MetricsStep(config[u]) /\ at[u] = 1
    BY <1>1, <2>1 DEF TransferInv
  <2>3. PICK r \in Runs : /\ dir[r] = source[u]
                          /\ \E i \in 1 .. Len(Steps(r)) : Steps(r)[i] = "candidate_catboost"
    BY <1>1, <2>1, <2>2, FrozenAreFiles DEF DirsInv
  <2>4. r = config[u] /\ r \in CatBoost /\ Version[r] # "v0.9.2"
    BY <1>1, <2>2, <2>3, MetricsComeLate DEF DirsInv
  <2>5. dir' = dir /\ step' = step /\ at' = at /\ loaded' = loaded
    BY <1>2 DEF training
  <2> QED
    BY <2>1, <2>2, <2>4, <2>5 DEF TransferInv
<1>6. CASE Report(u)
  <2>1. /\ pc[u] = "hash" /\ at[u] = 5 /\ pc'[u] = "reported" /\ source' = source
        /\ config' = config
    BY <1>3, <1>6 DEF Report, Goto
  <2>2. dir' = dir /\ step' = step /\ at' = at /\ loaded' = loaded /\ hashed' = hashed
        /\ provenance' = provenance
    BY <1>2 DEF training
  <2> QED
    BY <1>1, <2>1, <2>2 DEF TransferInv
<1>7. CASE NoMetrics(u, d, v) \/ ModelsMissing(u) \/ StopTransfer(u)
  <2>1. pc'[u] = "failed"
    BY <1>3, <1>7 DEF NoMetrics, ModelsMissing, StopTransfer, Goto
  <2> QED
    BY <2>1 DEF TransferInv
<1> QED
  BY <1>4, <1>5, <1>6, <1>7

LEMMA LoadKeeps ==
  ASSUME RunsInv, NEW u \in Transfers, Load(u)
  PROVE  RunsInv'
<1>1. TypeOK /\ DirsInv /\ TransferInv(u)
  BY Parts
<1>2. /\ loaded \in [Transfers -> [FrozenFiles -> Runs \cup {None}]] /\ at \in [Transfers -> 1 .. 5]
  BY <1>1 DEF TypeOK
<1>3. /\ pc[u] = "load" /\ at[u] \in 1 .. 4 /\ Frozen[at[u]] \in FrozenFiles
      /\ loaded' = [loaded EXCEPT ![u][Frozen[at[u]]] = config[u]]
      /\ config[u] \in Runs /\ at' = [at EXCEPT ![u] = @ + 1]
      /\ UNCHANGED <<training, source, config, pc, hashed, provenance>>
  <2>1. pc[u] = "load" /\ at[u] \in 1 .. 4 /\ config[u] \in Runs
    BY <1>1, <1>2 DEF Load, TransferInv
  <2>2. file[source[u]][Frozen[at[u]]] = config[u]
    BY <1>1, <2>1, SourceHolds
  <2> QED
    BY <2>1, <2>2, FrozenAreFiles DEF Load
<1>4. TypeOK'
  BY <1>1, <1>3 DEF TypeOK, training
<1>5. TransferInv(u)'
  <2>1. \A i \in 1 .. 4 : i < at'[u] => loaded'[u][Frozen[i]] = config[u]
    <3> SUFFICES ASSUME NEW i \in 1 .. 4, i < at'[u]
                 PROVE  loaded'[u][Frozen[i]] = config[u]
      OBVIOUS
    <3>1. i < at[u] \/ i = at[u]
      BY <1>2, <1>3
    <3>2. i < at[u] => loaded[u][Frozen[i]] = config[u]
      BY <1>1, <1>3 DEF TransferInv
    <3>3. loaded'[u][Frozen[i]] = IF Frozen[i] = Frozen[at[u]] THEN config[u]
                                  ELSE loaded[u][Frozen[i]]
      BY <1>2, <1>3, FrozenAreFiles
    <3> QED
      BY <3>1, <3>2, <3>3
  <2> QED
    BY <1>1, <1>3, <2>1 DEF TransferInv, training
<1>6. UNCHANGED training /\ \A t \in Transfers : t # u =>
         /\ source'[t] = source[t] /\ config'[t] = config[t] /\ pc'[t] = pc[t]
         /\ at'[t] = at[t] /\ loaded'[t] = loaded[t] /\ hashed'[t] = hashed[t]
         /\ provenance'[t] = provenance[t]
  BY <1>2, <1>3
<1> QED
  BY <1>4, <1>5, <1>6, TransferSteps

LEMMA ReadMetadataKeeps ==
  ASSUME RunsInv, NEW u \in Transfers, ReadMetadata(u)
  PROVE  RunsInv'
<1>1. TypeOK /\ DirsInv /\ TransferInv(u)
  BY Parts
<1>2. /\ provenance \in [Transfers -> Runs \cup {None}] /\ at \in [Transfers -> 1 .. 5]
      /\ pc \in [Transfers -> {"idle", "check", "load", "hash", "reported", "failed"}]
  BY <1>1 DEF TypeOK
<1>3. /\ pc[u] = "load" /\ at[u] = 5 /\ config[u] \in Runs
      /\ provenance' = [provenance EXCEPT ![u] = config[u]]
      /\ at' = [at EXCEPT ![u] = 1] /\ pc' = [pc EXCEPT ![u] = "hash"]
      /\ UNCHANGED <<training, source, config, loaded, hashed>>
  <2>1. pc[u] = "load" /\ at[u] = 5 /\ config[u] \in Runs
    BY <1>1, <1>2 DEF ReadMetadata, TransferInv
  <2>2. file[source[u]]["metadata"] = config[u]
    BY <1>1, <2>1, SourceHolds
  <2> QED
    BY <2>1, <2>2 DEF ReadMetadata, Goto
<1>4. TypeOK'
  BY <1>1, <1>3 DEF TypeOK, training
<1>5. TransferInv(u)'
  <2>1. pc'[u] = "hash" /\ at'[u] = 1 /\ provenance'[u] = config[u]
    BY <1>2, <1>3
  <2>2. \A i \in 1 .. 4 : loaded[u][Frozen[i]] = config[u]
    BY <1>1, <1>3 DEF TransferInv
  <2> QED
    BY <1>1, <1>3, <2>1, <2>2 DEF TransferInv, training
<1>6. UNCHANGED training /\ \A t \in Transfers : t # u =>
         /\ source'[t] = source[t] /\ config'[t] = config[t] /\ pc'[t] = pc[t]
         /\ at'[t] = at[t] /\ loaded'[t] = loaded[t] /\ hashed'[t] = hashed[t]
         /\ provenance'[t] = provenance[t]
  BY <1>2, <1>3
<1> QED
  BY <1>4, <1>5, <1>6, TransferSteps

LEMMA HashKeeps ==
  ASSUME RunsInv, NEW u \in Transfers, Hash(u)
  PROVE  RunsInv'
<1>1. TypeOK /\ DirsInv /\ TransferInv(u)
  BY Parts
<1>2. /\ hashed \in [Transfers -> [FrozenFiles -> Runs \cup {None, Torn}]]
      /\ at \in [Transfers -> 1 .. 5]
  BY <1>1 DEF TypeOK
<1>3. /\ pc[u] = "hash" /\ at[u] \in 1 .. 4 /\ Frozen[at[u]] \in FrozenFiles
      /\ hashed' = [hashed EXCEPT ![u][Frozen[at[u]]] = config[u]]
      /\ config[u] \in Runs /\ at' = [at EXCEPT ![u] = @ + 1]
      /\ UNCHANGED <<training, source, config, pc, loaded, provenance>>
  <2>1. pc[u] = "hash" /\ at[u] \in 1 .. 4 /\ config[u] \in Runs
    BY <1>1, <1>2 DEF Hash, TransferInv
  <2>2. file[source[u]][Frozen[at[u]]] = config[u]
    BY <1>1, <2>1, SourceHolds
  <2> QED
    BY <2>1, <2>2, FrozenAreFiles DEF Hash
<1>4. TypeOK'
  BY <1>1, <1>3 DEF TypeOK, training
<1>5. TransferInv(u)'
  <2>1. \A i \in 1 .. 4 : i < at'[u] => hashed'[u][Frozen[i]] = config[u]
    <3> SUFFICES ASSUME NEW i \in 1 .. 4, i < at'[u]
                 PROVE  hashed'[u][Frozen[i]] = config[u]
      OBVIOUS
    <3>1. i < at[u] \/ i = at[u]
      BY <1>2, <1>3
    <3>2. i < at[u] => hashed[u][Frozen[i]] = config[u]
      BY <1>1, <1>3 DEF TransferInv
    <3>3. hashed'[u][Frozen[i]] = IF Frozen[i] = Frozen[at[u]] THEN config[u]
                                  ELSE hashed[u][Frozen[i]]
      BY <1>2, <1>3, FrozenAreFiles
    <3> QED
      BY <3>1, <3>2, <3>3
  <2> QED
    BY <1>1, <1>3, <2>1 DEF TransferInv, training
<1>6. UNCHANGED training /\ \A t \in Transfers : t # u =>
         /\ source'[t] = source[t] /\ config'[t] = config[t] /\ pc'[t] = pc[t]
         /\ at'[t] = at[t] /\ loaded'[t] = loaded[t] /\ hashed'[t] = hashed[t]
         /\ provenance'[t] = provenance[t]
  BY <1>2, <1>3
<1> QED
  BY <1>4, <1>5, <1>6, TransferSteps

LEMMA NextRuns ==
  ASSUME ~Reuse
  PROVE  RunsInv /\ [Next]_vars => RunsInv'
<1> SUFFICES ASSUME RunsInv, [Next]_vars
             PROVE  RunsInv'
  OBVIOUS
<1>1. CASE UNCHANGED vars
  BY <1>1 DEF RunsInv, TypeOK, vars, training, transfer
<1>2. ASSUME NEW r \in Runs, NEW d \in Dirs, Start(r, d)
      PROVE  RunsInv'
  BY <1>2, StartKeeps
<1>3. ASSUME NEW r \in Runs, BeginWrite(r) \/ EndWrite(r) \/ Stop(r)
      PROVE  RunsInv'
  BY <1>3, WriteKeeps, StopKeeps
<1>4. ASSUME NEW t \in Transfers, NEW d \in Dirs, NEW v \in {"v0.9.3", "v0.9.4"},
             ReadMetrics(t, d, v) \/ NoMetrics(t, d, v)
      PROVE  RunsInv'
  BY <1>4, PlainTransferKeeps
<1>5. ASSUME NEW t \in Transfers,
             CheckModels(t) \/ ModelsMissing(t) \/ Report(t) \/ StopTransfer(t)
      PROVE  RunsInv'
  <2>1. PICK d \in Dirs : TRUE
    <3>1. TypeOK /\ TransferInv(t)
      BY Parts
    <3>2. pc[t] \in {"check", "load", "hash"}
      BY <1>5 DEF CheckModels, ModelsMissing, Report, StopTransfer
    <3> QED
      BY <3>1, <3>2 DEF TransferInv
  <2> QED
    BY <1>5, <2>1, PlainTransferKeeps
<1>6. ASSUME NEW t \in Transfers, Load(t) \/ ReadMetadata(t) \/ Hash(t)
      PROVE  RunsInv'
  BY <1>6, LoadKeeps, ReadMetadataKeeps, HashKeeps
<1> QED
  BY <1>1, <1>2, <1>3, <1>4, <1>5, <1>6 DEF Next

\* A directory is of one run that has written what comes before its step, and
\* transfers hold what that run wrote: always.
THEOREM RunsInvariant ==
  ASSUME ~Reuse
  PROVE  Spec => []RunsInv
<1> QED
  BY InitRuns, NextRuns, PTL DEF Spec

\* A transfer that reports used, and recorded, the artifacts of one run only,
\* while runs write, die and stop: always.
THEOREM OneRunPerTransfer ==
  ASSUME ~Reuse
  PROVE  Spec => []TransferIsOfOneRun
<1>1. RunsInv => TransferIsOfOneRun
  BY FrozenAreFiles DEF RunsInv, TransferIsOfOneRun
<1> QED
  BY <1>1, RunsInvariant, PTL

\* Where a run's metrics are complete, so are its models and its metadata.
THEOREM MetricsAreEvidence ==
  ASSUME ~Reuse
  PROVE  Spec => []MetricsHaveTheirModels
<1>1. ASSUME RunsInv, NEW d \in Dirs, file[d]["metrics"] \in Runs
      PROVE  LET r == file[d]["metrics"]
             IN  /\ \A f \in {"baseline_logistic", "baseline_calibrator",
                              "candidate_calibrator", CandidateFile(r)} : file[d][f] = r
                 /\ Version[r] # "v0.9.2" => file[d]["metadata"] = r
  <2> DEFINE r == file[d]["metrics"]
  <2>1. TypeOK /\ DirsInv /\ "metrics" \in Files
    BY <1>1, Parts DEF Files
  <2>2. dir[r] = d /\ \E i \in 1 .. Len(Steps(r)) : i < step[r] /\ Steps(r)[i] = "metrics"
    BY <1>1, <2>1 DEF DirsInv
  <2>3. step[r] \in Int /\ MetricsStep(r) \in Int /\ Len(Steps(r)) \in Int
    <3>1. step \in [Runs -> 1 .. 10]
      BY <2>1 DEF TypeOK
    <3> QED
      BY <1>1, <3>1, StepsLength
  <2>4. step[r] > MetricsStep(r)
    BY <1>1, <2>2, MetricsComeLate
  <2>5. \A i \in 1 .. Len(Steps(r)) : i < step[r] => file[d][Steps(r)[i]] = r
    BY <1>1, <2>1, <2>2, DirsAssumption DEF DirsInv
  <2>6. \A f : (\E i \in 1 .. Len(Steps(r)) : i < MetricsStep(r) /\ Steps(r)[i] = f)
                 => file[d][f] = r
    BY <2>3, <2>4, <2>5
  <2> QED
    BY <1>1, <2>6, MetricsComeLate
<1>2. RunsInv => MetricsHaveTheirModels
  BY <1>1 DEF MetricsHaveTheirModels
<1> QED
  BY <1>2, RunsInvariant, PTL

-----------------------------------------------------------------------------
(* The source patch.                                                       *)

\* The programs do what they do without the patch, or less: what is proved of
\* the runs and transfers holds while modeling.py is patched under them.
THEOREM PatchedRunsAreRuns == PatchSpec => Spec
<1>1. PatchInit => Init
  BY DEF PatchInit
<1>2. [PatchNext]_patchVars => [Next]_vars
  <2>1. ASSUME StartPatch \/ WritePatch \/ EndPatch \/ PatcherDies \/ UNCHANGED patchVars
        PROVE  UNCHANGED vars
    BY <2>1 DEF StartPatch, WritePatch, EndPatch, PatcherDies, patchVars
  <2>2. Programs => Next
    BY DEF Programs, Next
  <2> QED
    BY <2>1, <2>2 DEF PatchNext
<1> QED
  BY <1>1, <1>2, PTL DEF PatchSpec, Spec

LEMMA FunctionIsSequence ==
  ASSUME NEW n \in Nat, NEW S, NEW f \in [1 .. n -> S]
  PROVE  f \in Seq(S) /\ Len(f) = n
<1>1. f \in Seq(S)
  BY SeqDef
<1>2. Len(f) \in Nat /\ 1 .. Len(f) = 1 .. n
  BY <1>1, LenProperties
<1> QED
  BY <1>1, <1>2

LEMMA PatchedIsText ==
  /\ Patched \in Seq({"new", "marker"})
  /\ Len(Patched) = 12
  /\ Patched # <<>>
  /\ \A i \in 1 .. 11 : Patched[i] = "new"
  /\ Patched[12] = "marker"
  /\ DOMAIN Patched = 1 .. 12
<1>1. Patched \in [1 .. 12 -> {"new", "marker"}]
  BY DEF Patched
<1>2. Patched \in Seq({"new", "marker"}) /\ Len(Patched) = 12
  <2>1. 12 \in Nat
    OBVIOUS
  <2> QED
    BY <1>1, <2>1, FunctionIsSequence, Zenon
<1>3. Patched # <<>>
  <2> SUFFICES ASSUME Patched = <<>>
               PROVE  FALSE
    OBVIOUS
  <2>1. Len(<<>>) = 0
    BY EmptySeq, Zenon
  <2>2. 12 = 0
    BY <1>2, <2>1, Zenon
  <2> QED
    BY <2>2
<1>4. \A i \in 1 .. 12 : Patched[i] = IF i = 12 THEN "marker" ELSE "new"
  BY DEF Patched
<1>5. \A i \in 1 .. 11 : i \in 1 .. 12 /\ i # 12
  OBVIOUS
<1>6. \A i \in 1 .. 11 : Patched[i] = "new"
  BY <1>4, <1>5
<1>7. Patched[12] = "marker"
  BY <1>4
<1>8. DOMAIN Patched = 1 .. 12
  BY DEF Patched
<1> QED
  BY <1>2, <1>3, <1>6, <1>7, <1>8

\* Texts that the file may hold while it is neither patched nor the original.
LEMMA PartsAreRefused ==
  ASSUME text = original \/ (Len(text) <= 12 /\ \A i \in 1 .. Len(text) : text[i] = Patched[i]),
         original \in Originals, Len(text) \in Nat,
         ~Marked(text), \A i \in Edits : Result(text)[i] # "fails"
  PROVE  text = original /\ original \in Unpatched
<1>1. ASSUME Len(text) <= 12, \A i \in 1 .. Len(text) : text[i] = Patched[i]
      PROVE  FALSE
  <2>1. Len(text) # 12
    <3>1. ASSUME Len(text) = 12
          PROVE  FALSE
      <4>1. 12 \in 1 .. Len(text)
        BY <3>1
      <4>2. text[12] = "marker"
        BY <1>1, <4>1, PatchedIsText
      <4> QED
        BY <4>1, <4>2 DEF Marked
    <3> QED
      BY <3>1
  <2>2. Stretch(text, 11) \in {"missing", "new"}
    <3>1. 11 <= Len(text) => 11 \in 1 .. Len(text) /\ 11 \in 1 .. 11
      OBVIOUS
    <3>2. 11 <= Len(text) => text[11] = "new"
      BY <1>1, <3>1, PatchedIsText
    <3> QED
      BY <3>2 DEF Stretch
  <2>3. Result(text)[11] = Edited("once", Stretch(text, 11))
    BY DEF Result, Kinds
  <2>4. Edited("once", Stretch(text, 11)) = "fails"
    BY <2>2 DEF Edited
  <2> QED
    BY <2>3, <2>4 DEF Edits
<1>2. text = original
  BY <1>1
<1>3. original # Patched
  <2>1. ASSUME original = Patched
        PROVE  FALSE
    BY <1>1, <1>2, <2>1, PatchedIsText
  <2> QED
    BY <2>1
<1> QED
  BY <1>2, <1>3, OriginalsAssumption

\* All edits of a recognized text give the one patched text.
LEMMA ResultIsPatched ==
  ASSUME NEW t \in Unpatched, Len(t) = 11, \A i \in Edits : Result(t)[i] # "fails"
  PROVE  Result(t) = Patched /\ t \in [Edits -> {"old", "new"}]
<1>1. ASSUME NEW i \in Edits
      PROVE  Result(t)[i] = "new" /\ t[i] \in {"old", "new"}
  <2>1. t[i] \in {"old", "new", "other"} /\ (t[i] = "new" => Kinds[i] = "guarded")
    BY DEF Unpatched
  <2>2. Stretch(t, i) = t[i] /\ i # 12
    BY DEF Stretch, Edits
  <2>3. Result(t)[i] = Edited(Kinds[i], t[i])
    BY <2>2 DEF Result, Edits
  <2>4. Edited(Kinds[i], t[i]) # "fails"
    BY <2>3
  <2> QED
    BY <2>1, <2>3, <2>4 DEF Edited
<1>2. Result(t) = Patched
  <2>1. \A i \in 1 .. 12 : Result(t)[i] = Patched[i]
    <3>1. \A i \in 1 .. 12 : i = 12 \/ i \in Edits
      BY DEF Edits
    <3>2. Result(t)[12] = "marker" /\ Patched[12] = "marker"
      BY DEF Result, Patched
    <3>3. \A i \in Edits : Patched[i] = "new"
      BY DEF Patched, Edits
    <3> QED
      BY <1>1, <3>1, <3>2, <3>3
  <2>2. /\ Result(t) = [i \in 1 .. 12 |-> Result(t)[i]]
        /\ Patched = [i \in 1 .. 12 |-> Patched[i]]
    BY DEF Result, Patched
  <2> QED
    BY <2>1, <2>2
<1>3. t \in [Edits -> {"old", "new"}]
  BY <1>1 DEF Unpatched
<1> QED
  BY <1>2, <1>3

\* The file is a sequence of stretches.
TextOK == /\ text \in Seq({"old", "new", "other", "marker"})
          /\ original \in Originals
          /\ patch = <<>> \/ patch = Patched

LEMMA OriginalsAreTexts ==
  ASSUME NEW t \in Originals
  PROVE  /\ t \in Seq({"old", "new", "other", "marker"})
         /\ t \in Unpatched => Len(t) = 11
         /\ t = Patched => Len(t) = 12
<1>1. t \in Unpatched => t \in [1 .. 11 -> {"old", "new", "other", "marker"}]
  BY DEF Unpatched, Edits
<1>2. t = Patched => t \in [1 .. 12 -> {"old", "new", "other", "marker"}]
  BY DEF Patched
<1>3. t \in Unpatched => t \in Seq({"old", "new", "other", "marker"}) /\ Len(t) = 11
  BY <1>1, FunctionIsSequence
<1>4. t = Patched => t \in Seq({"old", "new", "other", "marker"}) /\ Len(t) = 12
  BY <1>2, FunctionIsSequence
<1> QED
  BY <1>3, <1>4, OriginalsAssumption

LEMMA PatchInitially == PatchInit => PatchInv /\ TextOK
BY OriginalsAreTexts DEF PatchInit, PatchInv, PatchIsAllOrNothing, TextOK

LEMMA PatchStep ==
  PatchInv /\ TextOK /\ [PatchNext]_patchVars => PatchInv' /\ TextOK'
<1> SUFFICES ASSUME PatchInv, TextOK, [PatchNext]_patchVars
             PROVE  PatchInv' /\ TextOK'
  OBVIOUS
<1>1. CASE StartPatch
  <2>1. /\ ~Marked(text) /\ \A i \in Edits : Result(text)[i] # "fails"
        /\ patch' = Result(text) /\ text' = <<>> /\ original' = original
    BY <1>1 DEF StartPatch
  <2>2. text = original /\ original \in Unpatched
    <3>1. Len(text) \in Nat
      BY DEF TextOK
    <3> QED
      BY <2>1, <3>1, PartsAreRefused DEF PatchInv, PatchIsAllOrNothing
  <2>3. Len(original) = 11 /\ original \in Originals
    BY <2>2, OriginalsAreTexts DEF PatchInv
  <2>4. patch' = Patched /\ original \in [Edits -> {"old", "new"}]
    BY <2>1, <2>2, <2>3, ResultIsPatched
  <2>5. text' # original' /\ Len(text') = 0
    BY <2>1, <2>3
  <2> QED
    BY <2>1, <2>3, <2>4, <2>5 DEF PatchInv, PatchIsAllOrNothing, TextOK
<1>2. CASE WritePatch
  <2>1. /\ patch = Patched /\ original \in [Edits -> {"old", "new"}] /\ text # original
        /\ Len(text) < 12 /\ text' = Append(text, Patched[Len(text) + 1])
        /\ patch' = patch /\ original' = original
    BY <1>2, PatchedIsText DEF WritePatch, PatchInv
  <2>2. \A i \in 1 .. Len(text) : text[i] = Patched[i]
    BY <2>1 DEF PatchInv, PatchIsAllOrNothing
  <2>3. /\ Len(text) \in Nat /\ Len(text') = Len(text) + 1
        /\ Patched[Len(text) + 1] \in {"new", "marker"}
        /\ text' \in Seq({"old", "new", "other", "marker"})
    <3>1. Len(text) \in Nat /\ Len(text) + 1 \in 1 .. 12
      BY <2>1 DEF TextOK
    <3>2. Patched[Len(text) + 1] \in {"new", "marker"}
      BY <3>1 DEF Patched
    <3> QED
      BY <2>1, <3>1, <3>2 DEF TextOK
  <2>4. \A i \in 1 .. Len(text') : text'[i] = Patched[i]
    <3> SUFFICES ASSUME NEW i \in 1 .. Len(text')
                 PROVE  text'[i] = Patched[i]
      OBVIOUS
    <3>1. CASE i = Len(text) + 1
      BY <2>1, <3>1 DEF TextOK
    <3>2. CASE i # Len(text) + 1
      <4>1. i \in 1 .. Len(text)
        BY <2>3, <3>2
      <4>2. text'[i] = text[i]
        BY <2>1, <4>1 DEF TextOK
      <4> QED
        BY <2>2, <4>1, <4>2
    <3> QED
      BY <3>1, <3>2
  <2>5. text' # original
    <3>1. ASSUME text' = original
          PROVE  FALSE
      <4>1. Len(text') = 11 \/ Len(text') = 12
        BY <3>1, OriginalsAreTexts, OriginalsAssumption DEF PatchInv
      <4>2. text'[11] = "new"
        <5> DEFINE n == Len(text')
        <5>1. n \in Nat /\ n >= 11
          BY <2>3, <4>1
        <5> HIDE DEF n
        <5>2. 11 \in 1 .. n /\ 11 \in 1 .. 11
          BY <5>1
        <5> QED
          BY <2>4, <5>2, PatchedIsText DEF n
      <4>3. original \in Unpatched
        <5>1. original # Patched
          <6>1. DOMAIN original = 1 .. 11
            BY <2>1 DEF Edits
          <6>2. 12 \in 1 .. 12 /\ 12 \notin 1 .. 11
            OBVIOUS
          <6> QED
            BY <6>1, <6>2, PatchedIsText
        <5> QED
          BY <5>1, OriginalsAssumption DEF PatchInv
      <4>4. Kinds[11] = "guarded"
        BY <3>1, <4>2, <4>3 DEF Unpatched, Edits
      <4> QED
        BY <4>4 DEF Kinds
    <3> QED
      BY <3>1
  <2> QED
    BY <2>1, <2>3, <2>4, <2>5 DEF PatchInv, PatchIsAllOrNothing, TextOK
<1>3. CASE EndPatch \/ PatcherDies
  <2>1. patch' = <<>> /\ text' = text /\ original' = original
    BY <1>3 DEF EndPatch, PatcherDies
  <2> QED
    BY <2>1 DEF PatchInv, PatchIsAllOrNothing, TextOK
<1>4. CASE Programs \/ UNCHANGED patchVars
  <2>1. patch' = patch /\ text' = text /\ original' = original
    BY <1>4 DEF Programs, patchVars, sourceVars
  <2> QED
    BY <2>1 DEF PatchInv, PatchIsAllOrNothing, TextOK
<1> QED
  BY <1>1, <1>2, <1>3, <1>4 DEF PatchNext

\* What the patcher writes is one complete patch of the text it read.
THEOREM PatchInvariant == PatchSpec => []PatchInv
<1>1. PatchInit => PatchInv /\ TextOK
  BY PatchInitially
<1>2. PatchInv /\ TextOK /\ [PatchNext]_patchVars => (PatchInv /\ TextOK)'
  BY PatchStep
<1> QED
  BY <1>1, <1>2, PTL DEF PatchSpec

\* However often the patcher is run and wherever it dies, no text is edited
\* twice or in part.
THEOREM NeverHalfEdited == PatchSpec => []PatchIsAllOrNothing
<1>1. PatchInv => PatchIsAllOrNothing
  BY DEF PatchInv
<1> QED
  BY <1>1, PatchInvariant, PTL

\* A transfer is of one run, and metrics are evidence, also while modeling.py
\* is patched and runs of all versions share the directories.
THEOREM RunsUnderPatch ==
  ASSUME ~Reuse
  PROVE  PatchSpec => [](TransferIsOfOneRun /\ MetricsHaveTheirModels)
<1>1. Spec => []TransferIsOfOneRun
  BY OneRunPerTransfer
<1>2. Spec => []MetricsHaveTheirModels
  BY MetricsAreEvidence
<1> QED
  BY <1>1, <1>2, PatchedRunsAreRuns, PTL
=============================================================================
