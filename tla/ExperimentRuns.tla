---------------------------- MODULE ExperimentRuns ----------------------------
(***************************************************************************)
(* The evidence directories of the experiments: training runs that write   *)
(* models and reports one file after another, and frozen transfers that    *)
(* read the directory of a training run, possibly while it is still being  *)
(* written or after the run died.  Runs and transfers of three versions of *)
(* the program use the same file names in the same directories, in orders  *)
(* of their own.                                                           *)
(*                                                                         *)
(* The content of a file is the run that wrote it; no file is written      *)
(* atomically.  Reports that no program reads are left out.                *)
(***************************************************************************)
EXTENDS Integers, Sequences

CONSTANTS Runs,       \* training runs
          CatBoost,   \* those whose challenger is a CatBoost model
          Version,    \* of each training run, the version of its program
          Dirs,       \* directories that --output-dir and --source-run name
          Transfers,  \* frozen transfers
          Reuse,      \* a run may be given the directory of an earlier one
          None,       \* no file
          Torn        \* a file that is being written, or was when the run died

Versions == {"v0.9.2", "v0.9.3", "v0.9.4"}

ASSUME RunsAssumption ==
  /\ CatBoost \subseteq Runs
  /\ Version \in [Runs -> Versions]
  /\ None \notin Runs
  /\ Torn \notin Runs
  /\ None # Torn

ASSUME DirsAssumption == None \notin Dirs

ASSUME ReuseAssumption == Reuse \in BOOLEAN

Frozen == <<"baseline_logistic", "baseline_calibrator", "candidate_calibrator",
            "candidate_catboost">>
FrozenFiles == {Frozen[i] : i \in 1 .. 4}
Files == FrozenFiles \cup {"preregistration", "candidate_extra_trees", "metadata",
                           "metrics", "decision", "predictions"}

VARIABLES file,      \* of each directory, the content of each file
          dir,       \* of each training run, its output directory
          step,      \* the file it is to write next
          writing,   \* it is in the middle of that file
          alive,     \* it runs
          source,    \* of each transfer, its --source-run
          config,    \* the run whose metrics, and so whose protocol, it uses
          pc, at,    \* where the transfer is, and at which file
          loaded,    \* the models it loaded
          hashed,    \* the digests it records for them, taken afterwards
          provenance \* the model metadata it records

training == <<file, dir, step, writing, alive>>
transfer == <<source, config, pc, at, loaded, hashed, provenance>>
vars == <<training, transfer>>

\* v0.9.2 compared "catboost:<weight mode>" with "catboost", and so saved every
\* challenger under the name of the other kind.
CandidateFile(r) == IF r \in CatBoost /\ Version[r] # "v0.9.2" THEN "candidate_catboost"
                    ELSE "candidate_extra_trees"

StepsReportFirst(r) == <<"preregistration", "metrics", "baseline_logistic",
                         "baseline_calibrator", "candidate_calibrator", CandidateFile(r),
                         "metadata", "decision", "predictions">>

StepsMetadataLast(r) == <<"preregistration", "baseline_logistic", "baseline_calibrator",
                          "candidate_calibrator", CandidateFile(r), "metrics", "decision",
                          "predictions", "metadata">>

\* The order in which a training run writes its files.
Steps(r) ==
  IF Version[r] = "v0.9.4"
  THEN <<"preregistration", "baseline_logistic", "baseline_calibrator",
         "candidate_calibrator", CandidateFile(r), "metadata", "metrics", "decision",
         "predictions">>
  ELSE IF Version[r] = "v0.9.3"
  THEN <<"baseline_logistic", "baseline_calibrator", "candidate_calibrator",
         CandidateFile(r), "metadata", "predictions", "metrics", "decision">>
  ELSE <<"baseline_logistic", "baseline_calibrator", "candidate_calibrator",
         CandidateFile(r), "predictions", "metrics", "decision">>

NoModels == [f \in FrozenFiles |-> None]

Init == /\ file = [d \in Dirs |-> [f \in Files |-> None]]
        /\ dir = [r \in Runs |-> None]
        /\ step = [r \in Runs |-> 1]
        /\ writing = [r \in Runs |-> FALSE]
        /\ alive = [r \in Runs |-> FALSE]
        /\ source = [t \in Transfers |-> None]
        /\ config = [t \in Transfers |-> None]
        /\ pc = [t \in Transfers |-> "idle"]
        /\ at = [t \in Transfers |-> 1]
        /\ loaded = [t \in Transfers |-> NoModels]
        /\ hashed = [t \in Transfers |-> NoModels]
        /\ provenance = [t \in Transfers |-> None]

-----------------------------------------------------------------------------
(* Training.                                                               *)

\* The runner makes the directory if it must and checks nothing: that a run
\* has a directory of its own is the operator's part, by the runbook.
Start(r, d) == /\ dir[r] = None
               /\ Reuse \/ \A s \in Runs : dir[s] # d
               /\ dir' = [dir EXCEPT ![r] = d]
               /\ alive' = [alive EXCEPT ![r] = TRUE]
               /\ UNCHANGED <<file, step, writing, transfer>>

\* Everything up to the next write: reading, fitting, scoring, bootstrapping.
BeginWrite(r) == /\ alive[r]
                 /\ ~writing[r]
                 /\ step[r] <= Len(Steps(r))
                 /\ file' = [file EXCEPT ![dir[r]][Steps(r)[step[r]]] = Torn]
                 /\ writing' = [writing EXCEPT ![r] = TRUE]
                 /\ UNCHANGED <<dir, step, alive, transfer>>

EndWrite(r) == /\ alive[r]
               /\ writing[r]
               /\ file' = [file EXCEPT ![dir[r]][Steps(r)[step[r]]] = r]
               /\ writing' = [writing EXCEPT ![r] = FALSE]
               /\ step' = [step EXCEPT ![r] = @ + 1]
               /\ UNCHANGED <<dir, alive, transfer>>

\* An exception or a kill; nothing is cleaned up.
Stop(r) == /\ alive[r]
           /\ alive' = [alive EXCEPT ![r] = FALSE]
           /\ UNCHANGED <<file, dir, step, writing, transfer>>

-----------------------------------------------------------------------------
(* Frozen transfer.                                                        *)

Goto(t, where) == pc' = [pc EXCEPT ![t] = where]

\* The transfer of v0.9.4 needs the protocol that only v0.9.4 records, that of
\* v0.9.3 knows no configuration fields but its own.
Understands(v, r) == v = "v0.9.4" <=> Version[r] = "v0.9.4"

ReadMetrics(t, d, v) == /\ pc[t] = "idle"
                        /\ file[d]["metrics"] \in Runs
                        /\ Understands(v, file[d]["metrics"])
                        /\ source' = [source EXCEPT ![t] = d]
                        /\ config' = [config EXCEPT ![t] = file[d]["metrics"]]
                        /\ Goto(t, "check")
                        /\ UNCHANGED <<training, at, loaded, hashed, provenance>>

\* No metrics, metrics that are no JSON yet, or those of another version.
NoMetrics(t, d, v) ==
  /\ pc[t] = "idle"
  /\ file[d]["metrics"] \in Runs => ~Understands(v, file[d]["metrics"])
  /\ Goto(t, "failed")
  /\ UNCHANGED <<training, source, config, at, loaded, hashed, provenance>>

\* All four artifacts are files, whatever is in them.
CheckModels(t) == /\ pc[t] = "check"
                  /\ \A f \in FrozenFiles : file[source[t]][f] # None
                  /\ Goto(t, "load")
                  /\ UNCHANGED <<training, source, config, at, loaded, hashed, provenance>>

ModelsMissing(t) == /\ pc[t] = "check"
                    /\ \E f \in FrozenFiles : file[source[t]][f] = None
                    /\ Goto(t, "failed")
                    /\ UNCHANGED <<training, source, config, at, loaded, hashed, provenance>>

\* A torn artifact does not load.
Load(t) == /\ pc[t] = "load"
           /\ at[t] <= 4
           /\ file[source[t]][Frozen[at[t]]] \in Runs
           /\ loaded' = [loaded EXCEPT ![t][Frozen[at[t]]] = file[source[t]][Frozen[at[t]]]]
           /\ at' = [at EXCEPT ![t] = @ + 1]
           /\ UNCHANGED <<training, source, config, pc, hashed, provenance>>

\* A missing metadata file is reported as no provenance.
ReadMetadata(t) == /\ pc[t] = "load"
                   /\ at[t] = 5
                   /\ file[source[t]]["metadata"] # Torn
                   /\ provenance' = [provenance EXCEPT ![t] = file[source[t]]["metadata"]]
                   /\ at' = [at EXCEPT ![t] = 1]
                   /\ Goto(t, "hash")
                   /\ UNCHANGED <<training, source, config, loaded, hashed>>

Hash(t) == /\ pc[t] = "hash"
           /\ at[t] <= 4
           /\ hashed' = [hashed EXCEPT ![t][Frozen[at[t]]] = file[source[t]][Frozen[at[t]]]]
           /\ at' = [at EXCEPT ![t] = @ + 1]
           /\ UNCHANGED <<training, source, config, pc, loaded, provenance>>

Report(t) == /\ pc[t] = "hash"
             /\ at[t] = 5
             /\ Goto(t, "reported")
             /\ UNCHANGED <<training, source, config, at, loaded, hashed, provenance>>

\* The target data is at fault, or the transfer is stopped.
StopTransfer(t) == /\ pc[t] \in {"check", "load", "hash"}
                   /\ Goto(t, "failed")
                   /\ UNCHANGED <<training, source, config, at, loaded, hashed, provenance>>

Next == \/ \E r \in Runs, d \in Dirs : Start(r, d)
        \/ \E r \in Runs : BeginWrite(r) \/ EndWrite(r) \/ Stop(r)
        \/ \E t \in Transfers, d \in Dirs, v \in {"v0.9.3", "v0.9.4"} :
             ReadMetrics(t, d, v) \/ NoMetrics(t, d, v)
        \/ \E t \in Transfers : \/ CheckModels(t)
                                \/ ModelsMissing(t)
                                \/ Load(t)
                                \/ ReadMetadata(t)
                                \/ Hash(t)
                                \/ Report(t)
                                \/ StopTransfer(t)

Spec == Init /\ [][Next]_vars

-----------------------------------------------------------------------------
(* Type invariant.                                                         *)
TypeOK == /\ file \in [Dirs -> [Files -> Runs \cup {None, Torn}]]
          /\ dir \in [Runs -> Dirs \cup {None}]
          /\ step \in [Runs -> 1 .. 10]
          /\ writing \in [Runs -> BOOLEAN]
          /\ alive \in [Runs -> BOOLEAN]
          /\ source \in [Transfers -> Dirs \cup {None}]
          /\ config \in [Transfers -> Runs \cup {None}]
          /\ pc \in [Transfers -> {"idle", "check", "load", "hash", "reported", "failed"}]
          /\ at \in [Transfers -> 1 .. 5]
          /\ loaded \in [Transfers -> [FrozenFiles -> Runs \cup {None}]]
          /\ hashed \in [Transfers -> [FrozenFiles -> Runs \cup {None, Torn}]]
          /\ provenance \in [Transfers -> Runs \cup {None}]

\* A transfer that reports used the models of one run, under that run's
\* protocol, and records that run's digests and metadata for them: also when
\* it starts while the run is writing, or after it died.  Without Reuse only.
TransferIsOfOneRun ==
  \A t \in Transfers :
    pc[t] = "reported" =>
      /\ config[t] \in CatBoost /\ Version[config[t]] # "v0.9.2"
      /\ provenance[t] = config[t]
      /\ \A f \in FrozenFiles : loaded[t][f] = config[t] /\ hashed[t][f] = config[t]

\* Metrics are evidence: wherever a run's metrics are complete so are the
\* models and, since v0.9.3, the metadata they are about, even if the run then
\* died.  Without Reuse only.
MetricsHaveTheirModels ==
  \A d \in Dirs :
    file[d]["metrics"] \in Runs =>
      LET r == file[d]["metrics"]
      IN  /\ \A f \in {"baseline_logistic", "baseline_calibrator", "candidate_calibrator",
                       CandidateFile(r)} : file[d][f] = r
          /\ Version[r] # "v0.9.2" => file[d]["metadata"] = r

\* Where the metrics come in the order of a run.
MetricsStep(r) == IF Version[r] = "v0.9.2" THEN 6 ELSE 7

\* A directory is of one run, which has written exactly the files before its
\* step; transfers hold what that run wrote.
RunsInv ==
  /\ TypeOK
  /\ \A r, s \in Runs : dir[r] = dir[s] /\ dir[r] # None => r = s
  /\ \A r \in Runs : alive[r] \/ writing[r] \/ step[r] > 1 => dir[r] # None
  /\ \A r \in Runs : step[r] <= Len(Steps(r)) + 1 /\ (writing[r] => step[r] <= Len(Steps(r)))
  /\ \A r \in Runs : \A i \in 1 .. Len(Steps(r)) :
       dir[r] # None /\ i < step[r] => file[dir[r]][Steps(r)[i]] = r
  /\ \A d \in Dirs : \A f \in Files : \A r \in Runs :
       file[d][f] = r =>
         dir[r] = d /\ \E i \in 1 .. Len(Steps(r)) : i < step[r] /\ Steps(r)[i] = f
  /\ \A d \in Dirs : \A f \in Files :
       file[d][f] # None =>
         \E r \in Runs : dir[r] = d /\ \E i \in 1 .. Len(Steps(r)) : Steps(r)[i] = f
  /\ \A t \in Transfers :
       /\ pc[t] \in {"check", "load", "hash", "reported"} =>
            /\ source[t] \in Dirs
            /\ config[t] \in Runs
            /\ dir[config[t]] = source[t]
            /\ step[config[t]] > MetricsStep(config[t])
       /\ pc[t] \in {"load", "hash", "reported"} =>
            config[t] \in CatBoost /\ Version[config[t]] # "v0.9.2"
       /\ pc[t] \in {"idle", "check"} => at[t] = 1
       /\ pc[t] = "load" => \A i \in 1 .. 4 : i < at[t] => loaded[t][Frozen[i]] = config[t]
       /\ pc[t] \in {"hash", "reported"} =>
            /\ provenance[t] = config[t]
            /\ \A i \in 1 .. 4 : loaded[t][Frozen[i]] = config[t]
       /\ pc[t] = "hash" => \A i \in 1 .. 4 : i < at[t] => hashed[t][Frozen[i]] = config[t]
       /\ pc[t] = "reported" => \A i \in 1 .. 4 : hashed[t][Frozen[i]] = config[t]
=============================================================================
