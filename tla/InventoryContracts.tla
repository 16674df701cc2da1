-------------------------- MODULE InventoryContracts --------------------------
(***************************************************************************)
(* build_inventory and verify_inventory: each artifact is digested, parsed *)
(* against its content contract and digested again, one after another,     *)
(* while artifacts may change under the loop.                              *)
(*                                                                         *)
(* The digest of a file is its content.  A contract is a set of contents   *)
(* it accepts and what it observes of each (columns and rows of a CSV,     *)
(* keys of a JSON file).  Each digest is one stable read (StableRead); a   *)
(* parse opens the path on its own.                                        *)
(***************************************************************************)
EXTENDS Naturals

CONSTANTS Paths,       \* artifacts
          Contents,    \* what an artifact may hold
          Absent,      \* an artifact that is no file
          Contracts,   \* normalized content contracts
          CsvDefault,  \* the contract of a path in csv_contract_paths
          Accepts,     \* the contents that meet each contract
          Observe,     \* what each contract records of a content
          NoContract,  \* an artifact without one
          Unknown,     \* no inventory, no argument, nothing observed
          MixedArguments, \* csv_contract_paths may add to the content_contracts given
          MaxWrites    \* bound on changes of artifacts

ASSUME ContractsAssumption ==
  /\ CsvDefault \in Contracts
  /\ NoContract \notin Contracts
  /\ Absent \notin Contents
  /\ Unknown \notin Contents \cup {Absent}
  /\ Accepts \in [Contracts -> SUBSET Contents]
  /\ \A c \in Contracts : DOMAIN Observe[c] = Contents
  /\ MixedArguments \in BOOLEAN
  /\ MaxWrites \in Nat

\* content_contracts, expected_contracts: what is asked of each path.
Demands == [Paths -> Contracts \cup {NoContract}]
NoDemands == [p \in Paths |-> NoContract]

VARIABLES file,       \* the artifacts
          pc,         \* "idle", "digest", "parse", "again"
          call,       \* "build" or "verify", the last one if idle
          required,   \* required_paths of the last build
          given,      \* its content_contracts
          contracts,  \* the contracts it resolved
          entries,    \* the inventory, possibly unfinished
          complete,   \* it is finished
          expected,   \* expected_paths of the last verification
          demanded,   \* its expected_contracts
          todo, at,   \* artifacts to handle; the one being handled
          digest,     \* its digest
          observed,   \* what the parse observed
          answer,     \* how the last call ended
          stale,      \* an artifact changed since the build began
          touched,    \* an artifact changed since the last call began
          writes

args == <<required, given, contracts, expected, demanded>>
work == <<todo, at, digest, observed>>
vars == <<file, pc, call, args, entries, complete, work, answer, stale, touched, writes>>

NoEntry == [digest |-> Unknown, contract |-> NoContract, observed |-> Unknown]
NoEntries == [p \in Paths |-> NoEntry]
Listed == {p \in Paths : entries[p] # NoEntry}
Embedded == [p \in Paths |-> entries[p].contract]

Init == /\ file \in [Paths -> Contents \cup {Absent}]
        /\ pc = "idle"
        /\ call = "build"
        /\ required = {}
        /\ given = NoDemands
        /\ contracts = NoDemands
        /\ entries = NoEntries
        /\ complete = FALSE
        /\ expected = Unknown
        /\ demanded = NoDemands
        /\ todo = {}
        /\ at = Unknown
        /\ digest = Unknown
        /\ observed = Unknown
        /\ answer = "none"
        /\ stale = FALSE
        /\ touched = FALSE
        /\ writes = 0

-----------------------------------------------------------------------------
\* The call is over.
Ends(result) == /\ pc' = "idle"
                /\ answer' = result
                /\ todo' = {}
                /\ at' = Unknown
                /\ digest' = Unknown
                /\ observed' = Unknown
                /\ UNCHANGED <<file, call, args, stale, touched, writes>>

\* Inside the loop.
Goes(where) == /\ pc' = where
               /\ UNCHANGED <<file, call, args, complete, answer, stale, touched, writes>>

\* setdefault: a contract that is given comes before the default of a CSV path.
Resolved(g, csv) == [p \in Paths |-> IF g[p] # NoContract THEN g[p]
                                     ELSE IF p \in csv THEN CsvDefault
                                     ELSE NoContract]

BeginBuild ==
  /\ pc = "idle"
  /\ \E paths, csv \in SUBSET Paths : \E g \in Demands :
       /\ MixedArguments \/ g = NoDemands \/ Resolved(g, csv) = g
       /\ required' = paths
       /\ given' = g
       /\ contracts' = Resolved(g, csv)
       /\ todo' = paths
  /\ call' = "build"
  /\ pc' = "digest"
  /\ entries' = NoEntries
  /\ complete' = FALSE
  /\ answer' = "none"
  /\ stale' = FALSE
  /\ touched' = FALSE
  /\ expected' = Unknown
  /\ demanded' = NoDemands
  /\ UNCHANGED <<file, at, digest, observed, writes>>

\* An inventory of nothing, or contracts for paths that are not inventoried.
BuildRefused == /\ pc = "digest"
                /\ call = "build"
                /\ entries = NoEntries
                /\ \/ required = {}
                   \/ \E p \in Paths \ required : contracts[p] # NoContract
                /\ Ends("failed")
                /\ UNCHANGED <<entries, complete>>

WellFormed == required # {} /\ \A p \in Paths \ required : contracts[p] = NoContract

BeginVerify == /\ pc = "idle"
               /\ complete
               /\ expected' \in (SUBSET Paths) \cup {Unknown}
               /\ demanded' \in Demands
               /\ todo' = Listed
               /\ call' = "verify"
               /\ pc' = "digest"
               /\ answer' = "none"
               /\ touched' = FALSE
               /\ UNCHANGED <<file, required, given, contracts, entries, complete,
                              at, digest, observed, stale, writes>>

\* The contract that the artifact being handled must meet.
Contract == IF call = "build" THEN contracts[at] ELSE entries[at].contract

Digest(p) == /\ pc = "digest"
             /\ p \in todo
             /\ call = "build" => WellFormed
             /\ file[p] # Absent
             /\ call = "verify" => file[p] = entries[p].digest
             /\ at' = p
             /\ digest' = file[p]
             /\ UNCHANGED <<todo, observed, entries>>
             /\ Goes("parse")

\* A missing artifact, one that changes while it is read, or (when verifying)
\* one of another size or digest.
DigestFails(p) == /\ pc = "digest"
                  /\ p \in todo
                  /\ call = "build" => WellFormed
                  /\ \/ file[p] = Absent
                     \/ touched
                     \/ call = "verify" /\ file[p] # entries[p].digest
                  /\ Ends("failed")
                  /\ UNCHANGED <<entries, complete>>

\* The artifact is done with: a build adds its entry.
Handled(saw) == /\ todo' = todo \ {at}
                /\ at' = Unknown
                /\ digest' = Unknown
                /\ observed' = Unknown
                /\ entries' = IF call = "verify" THEN entries
                              ELSE [entries EXCEPT ![at] = [digest |-> digest,
                                                            contract |-> contracts[at],
                                                            observed |-> saw]]

NoParse == /\ pc = "parse"
           /\ Contract = NoContract
           /\ Handled(Unknown)
           /\ Goes("digest")

\* _validate_contract; a verification compares what it observes with the entry.
ParseHolds == /\ Contract # NoContract
              /\ file[at] # Absent
              /\ file[at] \in Accepts[Contract]
              /\ call = "verify" => Observe[Contract][file[at]] = entries[at].observed

ParseUnchecked == /\ pc = "parse"
                  /\ Contract # NoContract
                  /\ file[at] # Absent
                  /\ observed' = Observe[Contract][file[at]]
                  /\ UNCHANGED <<todo, at, digest, entries>>
                  /\ Goes("again")

Parse == /\ pc = "parse"
         /\ ParseHolds
         /\ observed' = Observe[Contract][file[at]]
         /\ UNCHANGED <<todo, at, digest, entries>>
         /\ Goes("again")

ParseFails == /\ pc = "parse"
              /\ Contract # NoContract
              /\ ~ParseHolds
              /\ Ends("failed")
              /\ UNCHANGED <<entries, complete>>

\* "Content parsing may take time; prove the bytes remained stable through it."
DigestAgain == /\ pc = "again"
               /\ file[at] = digest
               /\ Handled(observed)
               /\ Goes("digest")

DigestAgainFails == /\ pc = "again"
                    /\ file[at] # digest \/ touched
                    /\ Ends("failed")
                    /\ UNCHANGED <<entries, complete>>

FinishBuild == /\ pc = "digest"
               /\ call = "build"
               /\ todo = {}
               /\ WellFormed
               /\ complete' = TRUE
               /\ Ends("built")
               /\ UNCHANGED entries

SetsMatchInPart == /\ expected # Unknown => expected = Listed
                   /\ \A p \in Paths : demanded[p] # NoContract => Embedded[p] # NoContract

SetsMatchStrictly == /\ expected # Unknown => expected = Listed
                     /\ demanded = Embedded

\* The set of paths, and that of contracts unless no contract is demanded.
SetsMatch == /\ expected # Unknown => expected = Listed
             /\ demanded # NoDemands => demanded = Embedded

FinishVerify == /\ pc = "digest"
                /\ call = "verify"
                /\ todo = {}
                /\ Ends(IF SetsMatch THEN "accepted" ELSE "failed")
                /\ UNCHANGED <<entries, complete>>

\* Somebody replaces or removes an artifact.
Write(p) == /\ writes < MaxWrites
            /\ writes' = writes + 1
            /\ \E c \in Contents \cup {Absent} : file' = [file EXCEPT ![p] = c]
            /\ stale' = TRUE
            /\ touched' = TRUE
            /\ UNCHANGED <<pc, call, args, entries, complete, work, answer>>

Next == \/ BeginBuild
        \/ BuildRefused
        \/ BeginVerify
        \/ \E p \in Paths : Digest(p) \/ DigestFails(p)
        \/ NoParse
        \/ Parse
        \/ ParseFails
        \/ DigestAgain
        \/ DigestAgainFails
        \/ FinishBuild
        \/ FinishVerify
        \/ \E p \in Paths : Write(p)

Spec == Init /\ [][Next]_vars

-----------------------------------------------------------------------------
Observations == (UNION {{Observe[c][d] : d \in Contents} : c \in Contracts}) \cup {Unknown}

(* Type invariant.                                                         *)
TypeOK == /\ file \in [Paths -> Contents \cup {Absent}]
          /\ pc \in {"idle", "digest", "parse", "again"}
          /\ call \in {"build", "verify"}
          /\ required \in SUBSET Paths
          /\ given \in Demands
          /\ contracts \in Demands
          /\ entries \in [Paths -> [digest : Contents \cup {Unknown},
                                    contract : Contracts \cup {NoContract},
                                    observed : Observations]]
          /\ complete \in BOOLEAN
          /\ expected \in (SUBSET Paths) \cup {Unknown}
          /\ demanded \in Demands
          /\ todo \in SUBSET Paths
          /\ at \in Paths \cup {Unknown}
          /\ digest \in Contents \cup {Unknown}
          /\ observed \in Observations
          /\ answer \in {"none", "built", "accepted", "failed"}
          /\ stale \in BOOLEAN
          /\ touched \in BOOLEAN
          /\ writes \in 0 .. MaxWrites

\* What the entry of an artifact says of it is true, and it meets its contract.
EntryHolds(p) == /\ file[p] = entries[p].digest
                 /\ entries[p].contract # NoContract =>
                      /\ file[p] \in Accepts[entries[p].contract]
                      /\ entries[p].observed = Observe[entries[p].contract][file[p]]

\* What a verification accepts while nobody writes meets the contracts of its
\* inventory, and those its caller demands, whatever happened to the artifacts
\* during the build and since.
AcceptedContentHolds ==
  answer = "accepted" /\ ~touched =>
    /\ \A p \in Listed : EntryHolds(p)
    /\ expected # Unknown => Listed = expected
    /\ \A p \in Paths : demanded[p] # NoContract => file[p] \in Accepts[demanded[p]]

\* "Re-verify payload bytes immediately before committing": with the arguments
\* of the build, it fails only if some byte changed.
OwnInventoryVerifies ==
  call = "verify" /\ answer = "failed" /\ expected = required /\ demanded = given => stale

\* What the two rest on.  Entries that nobody has written under are true when a
\* build makes them, and when a verification has passed them; a finished
\* inventory lists what was required and embeds the contracts resolved for it.
InventoryInv ==
  /\ TypeOK
  /\ pc # "idle" => answer = "none"
  /\ pc \in {"parse", "again"} => at \in todo /\ digest \in Contents
  /\ pc \in {"parse", "again"} /\ ~touched => file[at] = digest
  /\ pc = "again" /\ ~touched => /\ Contract # NoContract
                                 /\ file[at] \in Accepts[Contract]
                                 /\ observed = Observe[Contract][file[at]]
  /\ call = "verify" /\ pc # "idle" => complete /\ todo \subseteq Listed
  /\ call = "verify" /\ pc \in {"parse", "again"} => digest = entries[at].digest
  /\ call = "verify" /\ pc = "again" => observed = entries[at].observed
  /\ call = "build" /\ pc # "idle" => ~complete /\ required = Listed \cup todo
  /\ complete \/ pc # "idle" => \A p \in Listed : Embedded[p] = contracts[p]
  /\ complete => Listed = required /\ WellFormed
  /\ ~stale => ~touched /\ \A p \in Listed : EntryHolds(p)
  /\ call = "verify" /\ ~touched /\ pc # "idle" => \A p \in Listed \ todo : EntryHolds(p)

\* What the parse observed is of the bytes whose digest is recorded: "prove the
\* bytes remained stable through it".
ObservedIsDigested ==
  \A p \in Paths : entries[p].contract # NoContract =>
    /\ entries[p].digest \in Accepts[entries[p].contract]
    /\ entries[p].observed = Observe[entries[p].contract][entries[p].digest]
=============================================================================
