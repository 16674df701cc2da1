----------------------- MODULE InventoryContractsProofs -----------------------
(***************************************************************************)
(* For any artifacts, contents and contracts, and any number of changes:   *)
(* what a quiet verification accepts meets the contracts, and an inventory *)
(* verifies by the arguments it was built with unless a byte changed.      *)
(*                                                                         *)
(* InventoryInv follows an artifact through the loop: digest, parse and    *)
(* second digest say the same of it as long as nobody writes.              *)
(***************************************************************************)
EXTENDS InventoryContracts, TLAPS

USE ContractsAssumption

\* An artifact is listed as soon as it has a digest.
LEMMA ListedIfDigested ==
  ASSUME NEW p \in Paths, entries[p].digest \in Contents
  PROVE  p \in Listed
BY DEF Listed, NoEntry

LEMMA ObservationsType ==
  Unknown \in Observations /\ \A c \in Contracts, d \in Contents : Observe[c][d] \in Observations
<1>1. ASSUME NEW c \in Contracts, NEW d \in Contents
      PROVE  Observe[c][d] \in Observations
  <2> DEFINE all        == {{Observe[b][e] : e \in Contents} : b \in Contracts}
             ofContract == {Observe[c][e] : e \in Contents}
  <2>1. Observe[c][d] \in ofContract
    OBVIOUS
  <2>2. ofContract \in all
    OBVIOUS
  <2>3. Observations = (UNION all) \cup {Unknown}
    BY DEF Observations
  <2> HIDE DEF ofContract, all
  <2> QED
    BY <2>1, <2>2, <2>3
<1>2. Unknown \in Observations
  <2> DEFINE all == {{Observe[b][e] : e \in Contents} : b \in Contracts}
  <2>1. Observations = (UNION all) \cup {Unknown}
    BY DEF Observations
  <2> HIDE DEF all
  <2> QED
    BY <2>1
<1> QED
  BY <1>1, <1>2

LEMMA NoDemandsType == NoDemands \in Demands
BY DEF NoDemands, Demands

LEMMA NoEntriesType ==
  NoEntries \in [Paths -> [digest : Contents \cup {Unknown},
                           contract : Contracts \cup {NoContract},
                           observed : Observations]]
<1>1. NoEntry \in [digest : Contents \cup {Unknown},
                   contract : Contracts \cup {NoContract},
                   observed : Observations]
  <2>1. Unknown \in Contents \cup {Unknown} /\ NoContract \in Contracts \cup {NoContract}
    OBVIOUS
  <2> QED
    BY <2>1, ObservationsType DEF NoEntry
<1> QED
  BY <1>1 DEF NoEntries

LEMMA InitInventory == Init => InventoryInv
<1> SUFFICES ASSUME Init PROVE InventoryInv
  OBVIOUS
<1> USE DEF Init
<1>1. Listed = {}
  BY DEF Listed, NoEntries
<1>2. entries \in [Paths -> [digest : Contents \cup {Unknown},
                             contract : Contracts \cup {NoContract},
                             observed : Observations]]
  BY NoEntriesType
<1>3. TypeOK
  <2>1. given \in Demands /\ contracts \in Demands /\ demanded \in Demands
    BY NoDemandsType
  <2>2. file \in [Paths -> Contents \cup {Absent}] /\ observed \in Observations /\ writes \in 0 .. MaxWrites
    BY ObservationsType
  <2>3. complete \in BOOLEAN /\ stale \in BOOLEAN /\ touched \in BOOLEAN
    OBVIOUS
  <2>4. todo \in SUBSET Paths /\ required \in SUBSET Paths
    OBVIOUS
  <2>5. at \in Paths \cup {Unknown} /\ digest \in Contents \cup {Unknown}
        /\ expected \in (SUBSET Paths) \cup {Unknown}
    OBVIOUS
  <2>6. pc = "idle" /\ call = "build" /\ answer = "none"
    OBVIOUS
  <2> HIDE DEF Init
  <2> QED
    BY <1>2, <2>1, <2>2, <2>3, <2>4, <2>5, <2>6 DEF TypeOK
<1> QED
  BY <1>1, <1>3 DEF InventoryInv

\* An entry stays true while the artifact and the entry are left alone.
LEMMA SameEntries ==
  ASSUME UNCHANGED <<file, entries>>
  PROVE  /\ Listed' = Listed
         /\ Embedded' = Embedded
         /\ \A p \in Paths : EntryHolds(p)' <=> EntryHolds(p)
BY DEF Listed, Embedded, EntryHolds

\* A call that ends changes no entry.
LEMMA EndKeeps ==
  ASSUME InventoryInv, NEW result \in {"accepted", "failed"}, Ends(result),
         UNCHANGED <<entries, complete>>
  PROVE  InventoryInv'
<1>1. /\ pc' = "idle" /\ todo' = {} /\ at' = Unknown /\ digest' = Unknown /\ observed' = Unknown
      /\ answer' = result
      /\ UNCHANGED <<file, call, required, given, contracts, expected, demanded, stale, touched, writes>>
  BY DEF Ends, args
<1>2. TypeOK'
  BY <1>1, ObservationsType DEF InventoryInv, TypeOK
<1>3. Listed' = Listed /\ Embedded' = Embedded /\ \A p \in Paths : EntryHolds(p)' <=> EntryHolds(p)
  BY <1>1, SameEntries
<1>4. (complete \/ pc # "idle" => \A p \in Listed : Embedded[p] = contracts[p])'
  BY <1>1, <1>3 DEF InventoryInv
<1>5. (complete => Listed = required /\ WellFormed)'
  BY <1>1, <1>3 DEF InventoryInv, WellFormed
<1>6. (~stale => ~touched /\ \A p \in Listed : EntryHolds(p))'
  BY <1>1, <1>3 DEF InventoryInv, Listed
<1> QED
  BY <1>1, <1>2, <1>4, <1>5, <1>6 DEF InventoryInv

LEMMA BeginBuildKeeps == InventoryInv /\ BeginBuild => InventoryInv'
<1> SUFFICES ASSUME InventoryInv, BeginBuild PROVE InventoryInv'
  OBVIOUS
<1>1. PICK paths \in SUBSET Paths, csv \in SUBSET Paths, g \in Demands :
        required' = paths /\ given' = g /\ contracts' = Resolved(g, csv) /\ todo' = paths
  BY DEF BeginBuild
<1>2. contracts' \in Demands
  BY <1>1 DEF Resolved, Demands
<1>3. entries' \in [Paths -> [digest : Contents \cup {Unknown},
                              contract : Contracts \cup {NoContract},
                              observed : Observations]]
  BY NoEntriesType DEF BeginBuild
<1>4. TypeOK'
  <2>1. required' \in SUBSET Paths /\ todo' \in SUBSET Paths /\ given' \in Demands
        /\ demanded' \in Demands
    BY <1>1, NoDemandsType DEF BeginBuild
  <2>2. UNCHANGED <<file, at, digest, observed, writes>> /\ call' = "build" /\ pc' = "digest"
        /\ complete' = FALSE /\ answer' = "none" /\ stale' = FALSE /\ touched' = FALSE
        /\ expected' = Unknown
    BY DEF BeginBuild
  <2>3. complete' \in BOOLEAN /\ stale' \in BOOLEAN /\ touched' \in BOOLEAN
    BY <2>2
  <2>4. expected' \in (SUBSET Paths) \cup {Unknown}
    BY <2>2
  <2> QED
    BY <1>2, <1>3, <2>1, <2>2, <2>3, <2>4 DEF InventoryInv, TypeOK
<1>5. Listed' = {}
  BY DEF BeginBuild, Listed, NoEntries
<1> QED
  BY <1>1, <1>4, <1>5 DEF BeginBuild, InventoryInv

LEMMA BeginVerifyKeeps == InventoryInv /\ BeginVerify => InventoryInv'
<1> SUFFICES ASSUME InventoryInv, BeginVerify PROVE InventoryInv'
  OBVIOUS
<1>1. /\ pc' = "digest" /\ call' = "verify" /\ todo' = Listed /\ answer' = "none" /\ touched' = FALSE
      /\ complete /\ expected' \in (SUBSET Paths) \cup {Unknown} /\ demanded' \in Demands
      /\ UNCHANGED <<file, required, given, contracts, entries, complete, at, digest, observed,
                     stale, writes>>
  BY DEF BeginVerify
<1>2. TypeOK'
  BY <1>1 DEF InventoryInv, TypeOK, Listed
<1>3. Listed' = Listed /\ Embedded' = Embedded /\ \A p \in Paths : EntryHolds(p)' <=> EntryHolds(p)
  BY <1>1, SameEntries
<1>4. (~stale => ~touched /\ \A p \in Listed : EntryHolds(p))'
  BY <1>1, <1>3 DEF InventoryInv, Listed
<1> QED
  BY <1>1, <1>2, <1>3, <1>4 DEF InventoryInv, WellFormed

LEMMA DigestKeeps ==
  ASSUME InventoryInv, NEW p \in Paths, Digest(p)
  PROVE  InventoryInv'
<1>1. /\ pc = "digest" /\ pc' = "parse" /\ p \in todo /\ file[p] # Absent /\ at' = p
      /\ digest' = file[p] /\ (call = "verify" => file[p] = entries[p].digest)
      /\ UNCHANGED <<file, call, required, given, contracts, expected, demanded, entries, complete,
                     todo, observed, answer, stale, touched, writes>>
  BY DEF Digest, Goes, args
<1>2. file[p] \in Contents
  BY <1>1 DEF InventoryInv, TypeOK
<1>3. TypeOK'
  BY <1>1, <1>2 DEF InventoryInv, TypeOK
<1>4. Listed' = Listed /\ Embedded' = Embedded /\ \A q \in Paths : EntryHolds(q)' <=> EntryHolds(q)
  BY <1>1, SameEntries
<1>5. (~stale => ~touched /\ \A q \in Listed : EntryHolds(q))'
  BY <1>1, <1>4 DEF InventoryInv, Listed
<1>6. (call = "verify" /\ ~touched /\ pc # "idle" => \A q \in Listed \ todo : EntryHolds(q))'
  BY <1>1, <1>4 DEF InventoryInv, Listed
<1> QED
  BY <1>1, <1>2, <1>3, <1>4, <1>5, <1>6 DEF InventoryInv, WellFormed

LEMMA ParseKeeps == InventoryInv /\ Parse => InventoryInv'
<1> SUFFICES ASSUME InventoryInv, Parse PROVE InventoryInv'
  OBVIOUS
<1>1. /\ pc = "parse" /\ pc' = "again" /\ ParseHolds /\ observed' = Observe[Contract][file[at]]
      /\ UNCHANGED <<file, call, required, given, contracts, expected, demanded, entries, complete,
                     todo, at, digest, answer, stale, touched, writes>>
  BY DEF Parse, Goes, args
<1>2. at \in Paths /\ file[at] \in Contents
  BY <1>1 DEF InventoryInv, TypeOK, ParseHolds
<1>3. Contract \in Contracts /\ Contract' = Contract
  BY <1>1, <1>2 DEF InventoryInv, TypeOK, ParseHolds, Contract, Demands
<1>4. TypeOK'
  BY <1>1, <1>2, <1>3, ObservationsType DEF InventoryInv, TypeOK
<1>5. Listed' = Listed /\ Embedded' = Embedded /\ \A q \in Paths : EntryHolds(q)' <=> EntryHolds(q)
  BY <1>1, SameEntries
<1>6. (~stale => ~touched /\ \A q \in Listed : EntryHolds(q))'
  BY <1>1, <1>5 DEF InventoryInv, Listed
<1>7. (call = "verify" /\ ~touched /\ pc # "idle" => \A q \in Listed \ todo : EntryHolds(q))'
  BY <1>1, <1>5 DEF InventoryInv, Listed
<1>8. call = "verify" => observed' = entries[at].observed
  BY <1>1 DEF ParseHolds
<1>9. file[at] \in Accepts[Contract] /\ Contract # NoContract
  BY <1>1 DEF ParseHolds
<1> QED
  BY <1>1, <1>3, <1>4, <1>5, <1>6, <1>7, <1>8, <1>9 DEF InventoryInv, WellFormed

\* An artifact that is done with has a true entry, if nobody writes.
LEMMA HandledKeeps ==
  ASSUME InventoryInv, NEW saw \in Observations, pc \in {"parse", "again"}, Handled(saw),
         Goes("digest"),
         ~touched => /\ file[at] = digest
                     /\ Contract # NoContract => /\ file[at] \in Accepts[Contract]
                                                 /\ saw = Observe[Contract][file[at]],
         call = "verify" /\ Contract # NoContract => saw = entries[at].observed
  PROVE  InventoryInv'
<1>1. /\ pc' = "digest" /\ todo' = todo \ {at} /\ at' = Unknown /\ digest' = Unknown
      /\ observed' = Unknown /\ answer = "none"
      /\ UNCHANGED <<file, call, required, given, contracts, expected, demanded, complete, answer,
                     stale, touched, writes>>
  BY DEF Handled, Goes, args, InventoryInv
<1>2. at \in todo /\ at \in Paths /\ digest \in Contents
  BY DEF InventoryInv, TypeOK
<1>3. CASE call = "verify"
  <2>1. entries' = entries
    BY <1>3 DEF Handled
  <2>2. TypeOK'
    BY <1>1, <2>1, ObservationsType DEF InventoryInv, TypeOK
  <2>3. Listed' = Listed /\ Embedded' = Embedded /\ \A q \in Paths : EntryHolds(q)' <=> EntryHolds(q)
    BY <1>1, <2>1, SameEntries
  <2>4. (~stale => ~touched /\ \A q \in Listed : EntryHolds(q))'
    BY <1>1, <2>3 DEF InventoryInv, Listed
  <2>5. ~touched => EntryHolds(at)
    BY <1>2, <1>3 DEF InventoryInv, EntryHolds, Contract
  <2>6. (call = "verify" /\ ~touched /\ pc # "idle" => \A q \in Listed \ todo : EntryHolds(q))'
    BY <1>1, <1>3, <2>3, <2>5 DEF InventoryInv, Listed
  <2> QED
    BY <1>1, <1>3, <2>2, <2>3, <2>4, <2>6 DEF InventoryInv, WellFormed
<1>4. CASE call = "build"
  <2> DEFINE entry == [digest |-> digest, contract |-> contracts[at], observed |-> saw]
  <2>1. entries' = [entries EXCEPT ![at] = entry]
    BY <1>4 DEF Handled
  <2>2. entry \in [digest : Contents \cup {Unknown},
                   contract : Contracts \cup {NoContract},
                   observed : Observations]
    BY <1>2 DEF InventoryInv, TypeOK, Demands
  <2>3. TypeOK'
    <3> HIDE DEF entry
    <3> QED
      BY <1>1, <2>1, <2>2, ObservationsType DEF InventoryInv, TypeOK
  <2>4. entries'[at] = entry /\ \A q \in Paths \ {at} : entries'[q] = entries[q]
    <3> HIDE DEF entry
    <3> QED
      BY <1>2, <2>1 DEF InventoryInv, TypeOK
  <2>5. entry # NoEntry
    BY <1>2 DEF NoEntry
  <2>6. Listed' = Listed \cup {at}
    <3> HIDE DEF entry
    <3> QED
      BY <1>2, <2>4, <2>5 DEF Listed, NoEntry
  <2>7. \A q \in Paths \ {at} : EntryHolds(q)' <=> EntryHolds(q)
    BY <1>1, <2>4 DEF EntryHolds
  <2>0. PICK a \in Paths : a = at
    BY <1>2
  <2>8. ~touched => EntryHolds(a)'
    BY <1>1, <1>4, <2>0, <2>4 DEF EntryHolds, Contract
  <2>9. (~stale => ~touched /\ \A q \in Listed : EntryHolds(q))'
    BY <1>1, <2>0, <2>6, <2>7, <2>8 DEF InventoryInv, Listed
  <2>10. (\A q \in Listed : Embedded[q] = contracts[q])'
    <3>1. \A q \in Listed : Embedded[q] = contracts[q]
      BY DEF InventoryInv
    <3>2. \A q \in Paths : Embedded'[q] = entries'[q].contract /\ Embedded[q] = entries[q].contract
      BY DEF Embedded
    <3> QED
      BY <1>1, <1>2, <2>4, <2>6, <3>1, <3>2 DEF Listed
  <2>11. ~complete /\ required = Listed \cup todo
    BY <1>4 DEF InventoryInv
  <2>12. (required = Listed \cup todo)'
    BY <1>1, <1>2, <2>6, <2>11
  <2> QED
    BY <1>1, <1>4, <2>3, <2>9, <2>10, <2>11, <2>12 DEF InventoryInv
<1> QED
  BY <1>3, <1>4 DEF InventoryInv, TypeOK

LEMMA WriteKeeps ==
  ASSUME InventoryInv, NEW p \in Paths, Write(p)
  PROVE  InventoryInv'
<1>1. /\ file' \in [Paths -> Contents \cup {Absent}]
      /\ writes' \in 0 .. MaxWrites /\ stale' = TRUE /\ touched' = TRUE
      /\ UNCHANGED <<pc, call, required, given, contracts, expected, demanded, entries, complete,
                     todo, at, digest, observed, answer>>
  BY DEF Write, args, work, InventoryInv, TypeOK
<1>2. TypeOK'
  BY <1>1 DEF InventoryInv, TypeOK
<1>3. Listed' = Listed /\ Embedded' = Embedded
  BY <1>1 DEF Listed, Embedded
<1> QED
  BY <1>1, <1>2, <1>3 DEF InventoryInv, WellFormed

LEMMA FinishBuildKeeps == InventoryInv /\ FinishBuild => InventoryInv'
<1> SUFFICES ASSUME InventoryInv, FinishBuild PROVE InventoryInv'
  OBVIOUS
<1>1. /\ pc' = "idle" /\ todo' = {} /\ at' = Unknown /\ digest' = Unknown /\ observed' = Unknown
      /\ answer' = "built" /\ complete' = TRUE /\ call = "build" /\ pc = "digest" /\ todo = {}
      /\ WellFormed
      /\ UNCHANGED <<file, call, required, given, contracts, expected, demanded, entries, stale,
                     touched, writes>>
  BY DEF FinishBuild, Ends, args
<1>2. TypeOK'
  BY <1>1, ObservationsType DEF InventoryInv, TypeOK
<1>3. Listed' = Listed /\ Embedded' = Embedded /\ \A p \in Paths : EntryHolds(p)' <=> EntryHolds(p)
  BY <1>1, SameEntries
<1>4. (complete => Listed = required /\ WellFormed)'
  BY <1>1, <1>3 DEF InventoryInv, WellFormed
<1>5. (~stale => ~touched /\ \A p \in Listed : EntryHolds(p))'
  BY <1>1, <1>3 DEF InventoryInv, Listed
<1> QED
  BY <1>1, <1>2, <1>3, <1>4, <1>5 DEF InventoryInv

LEMMA NextInventory == InventoryInv /\ [Next]_vars => InventoryInv'
<1> SUFFICES ASSUME InventoryInv, Next \/ UNCHANGED vars PROVE InventoryInv'
  OBVIOUS
<1>1. CASE NoParse
  BY <1>1, HandledKeeps, ObservationsType DEF NoParse, InventoryInv
<1>2. CASE DigestAgain
  <2>1. observed \in Observations /\ pc = "again" /\ Handled(observed) /\ Goes("digest")
    BY <1>2 DEF DigestAgain, InventoryInv, TypeOK
  <2> QED
    BY <1>2, <2>1, HandledKeeps DEF InventoryInv
<1>3. CASE BuildRefused \/ ParseFails \/ DigestAgainFails
  BY <1>3, EndKeeps DEF BuildRefused, ParseFails, DigestAgainFails
<1>4. CASE FinishVerify
  <2> DEFINE result == IF SetsMatch THEN "accepted" ELSE "failed"
  <2>1. result \in {"accepted", "failed"} /\ Ends(result) /\ UNCHANGED <<entries, complete>>
    BY <1>4 DEF FinishVerify
  <2> HIDE DEF result
  <2> QED
    BY <2>1, EndKeeps
<1>5. ASSUME NEW p \in Paths, DigestFails(p) PROVE InventoryInv'
  BY <1>5, EndKeeps DEF DigestFails
<1>6. CASE UNCHANGED vars
  <2>1. UNCHANGED <<file, pc, call, required, given, contracts, expected, demanded, entries,
                    complete, todo, at, digest, observed, answer, stale, touched, writes>>
    BY <1>6 DEF vars, args, work
  <2>2. TypeOK'
    BY <2>1 DEF InventoryInv, TypeOK
  <2>3. Listed' = Listed /\ Embedded' = Embedded /\ \A p \in Paths : EntryHolds(p)' <=> EntryHolds(p)
    BY <2>1, SameEntries
  <2>4. (~stale => ~touched /\ \A p \in Listed : EntryHolds(p))'
    BY <2>1, <2>3 DEF InventoryInv, Listed
  <2>5. (call = "verify" /\ ~touched /\ pc # "idle" => \A p \in Listed \ todo : EntryHolds(p))'
    BY <2>1, <2>3 DEF InventoryInv, Listed
  <2> QED
    BY <2>1, <2>2, <2>3, <2>4, <2>5 DEF InventoryInv, WellFormed, Contract
<1> QED
  BY <1>1, <1>2, <1>3, <1>4, <1>5, <1>6, BeginBuildKeeps, BeginVerifyKeeps, DigestKeeps, ParseKeeps,
     FinishBuildKeeps, WriteKeeps DEF Next

\* What builds and verifications know of the artifacts, at every step.
THEOREM InventoryInvariant == Spec => []InventoryInv
BY InitInventory, NextInventory, PTL DEF Spec

\* A verification that gets to its end found every entry true.
LEMMA FinishVerifyHolds ==
  ASSUME InventoryInv, FinishVerify, ~touched, SetsMatch
  PROVE  /\ \A p \in Listed : EntryHolds(p)
         /\ expected # Unknown => Listed = expected
         /\ \A p \in Paths : demanded[p] # NoContract => file[p] \in Accepts[demanded[p]]
<1>1. \A p \in Listed : EntryHolds(p)
  BY DEF FinishVerify, InventoryInv
<1>2. expected # Unknown => Listed = expected
  BY DEF SetsMatch
<1>3. ASSUME NEW p \in Paths, demanded[p] # NoContract
      PROVE  file[p] \in Accepts[demanded[p]]
  <2>1. demanded = Embedded
    BY <1>3 DEF SetsMatch, NoDemands
  <2>2. entries[p].contract = demanded[p]
    BY <2>1 DEF Embedded
  <2>3. p \in Listed
    BY <1>3, <2>2 DEF Listed, NoEntry
  <2> QED
    BY <1>1, <1>3, <2>2, <2>3 DEF EntryHolds
<1> QED
  BY <1>1, <1>2, <1>3

LEMMA NextAccepted ==
  InventoryInv /\ AcceptedContentHolds /\ [Next]_vars => AcceptedContentHolds'
<1> SUFFICES ASSUME InventoryInv, AcceptedContentHolds, Next \/ UNCHANGED vars,
                    answer' = "accepted", ~touched'
             PROVE  /\ (\A p \in Listed : EntryHolds(p))'
                    /\ (expected # Unknown => Listed = expected)'
                    /\ (\A p \in Paths : demanded[p] # NoContract => file[p] \in Accepts[demanded[p]])'
  BY DEF AcceptedContentHolds
<1>1. FinishVerify \/ UNCHANGED vars
  BY DEF Next, BeginBuild, BuildRefused, BeginVerify, Digest, DigestFails, NoParse, Parse, ParseFails,
     DigestAgain, DigestAgainFails, FinishBuild, Write, Ends, Goes, InventoryInv
<1>2. CASE FinishVerify
  <2>1. UNCHANGED <<file, entries, expected, demanded, touched>> /\ SetsMatch
    BY <1>2 DEF FinishVerify, Ends, args
  <2>2. Listed' = Listed /\ \A p \in Paths : EntryHolds(p)' <=> EntryHolds(p)
    BY <2>1, SameEntries
  <2> QED
    BY <1>2, <2>1, <2>2, FinishVerifyHolds DEF Listed
<1>3. CASE UNCHANGED vars
  <2>1. UNCHANGED <<file, entries, expected, demanded, touched, answer>>
    BY <1>3 DEF vars, args
  <2>2. Listed' = Listed /\ \A p \in Paths : EntryHolds(p)' <=> EntryHolds(p)
    BY <2>1, SameEntries
  <2> QED
    BY <2>1, <2>2 DEF AcceptedContentHolds, Listed
<1> QED
  BY <1>1, <1>2, <1>3

\* Content that a quiet verification accepts meets the contracts of the
\* inventory and those its caller demands, whatever happened before.
THEOREM AcceptedContent == Spec => []AcceptedContentHolds
<1>1. Init => AcceptedContentHolds
  BY DEF Init, AcceptedContentHolds
<1> QED
  BY <1>1, NextAccepted, InventoryInvariant, PTL DEF Spec

-----------------------------------------------------------------------------
(* An inventory and the arguments it was built with.                       *)

\* What is demanded of a build that is given contracts is what it resolves.
Verifies ==
  /\ given # NoDemands => contracts = given
  /\ OwnInventoryVerifies

LEMMA OwnSetsMatch ==
  ASSUME InventoryInv, Verifies, FinishVerify, expected = required, demanded = given
  PROVE  SetsMatch
<1>1. complete /\ Listed = required /\ WellFormed
  BY DEF FinishVerify, InventoryInv
<1>2. ASSUME given # NoDemands
      PROVE  contracts = Embedded
  <2>1. contracts \in Demands /\ entries \in [Paths -> [digest : Contents \cup {Unknown},
                                                        contract : Contracts \cup {NoContract},
                                                        observed : Observations]]
    BY DEF InventoryInv, TypeOK
  <2>2. \A p \in Paths : contracts[p] = Embedded[p]
    <3> SUFFICES ASSUME NEW p \in Paths PROVE contracts[p] = Embedded[p]
      OBVIOUS
    <3>1. CASE p \in Listed
      BY <1>1, <3>1 DEF InventoryInv
    <3>2. CASE p \notin Listed
      <4>1. contracts[p] = NoContract
        BY <1>1, <3>2 DEF WellFormed
      <4>2. entries[p].contract = NoContract
        BY <3>2 DEF Listed, NoEntry
      <4> QED
        BY <4>1, <4>2 DEF Embedded
    <3> QED
      BY <3>1, <3>2
  <2> QED
    BY <2>1, <2>2 DEF Embedded, Demands
<1> QED
  BY <1>1, <1>2 DEF SetsMatch, Verifies

LEMMA NextVerifies ==
  ASSUME ~MixedArguments
  PROVE  InventoryInv /\ Verifies /\ [Next]_vars => Verifies'
<1> SUFFICES ASSUME InventoryInv, Verifies, Next \/ UNCHANGED vars PROVE Verifies'
  OBVIOUS
<1>1. (given # NoDemands => contracts = given)'
  <2>1. CASE BeginBuild
    <3>1. PICK csv \in SUBSET Paths, g \in Demands :
            given' = g /\ contracts' = Resolved(g, csv) /\ (Resolved(g, csv) = g \/ g = NoDemands)
      BY <2>1 DEF BeginBuild
    <3> QED
      BY <3>1
  <2>2. CASE UNCHANGED <<given, contracts>>
    BY <2>2 DEF Verifies
  <2> QED
    BY <2>1, <2>2 DEF Next, BuildRefused, BeginVerify, Digest, DigestFails, NoParse, Parse, ParseFails,
       DigestAgain, DigestAgainFails, FinishBuild, FinishVerify, Write, Ends, Goes, args, vars
<1>2. OwnInventoryVerifies'
  <2> SUFFICES ASSUME call' = "verify", answer' = "failed", expected' = required',
                      demanded' = given', ~stale'
               PROVE  FALSE
    BY DEF OwnInventoryVerifies
  <2>1. /\ call = "verify" /\ expected = required /\ demanded = given /\ ~stale
        /\ pc # "idle" /\ answer # "failed"
    <3>1. \/ ParseFails \/ DigestAgainFails \/ FinishVerify \/ BuildRefused
          \/ \E p \in Paths : DigestFails(p)
          \/ UNCHANGED <<call, answer, expected, required, demanded, given, stale>>
      BY DEF Next, BeginBuild, BeginVerify, Digest, NoParse, Parse, DigestAgain, FinishBuild, Write,
         Ends, Goes, args, vars
    <3>2. CASE UNCHANGED <<call, answer, expected, required, demanded, given, stale>>
      BY <3>2 DEF Verifies, OwnInventoryVerifies
    <3> QED
      BY <3>1, <3>2 DEF ParseFails, DigestAgainFails, FinishVerify, BuildRefused, DigestFails, Ends,
         args, InventoryInv
  <2>2. ~touched /\ \A p \in Listed : EntryHolds(p)
    BY <2>1 DEF InventoryInv
  <2>3. todo \subseteq Listed
    BY <2>1 DEF InventoryInv
  <2>4. \/ ParseFails \/ DigestAgainFails \/ FinishVerify
        \/ \E p \in Paths : DigestFails(p)
    BY <2>1 DEF Next, BeginBuild, BuildRefused, BeginVerify, Digest, NoParse, Parse, DigestAgain,
       FinishBuild, Write, Ends, Goes, vars
  <2>5. CASE FinishVerify
    BY <2>1, <2>5, OwnSetsMatch DEF FinishVerify, Ends
  <2>6. CASE ParseFails
    <3>1. at \in Listed /\ EntryHolds(at) /\ Contract = entries[at].contract /\ Contract # NoContract
      BY <2>1, <2>2, <2>3, <2>6 DEF InventoryInv, ParseFails, Contract
    <3>2. file[at] # Absent
      BY <2>1, <2>2, <2>6 DEF InventoryInv, ParseFails
    <3> QED
      BY <2>6, <3>1, <3>2 DEF ParseFails, ParseHolds, EntryHolds
  <2>7. CASE DigestAgainFails
    BY <2>1, <2>2, <2>7 DEF DigestAgainFails, InventoryInv
  <2>8. ASSUME NEW p \in Paths, DigestFails(p) PROVE FALSE
    <3>1. p \in Listed /\ file[p] = entries[p].digest
      BY <2>2, <2>3, <2>8 DEF DigestFails, EntryHolds
    <3>2. file[p] = Absent
      BY <2>2, <2>8, <3>1 DEF DigestFails
    <3> QED
      BY <3>1, <3>2 DEF InventoryInv, TypeOK
  <2> QED
    BY <2>4, <2>5, <2>6, <2>7, <2>8
<1> QED
  BY <1>1, <1>2 DEF Verifies

\* "Re-verify payload bytes immediately before committing": where
\* csv_contract_paths adds nothing to contracts that are given, it fails only if a
\* byte changed.
THEOREM OwnInventory == ~MixedArguments /\ Spec => []OwnInventoryVerifies
<1>1. Init => Verifies
  BY DEF Init, Verifies, OwnInventoryVerifies
<1>2. Verifies => OwnInventoryVerifies
  BY DEF Verifies
<1>3. CASE MixedArguments
  BY <1>3
<1>4. CASE ~MixedArguments
  <2>1. InventoryInv /\ Verifies /\ [Next]_vars => Verifies'
    BY <1>4, NextVerifies
  <2> QED
    BY <1>1, <1>2, <2>1, InventoryInvariant, PTL DEF Spec
<1> QED
  BY <1>3, <1>4
===============================================================================
