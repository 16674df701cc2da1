----------------------------- MODULE CommandLine -----------------------------
(***************************************************************************)
(* The verifying command and the trusted contract it works under.          *)
(*                                                                         *)
(* Renderers write a contract over the contract file, validate what is     *)
(* there, and remove it when it is not valid; each may die on the way.     *)
(* The command loads the file, puts its flags on top of it and calls       *)
(* verify_release_security, which VerifiedLoad models step by step and     *)
(* which here refuses exactly the manifests its arguments refuse.          *)
(*                                                                         *)
(* A file is loaded in one step: that a stable read returns what the path  *)
(* held is StableRead's.  Every release is signed (VerifiedLoad), so that  *)
(* require_signature matters for the validity of a contract only.  A       *)
(* command that is refused before it verifies changes nothing and is no    *)
(* step.                                                                   *)
(***************************************************************************)
EXTENDS VerifiedLoad, Integers

CONSTANTS Renderers,   \* processes that render contracts
          KeyIds,      \* key ids that are named in contracts, flags, manifests
          Blank,       \* a key id that normalized_key_id refuses
          StateOf,     \* what the manifest of each version declares
          SequenceOf,
          KeyIdOf,
          Environments,\* key ids that the environment of a command names
          Handwritten, \* valid contracts that were not rendered
          Inputs       \* key id and minimum sequence of the renderings

ReleaseStates == {"PROMOTE", "HOLD"}

\* Parsed contract files, with the fields that a verification depends on.
Documents == [require : BOOLEAN,
              keyId : KeyIds \cup {None, Blank},
              minimum : Int \cup {None},
              states : SUBSET ReleaseStates]

\* The arguments of a command: whether it was given a contract file, the
\* contract it loaded, its flags, and the key id of the environment.
Commands == [given : BOOLEAN, contract : Documents \cup {None}, promote : BOOLEAN,
             keyId : KeyIds \cup {None}, environment : KeyIds \cup {None}]

NoCommand == [given |-> FALSE, contract |-> None, promote |-> FALSE,
              keyId |-> None, environment |-> None]

\* load_release_contract accepts the document.
Valid(d) == /\ d.keyId # Blank
            /\ d.require => d.keyId # None
            /\ d.minimum # None => d.minimum >= 0
            /\ d.states # {}

ASSUME CommandLineAssumption ==
  /\ StateOf \in [Versions -> ReleaseStates]
  /\ SequenceOf \in [Versions -> Nat \cup {None}]
  /\ KeyIdOf \in [Versions -> KeyIds]
  /\ None \notin KeyIds \cup Int \cup Documents
  /\ Blank \notin KeyIds \cup {None}
  /\ {"nobody", "dead"} \cap Renderers = {}
  /\ Environments \subseteq KeyIds \cup {None}
  /\ Handwritten \in SUBSET {d \in Documents : Valid(d)}
  /\ Inputs \in SUBSET [keyId : KeyIds \cup {Blank}, minimum : Int]

VARIABLES contractFile, \* the document in the contract file, or None
          renderer,     \* where each renderer is
          contractBy,   \* the renderer that answers for the file
          command       \* the command under way

contractVars == <<contractFile, renderer, contractBy>>
commandVars == <<vars, contractVars, command>>

CommandInit == /\ Init
               /\ contractFile \in Handwritten \cup {None}
               /\ renderer = [r \in Renderers |-> "idle"]
               /\ contractBy = "nobody"
               /\ command = NoCommand

-----------------------------------------------------------------------------
(* render_release_contract_template.                                       *)

\* The template demands a signature and promotion; its tokens are replaced.
Rendered(input) == [require |-> TRUE, keyId |-> input.keyId,
                    minimum |-> input.minimum, states |-> {"PROMOTE"}]

\* The contract replaces whatever is in the file ...
Render(r) == /\ renderer[r] = "idle"
             /\ \E input \in Inputs : contractFile' = Rendered(input)
             /\ contractBy' = r
             /\ renderer' = [renderer EXCEPT ![r] = "written"]
             /\ UNCHANGED <<vars, command>>

Loadable == contractFile # None /\ Valid(contractFile)

RenderReturnsAnyway(r) == /\ renderer[r] = "written"
                          /\ renderer' = [renderer EXCEPT ![r] = "idle"]
                          /\ UNCHANGED <<vars, contractFile, contractBy, command>>

\* ... and is loaded back from it; what is loaded is returned ...
RenderReturns(r) == /\ renderer[r] = "written"
                    /\ Loadable
                    /\ renderer' = [renderer EXCEPT ![r] = "idle"]
                    /\ UNCHANGED <<vars, contractFile, contractBy, command>>

RenderRefused(r) == /\ renderer[r] = "written"
                    /\ ~Loadable
                    /\ renderer' = [renderer EXCEPT ![r] = "refused"]
                    /\ UNCHANGED <<vars, contractFile, contractBy, command>>

\* ... or the file, as it then is, is removed.
RemoveRendered(r) == /\ renderer[r] = "refused"
                     /\ contractFile' = None
                     /\ contractBy' = "nobody"
                     /\ renderer' = [renderer EXCEPT ![r] = "idle"]
                     /\ UNCHANGED <<vars, command>>

RendererDies(r) == /\ renderer[r] # "idle"
                   /\ renderer' = [renderer EXCEPT ![r] = "idle"]
                   /\ contractBy' = IF contractBy = r THEN "dead" ELSE contractBy
                   /\ UNCHANGED <<vars, contractFile, command>>

-----------------------------------------------------------------------------
(* The command (main of cli.py) and the calls of serving code.             *)

NotConflicting(d, flag) == TRUE

\* --expected-key-id may not contradict the contract.
KeyIdsAgree(d, flag) == d # None => flag \in {None, d.keyId} \/ d.keyId = None

\* The contract's key id, else the flag's, else that of the environment.
ExpectedKeyId(c) == IF c.contract # None /\ c.contract.keyId # None THEN c.contract.keyId
                    ELSE IF c.keyId # None THEN c.keyId ELSE c.environment

\* --require-promote takes the place of the contract's states.
AllowedStates(c) == IF c.promote THEN {"PROMOTE"}
                    ELSE IF c.contract = None THEN ReleaseStates ELSE c.contract.states

Minimum(c) == IF c.contract = None THEN None ELSE c.contract.minimum

\* The manifest of version v passes the checks of its fields.
Meets(c, v) ==
  /\ StateOf[v] \in AllowedStates(c)
  /\ Minimum(c) # None => SequenceOf[v] # None /\ SequenceOf[v] >= Minimum(c)
  /\ ExpectedKeyId(c) # None => KeyIdOf[v] = ExpectedKeyId(c)

LoadContractIfAny == IF Loadable THEN {contractFile} ELSE {None}

\* A contract file that cannot be loaded ends the command.
LoadContract == IF Loadable THEN {contractFile} ELSE {}

\* The command loads the contract, or was given none, and calls the verifier.
Invoke == /\ Call
          /\ entry' = "verify"
          /\ \E given, promote \in BOOLEAN, flag \in KeyIds \cup {None},
                environment \in Environments :
               \E d \in IF given THEN LoadContract ELSE {None} :
                 /\ KeyIdsAgree(d, flag)
                 /\ command' = [given |-> given, contract |-> d, promote |-> promote,
                                keyId |-> flag, environment |-> environment]
          /\ UNCHANGED contractVars

\* Serving code loads artifacts, with no contract of its own.
Serve == /\ Call
         /\ entry' = "load"
         /\ command' = NoCommand
         /\ UNCHANGED contractVars

\* The call goes on; the manifest it reads passes if and only if it meets
\* the arguments, which are forgotten when the command fails.
Verify == /\ Work
          /\ pc = "readManifest" => (pc' = "hashInventory" <=> Meets(command, file["manifest"]))
          /\ command' = IF pc' = "failed" THEN NoCommand ELSE command
          /\ UNCHANGED contractVars

Others == /\ OtherLocks \/ OtherUnlocks \/ \E f \in Files : OtherWrites(f)
          /\ UNCHANGED <<contractVars, command>>

CommandNext == \/ \E r \in Renderers : \/ Render(r)
                                       \/ RenderReturns(r)
                                       \/ RenderRefused(r)
                                       \/ RemoveRendered(r)
                                       \/ RendererDies(r)
               \/ Invoke
               \/ Serve
               \/ Verify
               \/ Others

CommandSpec == CommandInit /\ [][CommandNext]_commandVars

FairCommandSpec == CommandSpec /\ WF_commandVars(Verify)

-----------------------------------------------------------------------------
CommandTypeOK ==
  /\ TypeOK
  /\ contractFile \in Documents \cup {None}
  /\ renderer \in [Renderers -> {"idle", "written", "refused"}]
  /\ contractBy \in Renderers \cup {"nobody", "dead"}
  /\ command \in Commands

\* What the command accepts meets every clause of the contract that it loaded
\* and every flag, whatever replaces the contract file or the release files
\* meanwhile.  The states of the contract give way to --require-promote.
AcceptedUnderContract ==
  pc \in {"return", "done"} /\ entry = "verify" =>
    /\ command.promote => StateOf[manifest] = "PROMOTE"
    /\ command.keyId # None => KeyIdOf[manifest] = command.keyId
    /\ command.given => command.contract # None
    /\ command.contract # None =>
         /\ Valid(command.contract)
         /\ command.contract.keyId # None => KeyIdOf[manifest] = command.contract.keyId
         /\ command.contract.minimum # None =>
              /\ SequenceOf[manifest] # None
              /\ SequenceOf[manifest] >= command.contract.minimum
         /\ StateOf[manifest] \in command.contract.states \/ command.promote

\* An invalid contract never outlives its renderer, unless that renderer died:
\* some renderer is still to remove it, however renderings overlap.
InvalidContractIsRemoved ==
  contractFile # None /\ ~Valid(contractFile) =>
    \/ contractBy = "dead"
    \/ contractBy \in Renderers /\ renderer[contractBy] # "idle"

\* Both, with what they rest on.
CommandInv ==
  /\ CommandTypeOK
  /\ InvalidContractIsRemoved
  /\ command.given <=> command.contract # None
  /\ command.contract # None => Valid(command.contract)
  /\ KeyIdsAgree(command.contract, command.keyId)
  /\ pc \in {"hashInventory", "readInventory", "verifyArtifacts", "readArtifacts",
             "return", "done"} => Meets(command, manifest)

\* --require-promote only narrows what the contract allows.
ContractStatesHold ==
  pc = "done" /\ entry = "verify" /\ command.contract # None =>
    StateOf[manifest] \in command.contract.states

\* "Render, validate, and atomically write": a valid contract is only ever
\* replaced by a valid one.
ValidContractSurvives == [][Loadable => Loadable']_commandVars

\* A renderer that was refused removes what it rendered, not the valid contract
\* that another one has put there since.
RemovesOnlyInvalid ==
  [][\A r \in Renderers : RemoveRendered(r) => ~Loadable]_commandVars
=============================================================================
