------------------------------- MODULE Minter --------------------------------
(***************************************************************************)
(* examples/minter/src/App.tsx: the page on which the operator plans,      *)
(* deploys and registers a jetton master, and reads the backend's .env.    *)
(*                                                                         *)
(* A master's address is the hash of its initial data.  Here it stands for *)
(* what the operator can vary in them: the kind, and for an RMJ master the *)
(* signer, numbered in the order of generation.  URLs, texts and amounts   *)
(* are valid and left out.  busy disables only the deploy button, so the   *)
(* form changes under a call that waits for the wallet or the backend.     *)
(***************************************************************************)
EXTENDS Integers, Sequences, FiniteSets

CONSTANTS
    MaxKeys,            \* bound on the signers generated
    Nothing             \* no plan, no call in progress, not registered

VARIABLES
    form,               \* jettonKind and signerSeedHex: number of the signer, 0 before
    connected,          \* walletAddress of TON Connect is there
    step,               \* the step shown
    call,               \* the call of deployMaster in progress
    deployed,           \* deployedMaster
    deploying,          \* deploy messages that may still land
    masters,            \* masters on chain
    registry            \* kv jetton_registry:<master> : the kind

formVars == <<form, connected, step>>
minterVars == <<form, connected, step, call, deployed, deploying, masters, registry>>

ASSUME MinterAssumption == MaxKeys \in Nat 

Kinds == {"rmj", "mintless"}
Keys == 0..MaxKeys
Master == [kind : {"rmj"}, key : 1..MaxKeys] \cup [kind : {"mintless"}, key : {0}]
DeployCall == [pc : {"send", "register"}, master : Master, kind : Kinds]

ASSUME MinterNothing == Nothing \notin Master /\ Nothing \notin DeployCall /\ Nothing \notin Kinds

EmptyForm == [kind |-> "rmj", key |-> 0]

MinterInit ==
    /\ form = EmptyForm /\ connected = FALSE /\ step = 1
    /\ call = Nothing /\ deployed = Nothing
    /\ deploying = {} /\ masters = {}
    /\ registry = [m \in Master |-> Nothing]

MinterTypeOK ==
    /\ form \in [kind : Kinds, key : Keys] /\ connected \in BOOLEAN /\ step \in 1..4
    /\ call \in DeployCall \cup {Nothing}
    /\ deployed \in Master \cup {Nothing}
    /\ deploying \subseteq Master /\ masters \subseteq Master
    /\ registry \in [Master -> Kinds \cup {Nothing}]

-----------------------------------------------------------------------------
(* The form *)

\* The master whose address is shown: its initial data are complete.
PlannedMintlessDeploy == IF connected THEN [kind |-> "mintless", key |-> 0] ELSE Nothing
PlannedRmjDeploy ==
    IF connected /\ form.key > 0 THEN [kind |-> "rmj", key |-> form.key] ELSE Nothing
Planned == IF form.kind = "mintless" THEN PlannedMintlessDeploy ELSE PlannedRmjDeploy

\* validationStep2 and validationDeploy, for texts that are valid.
Valid == Planned # Nothing

ToggleWallet ==
    /\ connected' = ~connected
    /\ UNCHANGED <<form, step, call, deployed, deploying, masters, registry>>

ChooseKind(k) ==
    /\ form' = [form EXCEPT !.kind = k]
    /\ UNCHANGED <<connected, step, call, deployed, deploying, masters, registry>>

\* The buttons of the header reach every step, whatever is filled in.
GoToStep(s) ==
    /\ step' = s
    /\ UNCHANGED <<form, connected, call, deployed, deploying, masters, registry>>

RegenerateSigner ==
    /\ step = 2 /\ form.key < MaxKeys
    /\ form' = [form EXCEPT !.key = @ + 1]
    /\ UNCHANGED <<connected, step, call, deployed, deploying, masters, registry>>

-----------------------------------------------------------------------------
(* deployMaster *)

\* Up to sendTransaction, with the plan and the kind of the render that was clicked.
DeployMaster ==
    /\ step = 3 /\ call = Nothing /\ Valid
    /\ call' = [pc |-> "send", master |-> Planned, kind |-> form.kind]
    /\ UNCHANGED <<formVars, deployed, deploying, masters, registry>>

\* The wallet has signed and sent the message.
Signed ==
    /\ call # Nothing /\ call.pc = "send"
    /\ deploying' = deploying \cup {call.master}
    /\ deployed' = call.master
    /\ call' = [call EXCEPT !.pc = "register"]
    /\ UNCHANGED <<formVars, masters, registry>>

Rejected ==
    /\ call # Nothing /\ call.pc = "send"
    /\ call' = Nothing
    /\ UNCHANGED <<formVars, deployed, deploying, masters, registry>>

\* Mutation of RegisteredKind: the kind chosen by the time the wallet answers.
RegisteredKindOfForm(c) == form.kind

\* The kind in the body of POST /api/v1/jettons/register.
RegisteredKind(c) == c.kind

Registered(c) == [registry EXCEPT ![c.master] = RegisteredKind(c)]

Register ==
    /\ call # Nothing /\ call.pc = "register"
    /\ registry' = Registered(call)
    /\ call' = Nothing /\ step' = 4
    /\ UNCHANGED <<form, connected, deployed, deploying, masters>>

\* The request or only its answer is lost: a note asks for a registration by hand, which
\* is not modelled.
RegisterFails ==
    /\ call # Nothing /\ call.pc = "register"
    /\ registry' \in {registry, Registered(call)}
    /\ call' = Nothing /\ step' = 4
    /\ UNCHANGED <<form, connected, deployed, deploying, masters>>

NewProject ==
    /\ step = 4 /\ deployed # Nothing
    /\ step' = 1 /\ deployed' = Nothing
    /\ UNCHANGED <<form, connected, call, deploying, masters, registry>>

\* The .env of step 4: the master that was deployed under the variable for the kind that
\* the form shows by now.
EnvSnippet == IF form.kind = "rmj" THEN [JETTON_MASTER_ADDRESS |-> deployed]
              ELSE [MINTLESS_JETTON_MASTER_ADDRESS |-> deployed]

-----------------------------------------------------------------------------
(* The chain *)

MasterLands(m) ==
    /\ m \in deploying
    /\ deploying' = deploying \ {m}
    /\ masters' = masters \cup {m}
    /\ UNCHANGED <<formVars, call, deployed, registry>>

MinterStep ==
    \/ ToggleWallet \/ RegenerateSigner
    \/ \E k \in Kinds \ {form.kind} : ChooseKind(k)
    \/ \E s \in 1..4 \ {step} : GoToStep(s)
    \/ DeployMaster \/ Signed \/ Rejected \/ Register \/ RegisterFails \/ NewProject
    \/ \E m \in deploying : MasterLands(m)

-----------------------------------------------------------------------------

\* However the form changes while the wallet and the backend are awaited, and however
\* often a project is started anew or a registration is repeated: the registry keeps
\* for a master the kind of contract that is deployed at its address.
RegisteredAsDeployed ==
    \A m \in Master : registry[m] # Nothing => registry[m] = m.kind
=============================================================================
