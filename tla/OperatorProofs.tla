---------------------------- MODULE OperatorProofs ----------------------------
(***************************************************************************)
(* What the run of Operator checks on a small instance, proved for any     *)
(* bounds: the registry, the version of the metadata URI, the dump that    *)
(* Toncenter keeps, and the mark of a compliance report.                   *)
(***************************************************************************)
EXTENDS Operator, TLAPS

USE MinterAssumption, MinterNothing, MetadataAssumption, MetadataNothing, ComplianceNothing

(* The steps of the minter, of the syncs, of the chain and of the tab. *)
FormStep ==
    \/ ToggleWallet \/ RegenerateSigner
    \/ \E k \in Kinds \ {form.kind} : ChooseKind(k)
    \/ \E s \in 1..4 \ {step} : GoToStep(s)
DeployStep == DeployMaster \/ Signed \/ Rejected \/ Register \/ RegisterFails \/ NewProject
Landing == \E m \in deploying : MasterLands(m)
Idling == UNCHANGED <<metadataVars, check, page>>

LEMMA Steps ==
    ASSUME Next
    PROVE  \/ env = Nothing /\ Idling /\ (FormStep \/ DeployStep \/ Landing)
           \/ Configure
           \/ env # Nothing /\ Idling /\ Landing
           \/ Running
           \/ PageStep
BY DEF Next, Minting, MinterStep, Deploying, FormStep, DeployStep, Landing, Idling

-----------------------------------------------------------------------------
(* Types of the minter *)

LEMMA EmptyFormTyped == EmptyForm \in [kind : Kinds, key : Keys]
BY DEF EmptyForm, Kinds, Keys

(* A plan is a master of the kind that the form shows. *)
LEMMA PlanTyped ==
    ASSUME MinterTypeOK, Planned # Nothing
    PROVE  Planned \in Master /\ Planned.kind = form.kind
BY DEF MinterTypeOK, Planned, PlannedMintlessDeploy, PlannedRmjDeploy, Master, Kinds, Keys

LEMMA LandingTyped ==
    ASSUME MinterTypeOK, Landing
    PROVE  MinterTypeOK'
BY DEF Landing, MasterLands, MinterTypeOK, formVars

LEMMA FormTyped ==
    ASSUME MinterTypeOK, FormStep
    PROVE  MinterTypeOK'
<1>1. CASE ToggleWallet
  BY <1>1 DEF ToggleWallet, MinterTypeOK
<1>2. CASE RegenerateSigner
  BY <1>2 DEF RegenerateSigner, MinterTypeOK, Keys
<1>3. CASE \E k \in Kinds \ {form.kind} : ChooseKind(k)
  BY <1>3 DEF ChooseKind, MinterTypeOK
<1>4. CASE \E s \in 1..4 \ {step} : GoToStep(s)
  BY <1>4 DEF GoToStep, MinterTypeOK
<1> QED BY <1>1, <1>2, <1>3, <1>4 DEF FormStep

LEMMA DeployTyped ==
    ASSUME MinterTypeOK, DeployStep
    PROVE  MinterTypeOK'
<1>1. CASE DeployMaster
  <2>1. Planned \in Master /\ form.kind \in Kinds
    BY <1>1, PlanTyped DEF DeployMaster, Valid, MinterTypeOK
  <2>2. [pc |-> "send", master |-> Planned, kind |-> form.kind] \in DeployCall
    BY <2>1 DEF DeployCall
  <2> QED BY <1>1, <2>2 DEF DeployMaster, MinterTypeOK, formVars
<1>2. CASE Signed
  BY <1>2 DEF Signed, MinterTypeOK, DeployCall, formVars
<1>3. CASE Rejected
  BY <1>3 DEF Rejected, MinterTypeOK, formVars
<1>4. CASE Register \/ RegisterFails
  <2>1. call \in DeployCall
    BY <1>4 DEF Register, RegisterFails, MinterTypeOK
  <2>2. Registered(call) \in [Master -> Kinds \cup {Nothing}]
    BY <2>1 DEF Registered, RegisteredKind, MinterTypeOK, DeployCall
  <2> QED BY <1>4, <2>2 DEF Register, RegisterFails, MinterTypeOK
<1>5. CASE NewProject
  BY <1>5 DEF NewProject, MinterTypeOK
<1> QED BY <1>1, <1>2, <1>3, <1>4, <1>5 DEF DeployStep

-----------------------------------------------------------------------------
(* Types of the backend and the chain *)

LEMMA SyncStartTyped ==
    ASSUME MetadataTypeOK, NEW s \in Callers, SyncStart(s)
    PROVE  sync' \in [Callers -> SyncCall \cup {Nothing}]
<1>1. [pc |-> "read", root |-> tree, epoch |-> 0, bump |-> FALSE] \in SyncCall
  BY DEF SyncCall, MetadataTypeOK
<1> QED BY <1>1 DEF SyncStart, MetadataTypeOK

LEMMA SyncStepTyped ==
    ASSUME MetadataTypeOK, SyncStep
    PROVE  MetadataTypeOK'
<1> PICK s \in Callers : SyncRead(s) \/ SyncUri(s) \/ SyncSend(s)
  BY DEF SyncStep
<1> DEFINE c == sync[s]
<1>1. c # Nothing /\ c \in SyncCall
  BY DEF SyncRead, SyncUri, SyncSend, SyncAt, MetadataTypeOK
<1>2. CASE SyncRead(s)
  <2>1. chain.epoch + 1 \in Nat
    BY DEF MetadataTypeOK
  <2>2. [c EXCEPT !.pc = "uri", !.epoch = chain.epoch + 1] \in SyncCall
    BY <1>1, <2>1 DEF SyncCall
  <2> QED BY <1>2, <2>2 DEF SyncRead, MetadataTypeOK, backendVars, chainVars
<1>3. CASE SyncUri(s)
  <2> PICK bump \in {NeedsMetadataBump(s), TRUE} :
           sync' = [sync EXCEPT ![s].pc = "send", ![s].bump = bump]
    BY <1>3 DEF SyncUri
  <2>1. bump \in BOOLEAN
    BY DEF NeedsMetadataBump
  <2>2. [c EXCEPT !.pc = "send", !.bump = bump] \in SyncCall
    BY <1>1, <2>1 DEF SyncCall
  <2> QED BY <1>3, <2>2 DEF SyncUri, MetadataTypeOK, backendVars, chainVars
<1>4. CASE SyncSend(s)
  <2> DEFINE t == [seqno |-> seqno, commit |-> [root |-> c.root, epoch |-> c.epoch],
                   content |-> IF c.bump THEN c.epoch ELSE Nothing]
  <2>1. t \in Transfer
    BY <1>1 DEF Transfer, Commit, SyncCall, MetadataTypeOK
  <2>2. transfers' \subseteq transfers \cup {t}
    BY <1>4 DEF SyncSend
  <2> HIDE DEF t
  <2>3. transfers' \subseteq Transfer
    BY <2>1, <2>2 DEF MetadataTypeOK
  <2> QED BY <1>4, <2>3 DEF SyncSend, Return, MetadataTypeOK, backendVars
<1> QED BY <1>2, <1>3, <1>4

(* The messages of a transfer, and the two kinds of message. *)
CommitMessage == [root : Root, epoch : Nat]
ContentMessage == [v : Nat, by : {"updater", "operator"}]

LEMMA Kinds2 ==
    /\ \A m \in CommitMessage : m \in Message /\ IsCommit(m)
    /\ \A m \in ContentMessage : m \in Message /\ ~IsCommit(m)
    /\ \A m \in Message : IF IsCommit(m) THEN m \in CommitMessage ELSE m \in ContentMessage
<1>1. \A m \in CommitMessage : m \in Message /\ IsCommit(m)
  BY DEF CommitMessage, Message, IsCommit
<1>2. \A m \in ContentMessage : m \in Message /\ ~IsCommit(m)
  BY DEF ContentMessage, Message, IsCommit
<1> QED BY <1>1, <1>2 DEF CommitMessage, ContentMessage, Message

(* The inbox after the admin wallet has taken transfer t: its commit, then its content. *)
Sent(t) ==
    LET content == [v |-> t.content, by |-> IF t.commit = Nothing THEN "operator" ELSE "updater"] IN
    CASE t.commit = Nothing /\ t.content = Nothing -> inbox
      [] t.commit # Nothing /\ t.content = Nothing -> Append(inbox, t.commit)
      [] t.commit = Nothing /\ t.content # Nothing -> Append(inbox, content)
      [] OTHER -> Append(Append(inbox, t.commit), content)

LEMMA TakenMessages ==
    ASSUME MetadataTypeOK, NEW t \in transfers, WalletTakes(t)
    PROVE  /\ inbox' = Sent(t) /\ inbox' \in Seq(Message)
           /\ t.commit # Nothing => t.commit \in CommitMessage
           /\ t.content # Nothing => t.content \in Nat
<1> DEFINE content == [v |-> t.content, by |-> IF t.commit = Nothing THEN "operator" ELSE "updater"]
<1>1. t \in Transfer /\ inbox \in Seq(Message)
  BY DEF MetadataTypeOK
<1>2. t.commit # Nothing => t.commit \in CommitMessage
  BY <1>1 DEF Transfer, Commit, CommitMessage
<1>3. t.content # Nothing => t.content \in Nat
  BY <1>1 DEF Transfer
<1>4. t.content # Nothing => content \in ContentMessage
  BY <1>3 DEF ContentMessage
<1>5. /\ t.commit # Nothing => t.commit \in Message
      /\ t.content # Nothing => content \in Message
  BY <1>2, <1>4, Kinds2
<1>6. inbox' = inbox \o (IF t.commit = Nothing THEN <<>> ELSE <<t.commit>>)
                     \o (IF t.content = Nothing THEN <<>> ELSE <<content>>)
  BY DEF WalletTakes
<1> HIDE DEF content
<1>7. CASE t.commit = Nothing /\ t.content = Nothing
  BY <1>1, <1>2, <1>3, <1>6, <1>7 DEF Sent
<1>8. CASE t.commit # Nothing /\ t.content = Nothing
  <2>1. inbox' = Append(inbox, t.commit)
    BY <1>1, <1>5, <1>6, <1>8
  <2> QED BY <1>1, <1>2, <1>5, <1>8, <2>1 DEF Sent
<1>9. CASE t.commit = Nothing /\ t.content # Nothing
  <2>1. inbox' = Append(inbox, content)
    BY <1>1, <1>5, <1>6, <1>9
  <2> QED BY <1>1, <1>3, <1>5, <1>9, <2>1 DEF Sent, content
<1>10. CASE t.commit # Nothing /\ t.content # Nothing
  <2>1. inbox' = Append(Append(inbox, t.commit), content)
    BY <1>1, <1>5, <1>6, <1>10
  <2> QED BY <1>1, <1>2, <1>3, <1>5, <1>10, <2>1 DEF Sent, content
<1> QED BY <1>7, <1>8, <1>9, <1>10

LEMMA ReceiveTyped ==
    ASSUME MetadataTypeOK, MasterReceives
    PROVE  MetadataTypeOK'
<1> DEFINE m == Head(inbox)
<1>1. inbox \in Seq(Message) /\ inbox # <<>> /\ m \in Message /\ Tail(inbox) \in Seq(Message)
  BY DEF MasterReceives, MetadataTypeOK
<1>2. chain \in [root : Root, epoch : Nat, uri : Uri] /\ held \subseteq Root
  BY DEF MetadataTypeOK
<1>3. chain' \in [root : Root, epoch : Nat, uri : Uri] /\ held' \subseteq Root
  <2>1. CASE IsCommit(m)
    <3>1. m.root \in Root /\ m.epoch \in Nat
      BY <1>1, <2>1, Kinds2 DEF CommitMessage
    <3>2. UpdateRoot(m)
      BY <2>1 DEF MasterReceives
    <3> HIDE DEF m
    <3> QED BY <1>2, <3>1, <3>2 DEF UpdateRoot
  <2>2. CASE ~IsCommit(m)
    <3>1. m.v \in Nat
      BY <1>1, <2>2, Kinds2 DEF ContentMessage
    <3>2. ChangeContent(m)
      BY <2>2 DEF MasterReceives
    <3> HIDE DEF m
    <3> DEFINE uri == [v |-> m.v, disturbed |-> \/ chain.uri.disturbed \/ m.by = "operator"
                                                \/ m.v < chain.epoch \/ m.v < chain.uri.v]
    <3>3. chain' = [chain EXCEPT !.uri = uri] /\ UNCHANGED held
      BY <3>2 DEF ChangeContent
    <3>4. uri \in Uri
      BY <1>2, <3>1, Zenon DEF Uri
    <3> HIDE DEF uri
    <3> QED BY <1>2, <3>3, <3>4
  <2> QED BY <2>1, <2>2
<1> QED BY <1>1, <1>3 DEF MasterReceives, MetadataTypeOK, backendVars

LEMMA RunningTyped ==
    ASSUME MetadataTypeOK, MetadataStep
    PROVE  MetadataTypeOK'
<1>1. CASE Earn
  BY <1>1 DEF Earn, MetadataTypeOK, chainVars, Root
<1>2. CASE Tick
  <2>1. sync' \in [Callers -> SyncCall \cup {Nothing}]
    BY <1>2, SyncStartTyped DEF Tick, Callers
  <2>2. dbEpoch' \in Nat
    BY <1>2 DEF Tick, MetadataTypeOK
  <2> QED BY <1>2, <2>1, <2>2 DEF Tick, MetadataTypeOK, chainVars
<1>3. CASE SyncStep
  BY <1>3, SyncStepTyped
<1>4. CASE \E t \in transfers : WalletTakes(t)
  <2> PICK t \in transfers : WalletTakes(t)
    BY <1>4
  <2>1. inbox' \in Seq(Message)
    BY TakenMessages
  <2> QED BY <2>1 DEF WalletTakes, MetadataTypeOK, backendVars
<1>5. CASE Expire
  BY <1>5 DEF Expire, MetadataTypeOK, backendVars
<1>6. CASE MasterReceives
  BY <1>6, ReceiveTyped
<1>7. CASE Reindex
  <2> DEFINE i == [uri |-> chain.uri.v, tag |-> DumpTag,
                   dump |-> IF indexer # Nothing /\ indexer.tag = DumpTag THEN indexer.dump
                            ELSE tree]
  <2>1. DumpTag \in Nat \X Root /\ chain.uri.v \in Nat \cup {NoVersion}
    BY DEF DumpTag, MetadataTypeOK, Root, Uri
  <2>2. indexer # Nothing => indexer.dump \in Root
    BY DEF MetadataTypeOK, Cached
  <2>3. i \in Cached
    BY <2>1, <2>2 DEF Cached, MetadataTypeOK
  <2>4. indexer' = i
    BY <1>7 DEF Reindex
  <2> HIDE DEF i
  <2> QED BY <1>7, <2>3, <2>4 DEF Reindex, MetadataTypeOK, backendVars, chainVars
<1> QED BY <1>1, <1>2, <1>3, <1>4, <1>5, <1>6, <1>7 DEF MetadataStep

-----------------------------------------------------------------------------
(* Types of the report and the tab *)

LEMMA CheckTyped ==
    ASSUME TypeOK
    PROVE  StartCheck \in Check
BY DEF TypeOK, MetadataTypeOK, StartCheck, Check

LEMMA PageTyped ==
    ASSUME TypeOK, PageStep
    PROVE  TypeOK'
<1> USE DEF TypeOK
<1>1. CASE ReadMerkle \/ ReadMerkleFails
  <2>1. check \in Check
    BY <1>1 DEF ReadMerkle, ReadMerkleFails, CheckAt, ComplianceTypeOK
  <2>2. chain.root \in Root
    BY DEF MetadataTypeOK
  <2>3. check' \in Check
    BY <1>1, <2>1, <2>2 DEF ReadMerkle, ReadMerkleFails, Check
  <2> QED BY <1>1, <2>3 DEF ReadMerkle, ReadMerkleFails, ComplianceTypeOK, othersVars, minterVars,
             metadataVars, backendVars, chainVars, MinterTypeOK, MetadataTypeOK
<1>2. CASE Refresh \/ SyncAnswered
  <2>1. check' \in Check \cup {Nothing} /\ page' \in Page
    BY <1>2, CheckTyped
       DEF Refresh, SyncAnswered, StartRefresh, ComplianceTypeOK, Page
  <2> QED BY <1>2, <2>1 DEF Refresh, SyncAnswered, ComplianceTypeOK, othersVars, minterVars,
             metadataVars, backendVars, chainVars, MinterTypeOK, MetadataTypeOK
<1>3. CASE FinishRefresh
  <2>1. \A i : SyncMetadata(i) \in Nat \cup {Nothing}
    BY DEF SyncMetadata, MetadataTypeOK
  <2>2. \E bump \in Nat \cup {Nothing} : page' = [busy |-> "no", bump |-> bump]
    BY <1>3, <2>1 DEF FinishRefresh
  <2>3. page' \in Page
    BY <2>2 DEF Page
  <2> QED BY <1>3, <2>3 DEF FinishRefresh, ComplianceTypeOK, othersVars, minterVars,
             metadataVars, backendVars, chainVars, MinterTypeOK, MetadataTypeOK
<1>4. CASE SyncMerkleRoot
  <2>1. sync' \in [Callers -> SyncCall \cup {Nothing}]
    BY <1>4, SyncStartTyped DEF SyncMerkleRoot, Callers
  <2> QED BY <1>4, <2>1 DEF SyncMerkleRoot, ComplianceTypeOK, Page, minterVars,
             backendVars, chainVars, MinterTypeOK, MetadataTypeOK
<1>5. CASE BumpMetadata \/ BumpRejected
  BY <1>5 DEF BumpMetadata, BumpRejected, ComplianceTypeOK, Page, othersVars, minterVars,
     metadataVars, backendVars, chainVars, MinterTypeOK, MetadataTypeOK
<1>6. CASE BumpSigned
  <2> DEFINE t == [seqno |-> seqno, commit |-> Nothing, content |-> page.bump]
  <2>1. t \in Transfer
    BY DEF Transfer, MetadataTypeOK, ComplianceTypeOK, Page
  <2>2. transfers' = transfers \cup {t}
    BY <1>6 DEF BumpSigned
  <2> HIDE DEF t
  <2>3. transfers' \subseteq Transfer
    BY <2>1, <2>2 DEF MetadataTypeOK
  <2> QED BY <1>6, <2>3 DEF BumpSigned, ComplianceTypeOK, Page, minterVars,
             backendVars, chainVars, MinterTypeOK, MetadataTypeOK
<1> QED BY <1>1, <1>2, <1>3, <1>4, <1>5, <1>6 DEF PageStep

LEMMA InitTyped == Init => TypeOK
<1> SUFFICES ASSUME Init
             PROVE  TypeOK
  OBVIOUS
<1>1. MinterTypeOK
  <2>1. form \in [kind : Kinds, key : Keys]
    BY EmptyFormTyped DEF Init, MinterInit
  <2>2. connected \in BOOLEAN
    BY Zenon DEF Init, MinterInit
  <2>4. step \in 1..4 /\ registry \in [Master -> Kinds \cup {Nothing}]
    BY DEF Init, MinterInit
  <2>3. /\ call \in DeployCall \cup {Nothing} /\ deployed \in Master \cup {Nothing}
        /\ deploying \subseteq Master /\ masters \subseteq Master
    BY DEF Init, MinterInit
  <2> QED BY <2>1, <2>2, <2>3, <2>4 DEF MinterTypeOK
<1>2. MetadataTypeOK
  <2>1. [v |-> NoVersion, disturbed |-> FALSE] \in Uri
    BY DEF Uri
  <2>2. chain \in [root : Root, epoch : Nat, uri : Uri]
    BY <2>1 DEF Init, MetadataInit, Root
  <2>3. inbox \in Seq(Message) /\ transfers \subseteq Transfer /\ held \subseteq Root
    BY DEF Init, MetadataInit
  <2>4. sync \in [Callers -> SyncCall \cup {Nothing}] /\ syncing \in BOOLEAN
    BY DEF Init, MetadataInit
  <2> QED BY <2>2, <2>3, <2>4 DEF Init, MetadataInit, MetadataTypeOK, Root
<1>3. ComplianceTypeOK
  BY DEF Init, ComplianceInit, ComplianceTypeOK, Page
<1> QED BY <1>1, <1>2, <1>3 DEF TypeOK

LEMMA NextTyped == TypeOK /\ [Next]_vars => TypeOK'
<1> SUFFICES ASSUME TypeOK, [Next]_vars
             PROVE  TypeOK'
  OBVIOUS
<1> USE DEF TypeOK
<1>0. CASE UNCHANGED vars
  BY <1>0 DEF vars, minterVars, metadataVars, backendVars, chainVars, MinterTypeOK,
     MetadataTypeOK, ComplianceTypeOK
<1>1. CASE Idling /\ (FormStep \/ DeployStep \/ Landing)
  <2>1. MinterTypeOK'
    BY <1>1, FormTyped, DeployTyped, LandingTyped
  <2> QED BY <1>1, <2>1 DEF Idling, metadataVars, backendVars, chainVars, MetadataTypeOK,
             ComplianceTypeOK
<1>2. CASE Configure
  <2>0. form' \in [kind : Kinds, key : Keys]
    BY <1>2, EmptyFormTyped DEF Configure
  <2>3. connected' \in BOOLEAN
    BY <1>2, Zenon DEF Configure
  <2>4. /\ step' = 1 /\ deployed' = Nothing
        /\ UNCHANGED <<call, deploying, masters, registry>>
    BY <1>2 DEF Configure
  <2>1. MinterTypeOK'
    BY <2>0, <2>3, <2>4 DEF MinterTypeOK
  <2>2. env' \in Master
    BY <1>2 DEF Configure, MinterTypeOK
  <2> QED BY <1>2, <2>1, <2>2 DEF Configure, chainVars, MetadataTypeOK, ComplianceTypeOK
<1>3. CASE Running
  <2>1. MetadataTypeOK'
    BY <1>3, RunningTyped DEF Running
  <2> QED BY <1>3, <2>1 DEF Running, minterVars, MinterTypeOK, ComplianceTypeOK
<1>4. CASE PageStep
  BY <1>4, PageTyped
<1> QED BY <1>0, <1>1, <1>2, <1>3, <1>4, Steps

(* Type correctness of the minter, the two syncs, the chain, Toncenter's cache and the   *)
(* compliance tab, for any number of signers, rewards, epochs and transfers.             *)
THEOREM OperatorTypeCorrect == Spec => []TypeOK
BY InitTyped, NextTyped, PTL DEF Spec

-----------------------------------------------------------------------------
(* The registry *)

(* The kind that a call will register is that of its plan, and the backend runs with a   *)
(* registered RMJ master. *)
RegistryInv ==
    /\ TypeOK
    /\ RegisteredAsDeployed
    /\ call # Nothing => call.kind = call.master.kind
    /\ env # Nothing => env.kind = "rmj" /\ registry[env] = "rmj"

LEMMA DeployRegisters ==
    ASSUME RegistryInv, DeployStep
    PROVE  /\ \A m \in Master : registry'[m] # Nothing => registry'[m] = m.kind
           /\ call' # Nothing => call'.kind = call'.master.kind
<1> USE DEF RegistryInv
<1>0. /\ call # Nothing => call \in DeployCall
      /\ registry \in [Master -> Kinds \cup {Nothing}]
  BY DEF TypeOK, MinterTypeOK
<1>1. CASE DeployMaster
  <2>1. Planned.kind = form.kind
    BY <1>1, PlanTyped DEF DeployMaster, Valid, TypeOK
  <2> QED BY <1>1, <2>1 DEF DeployMaster, RegisteredAsDeployed
<1>2. CASE Signed \/ Rejected \/ NewProject
  BY <1>0, <1>2 DEF Signed, Rejected, NewProject, RegisteredAsDeployed, DeployCall
<1>3. CASE Register \/ RegisterFails
  <2>1. registry' = registry \/ registry' = [registry EXCEPT ![call.master] = call.kind]
    BY <1>3 DEF Register, RegisterFails, Registered, RegisteredKind
  <2>2. call # Nothing /\ call' = Nothing
    BY <1>3 DEF Register, RegisterFails
  <2> QED BY <1>0, <2>1, <2>2 DEF RegisteredAsDeployed
<1> QED BY <1>1, <1>2, <1>3 DEF DeployStep

LEMMA InitRegistry == Init => RegistryInv
BY InitTyped DEF Init, MinterInit, MetadataInit, RegistryInv, RegisteredAsDeployed

(* Once the backend is configured, nobody touches the registry. *)
LEMMA RegistryKept ==
    ASSUME [Next]_vars
    PROVE  \/ UNCHANGED <<call, registry, env>>
           \/ env = Nothing /\ env' = Nothing /\ DeployStep
           \/ Configure
<1>1. CASE UNCHANGED vars
  BY <1>1 DEF vars, minterVars, metadataVars, backendVars
<1>2. CASE Idling /\ (FormStep \/ Landing)
  BY <1>2 DEF Idling, metadataVars, backendVars, FormStep, Landing, ToggleWallet,
     RegenerateSigner, ChooseKind, GoToStep, MasterLands
<1>3. CASE env = Nothing /\ Idling /\ DeployStep
  BY <1>3 DEF Idling, metadataVars, backendVars
<1>4. CASE Running
  BY <1>4 DEF Running, minterVars, MetadataStep, Earn, Tick, SyncStep, SyncRead, SyncUri,
     SyncSend, WalletTakes, Expire, MasterReceives, Reindex, backendVars
<1>5. CASE PageStep
  BY <1>5 DEF PageStep, ReadMerkle, ReadMerkleFails, Refresh, FinishRefresh, SyncMerkleRoot,
     SyncAnswered, BumpMetadata, BumpSigned, BumpRejected, othersVars, minterVars,
     metadataVars, backendVars
<1> QED BY <1>1, <1>2, <1>3, <1>4, <1>5, Steps

LEMMA NextRegistry == RegistryInv /\ [Next]_vars => RegistryInv'
<1> SUFFICES ASSUME RegistryInv, [Next]_vars
             PROVE  RegistryInv'
  OBVIOUS
<1>1. TypeOK'
  BY NextTyped DEF RegistryInv
<1>2. CASE UNCHANGED <<call, registry, env>>
  BY <1>1, <1>2 DEF RegistryInv, RegisteredAsDeployed
<1>3. CASE env = Nothing /\ env' = Nothing /\ DeployStep
  BY <1>1, <1>3, DeployRegisters DEF RegistryInv, RegisteredAsDeployed
<1>4. CASE Configure
  BY <1>1, <1>4 DEF Configure, RegistryInv, RegisteredAsDeployed, TypeOK, MinterTypeOK
<1> QED BY <1>2, <1>3, <1>4, RegistryKept

(* The registry keeps for a master the kind of contract that is deployed, however the    *)
(* form changes during deployMaster and the registration is lost or repeated.            *)
THEOREM RegistryMatches == Spec => []RegisteredAsDeployed
<1>1. RegistryInv => RegisteredAsDeployed
  BY DEF RegistryInv
<1> QED BY <1>1, InitRegistry, NextRegistry, PTL DEF Spec

-----------------------------------------------------------------------------
(* The dump that Toncenter keeps *)

(* A dump kept under the URI of an epoch and a root is that root's. *)
DumpInv ==
    /\ RegistryInv
    /\ indexer # Nothing /\ indexer.tag # <<0, 0>> => indexer.dump = indexer.tag[2]

LEMMA InitDump == Init => DumpInv
BY InitRegistry DEF Init, MetadataInit, DumpInv

LEMMA ReindexDump ==
    ASSUME DumpInv, Reindex
    PROVE  /\ indexer'.tag # <<0, 0>> => indexer'.dump = indexer'.tag[2]
           /\ dbEpoch > 0 => indexer'.dump = tree
<1>1. env # Nothing /\ registry[env] # "mintless"
  BY DEF Reindex, Deployed, DumpInv, RegistryInv
<1>2. indexer'.tag = DumpTag
      /\ indexer'.dump = IF indexer # Nothing /\ indexer.tag = DumpTag THEN indexer.dump ELSE tree
  BY DEF Reindex
<1>3. tree \in Nat /\ dbEpoch \in Nat
  BY DEF DumpInv, RegistryInv, TypeOK, MetadataTypeOK, Root
<1>4. CASE dbEpoch > 0
  <2>1. DumpTag = <<dbEpoch, tree>>
    BY <1>1, <1>4 DEF DumpTag
  <2>2. <<dbEpoch, tree>> # <<0, 0>> /\ <<dbEpoch, tree>>[2] = tree
    BY <1>3, <1>4
  <2> QED BY <1>2, <2>1, <2>2 DEF DumpInv
<1>5. CASE ~(dbEpoch > 0)
  BY <1>2, <1>5 DEF DumpTag
<1> QED BY <1>4, <1>5

LEMMA IndexerKept ==
    ASSUME [Next]_vars
    PROVE  UNCHANGED indexer \/ Reindex
<1>1. CASE UNCHANGED vars
  BY <1>1 DEF vars, metadataVars
<1>2. CASE Idling
  BY <1>2 DEF Idling, metadataVars
<1>3. CASE Running
  BY <1>3 DEF Running, MetadataStep, Earn, Tick, SyncStep, SyncRead, SyncUri,
     SyncSend, WalletTakes, Expire, MasterReceives
<1>4. CASE PageStep
  BY <1>4 DEF PageStep, ReadMerkle, ReadMerkleFails, Refresh, FinishRefresh, SyncMerkleRoot,
     SyncAnswered, BumpMetadata, BumpSigned, BumpRejected, othersVars, metadataVars
<1>5. CASE Configure
  BY <1>5 DEF Configure
<1> QED BY <1>1, <1>2, <1>3, <1>4, <1>5, Steps

LEMMA NextDump == DumpInv /\ [Next]_vars => DumpInv'
<1> SUFFICES ASSUME DumpInv, [Next]_vars
             PROVE  DumpInv'
  OBVIOUS
<1>1. RegistryInv'
  BY NextRegistry DEF DumpInv
<1> QED BY <1>1, IndexerKept, ReindexDump DEF DumpInv

(* Whenever Toncenter reads the metadata of an epoch, it gets the dump of the live tree: *)
(* the dump URI is new whenever the tree is.                                             *)
THEOREM DumpFresh == Spec => DumpNeverFromCache
<1>1. DumpInv /\ [Next]_vars => [indexer' # indexer /\ dbEpoch > 0 => indexer'.dump = tree]_vars
  BY IndexerKept, ReindexDump
<1> QED BY <1>1, InitDump, NextDump, PTL DEF Spec, DumpNeverFromCache

-----------------------------------------------------------------------------
(* The mark of a report *)

(* The chain's root, and a root that a report has read, is one that the master has had. *)
HeldInv ==
    /\ chain.root = 0 \/ chain.root \in held
    /\ check # Nothing => check.onChain \in held \cup {Nothing, 0}

LEMMA InitHeld == Init => HeldInv
BY DEF Init, MetadataInit, ComplianceInit, HeldInv, CheckAt

LEMMA HeldGrows ==
    ASSUME [Next]_vars, TypeOK, chain.root = 0 \/ chain.root \in held
    PROVE  held \subseteq held' /\ (chain'.root = 0 \/ chain'.root \in held')
<1> USE DEF TypeOK, MetadataTypeOK
<1>1. CASE UNCHANGED vars
  BY <1>1 DEF vars, metadataVars, chainVars
<1>2. CASE Idling
  BY <1>2 DEF Idling, metadataVars, chainVars
<1>3. CASE Running
  <2>1. CASE MasterReceives
    <3> DEFINE m == Head(inbox)
    <3>1. chain \in [root : Root, epoch : Nat, uri : Uri]
      OBVIOUS
    <3>2. UpdateRoot(m) \/ ChangeContent(m)
      BY <2>1 DEF MasterReceives
    <3> HIDE DEF m
    <3>3. CASE UpdateRoot(m)
      BY <3>1, <3>3 DEF UpdateRoot
    <3>4. CASE ChangeContent(m)
      BY <3>1, <3>4 DEF ChangeContent
    <3> QED BY <3>2, <3>3, <3>4
  <2> QED BY <1>3, <2>1 DEF Running, MetadataStep, Earn, Tick, SyncStep, SyncRead, SyncUri,
             SyncSend, WalletTakes, Expire, Reindex, chainVars
<1>4. CASE PageStep
  BY <1>4 DEF PageStep, ReadMerkle, ReadMerkleFails, Refresh, FinishRefresh, SyncMerkleRoot,
     SyncAnswered, BumpMetadata, BumpSigned, BumpRejected, othersVars, metadataVars, chainVars
<1>5. CASE Configure
  BY <1>5 DEF Configure, chainVars
<1> QED BY <1>1, <1>2, <1>3, <1>4, <1>5, Steps

LEMMA CheckStep ==
    ASSUME [Next]_vars, TypeOK, check' # Nothing
    PROVE  \/ UNCHANGED check
           \/ check # Nothing /\ check'.onChain = check.onChain
           \/ check'.onChain \in {chain.root, Nothing} /\ UNCHANGED held
<1>0. CASE UNCHANGED vars
  BY <1>0 DEF vars
<1>1. CASE Idling \/ Running
  BY <1>1 DEF Idling, Running
<1>7. CASE Configure
  BY <1>7 DEF Configure
<1>2. CASE ReadMerkle
  <2>1. check \in Check
    BY <1>2 DEF ReadMerkle, CheckAt, TypeOK, ComplianceTypeOK
  <2> QED BY <1>2, <2>1 DEF ReadMerkle, Check, othersVars, metadataVars, chainVars
<1>3. CASE ReadMerkleFails
  <2>1. check \in Check
    BY <1>3 DEF ReadMerkleFails, CheckAt, TypeOK, ComplianceTypeOK
  <2> QED BY <1>3, <2>1 DEF ReadMerkleFails, Check, othersVars, metadataVars, chainVars
<1>4. CASE Refresh \/ SyncAnswered
  BY <1>4 DEF Refresh, SyncAnswered, StartRefresh, StartCheck, othersVars, metadataVars, chainVars
<1>5. CASE FinishRefresh
  BY <1>5 DEF FinishRefresh, CheckAt
<1>6. CASE SyncMerkleRoot \/ BumpMetadata \/ BumpSigned \/ BumpRejected
  BY <1>6 DEF SyncMerkleRoot, BumpMetadata, BumpSigned, BumpRejected
<1>8. UNCHANGED vars \/ Idling \/ Running \/ Configure \/ PageStep
  BY Steps
<1>9. CASE PageStep
  BY <1>2, <1>3, <1>4, <1>5, <1>6, <1>9, Zenon DEF PageStep
<1> QED BY <1>0, <1>1, <1>7, <1>8, <1>9

LEMMA NextHeld == TypeOK /\ HeldInv /\ [Next]_vars => HeldInv'
<1> SUFFICES ASSUME TypeOK, HeldInv, [Next]_vars
             PROVE  HeldInv'
  OBVIOUS
<1>1. held \subseteq held' /\ (chain'.root = 0 \/ chain'.root \in held')
  BY HeldGrows DEF HeldInv
<1>2. CASE check' # Nothing
  BY <1>1, <1>2, CheckStep DEF HeldInv
<1> QED BY <1>1, <1>2 DEF HeldInv

(* No report, in whatever order its requests are answered, marks a root as synchronised  *)
(* that the master never had.                                                            *)
THEOREM ReportsAreTrue == Spec => []ReportIsTrue
<1>1. HeldInv => ReportIsTrue
  BY DEF HeldInv, ReportIsTrue, MerkleOk, Summary, OnChainGroup, CheckAt
<1> QED BY <1>1, InitTyped, NextTyped, InitHeld, NextHeld, PTL DEF Spec

-----------------------------------------------------------------------------
(* The version of the metadata URI *)

Bump(v) == [v |-> v, by |-> "updater"]

\* A sync without a bump found the URI new enough.
SkipsRightly ==
    \A s \in Callers : SyncAt(s, "send") /\ ~sync[s].bump => chain.uri.v >= sync[s].epoch

\* A signed commit brings its bump along or needs none.
TransfersBump ==
    \A t \in transfers : t.commit # Nothing =>
        t.content = t.commit.epoch \/ (t.content = Nothing /\ chain.uri.v >= t.commit.epoch)

\* On its way to the master a commit is followed by its bump or needs none.
BumpFollows ==
    \A i \in 1..Len(inbox) : IsCommit(inbox[i]) =>
        \/ i + 1 <= Len(inbox) /\ inbox[i + 1] = Bump(inbox[i].epoch)
        \/ chain.uri.v >= inbox[i].epoch

\* Between a commit and its bump, the bump is the next message.
BumpIsNext ==
    \/ chain.epoch = 0 \/ chain.uri.v >= chain.epoch
    \/ inbox # <<>> /\ Head(inbox) = Bump(chain.epoch)

LagInv ==
    ~chain.uri.disturbed => SkipsRightly /\ TransfersBump /\ BumpFollows /\ BumpIsNext

LEMMA InitLag == Init => LagInv
BY DEF Init, MetadataInit, LagInv, SkipsRightly, TransfersBump, BumpFollows, BumpIsNext, SyncAt

LEMMA LagSteps ==
    ASSUME [Next]_vars
    PROVE  \/ UNCHANGED <<chain, sync, transfers, inbox>>
           \/ Tick \/ SyncMerkleRoot \/ SyncStep \/ BumpSigned \/ Expire \/ MasterReceives
           \/ \E t \in transfers : WalletTakes(t)
<1>1. CASE UNCHANGED vars \/ Idling
  BY <1>1 DEF vars, Idling, metadataVars, chainVars
<1>2. CASE Configure
  BY <1>2 DEF Configure, chainVars
<1>3. CASE Running
  BY <1>3 DEF Running, MetadataStep, Earn, Reindex, chainVars
<1>4. CASE PageStep
  BY <1>4 DEF PageStep, ReadMerkle, ReadMerkleFails, Refresh, FinishRefresh,
     SyncAnswered, BumpMetadata, BumpRejected, othersVars, metadataVars, chainVars
<1> QED BY <1>1, <1>2, <1>3, <1>4, Steps

(* A message of the master leaves the URI undisturbed only by setting it forward. *)
LEMMA Received ==
    ASSUME TypeOK, MasterReceives, ~chain'.uri.disturbed
    PROVE  /\ ~chain.uri.disturbed /\ chain'.uri.v >= chain.uri.v
           /\ IF IsCommit(Head(inbox))
              THEN /\ Head(inbox) \in CommitMessage /\ chain'.uri = chain.uri
                   /\ chain'.epoch \in {chain.epoch, Head(inbox).epoch}
              ELSE chain'.uri.v >= chain'.epoch
<1> DEFINE m == Head(inbox)
<1>1. m \in Message
  BY DEF MasterReceives, TypeOK, MetadataTypeOK
<1>2. chain \in [root : Root, epoch : Nat, uri : Uri]
  BY DEF TypeOK, MetadataTypeOK
<1>3. CASE IsCommit(m)
  <2>1. m \in CommitMessage
    BY <1>1, <1>3, Kinds2
  <2>2. UpdateRoot(m)
    BY <1>3 DEF MasterReceives
  <2> HIDE DEF m
  <2>3. chain'.uri = chain.uri /\ chain'.epoch \in {chain.epoch, m.epoch}
    BY <1>2, <2>2 DEF UpdateRoot
  <2>4. chain'.uri.v >= chain.uri.v
    BY <1>2, <2>3 DEF Uri, NoVersion
  <2> QED BY <1>3, <2>1, <2>3, <2>4 DEF m
<1>4. CASE ~IsCommit(m)
  <2>1. m.v \in Nat
    BY <1>1, <1>4, Kinds2 DEF ContentMessage
  <2>2. ChangeContent(m)
    BY <1>4 DEF MasterReceives
  <2> HIDE DEF m
  <2>3. chain'.epoch = chain.epoch /\ chain'.uri.v = m.v
    BY <1>2, <2>2 DEF ChangeContent
  <2>4. ~(chain.uri.disturbed \/ m.v < chain.epoch \/ m.v < chain.uri.v)
    BY <1>2, <2>2, Zenon DEF ChangeContent
  <2>5. chain.epoch \in Nat /\ chain.uri.v \in Nat \cup {NoVersion}
    BY <1>2 DEF Uri
  <2>6. chain'.uri.v >= chain.uri.v /\ chain'.uri.v >= chain'.epoch
    BY <2>1, <2>3, <2>4, <2>5 DEF NoVersion
  <2> QED BY <1>4, <2>4, <2>6 DEF m
<1> QED BY <1>3, <1>4

(* While the URI is undisturbed, its version only grows. *)
LEMMA UriGrows ==
    ASSUME TypeOK, [Next]_vars, ~chain'.uri.disturbed
    PROVE  ~chain.uri.disturbed /\ chain'.uri.v >= chain.uri.v
<1>1. CASE UNCHANGED chain
  BY <1>1 DEF TypeOK, MetadataTypeOK, Uri, NoVersion
<1>2. CASE MasterReceives
  BY <1>2, Received
<1> QED BY <1>1, <1>2, LagSteps DEF Tick, SyncMerkleRoot, SyncStep, SyncRead, SyncUri, SyncSend,
           BumpSigned, Expire, WalletTakes, chainVars

(* A call reaches "send" with the epoch it had, and without a bump only if the URI has it. *)
LEMMA CallSteps ==
    ASSUME TypeOK, [Next]_vars, NEW s \in Callers, SyncAt(s, "send")'
    PROVE  \/ sync'[s] = sync[s]
           \/ /\ SyncStep
              /\ ~sync'[s].bump => chain.uri.v = sync'[s].epoch
<1>0. sync \in [Callers -> SyncCall \cup {Nothing}]
  BY DEF TypeOK, MetadataTypeOK
<1>1. CASE UNCHANGED sync
  BY <1>1
<1>2. ASSUME NEW r \in Callers, SyncStart(r)
      PROVE  sync'[s] = sync[s]
  BY <1>0, <1>2 DEF SyncStart, SyncAt
<1>3. CASE SyncStep
  <2> PICK r \in Callers : SyncRead(r) \/ SyncUri(r) \/ SyncSend(r)
    BY <1>3 DEF SyncStep
  <2>1. sync[r] \in SyncCall
    BY <1>0 DEF SyncRead, SyncUri, SyncSend, SyncAt
  <2>2. CASE r # s
    BY <1>0, <2>2 DEF SyncRead, SyncUri, SyncSend, Return
  <2>3. CASE r = s /\ SyncUri(s)
    <3> PICK bump \in {NeedsMetadataBump(s), TRUE} :
             sync' = [sync EXCEPT ![s].pc = "send", ![s].bump = bump]
      BY <2>3 DEF SyncUri
    <3>1. sync'[s].bump = bump /\ sync'[s].epoch = sync[s].epoch
      BY <1>0, <2>1, <2>3 DEF SyncCall
    <3>2. ~bump => chain.uri.v = sync[s].epoch
      BY Zenon DEF NeedsMetadataBump
    <3> QED BY <1>3, <3>1, <3>2, Zenon
  <2>4. CASE r = s /\ (SyncRead(s) \/ SyncSend(s))
    BY <1>0, <2>1, <2>4 DEF SyncRead, SyncSend, Return, SyncAt, SyncCall
  <2> QED BY <2>2, <2>3, <2>4
<1> QED BY <1>1, <1>2, <1>3, LagSteps DEF Tick, SyncMerkleRoot, BumpSigned, Expire, WalletTakes,
           MasterReceives, Callers

LEMMA SkipsStep ==
    ASSUME TypeOK, TypeOK', LagInv, [Next]_vars, ~chain'.uri.disturbed
    PROVE  SkipsRightly'
<1> SUFFICES ASSUME NEW s \in Callers, SyncAt(s, "send")', ~sync'[s].bump
             PROVE  chain'.uri.v >= sync'[s].epoch
  BY DEF SkipsRightly
<1>1. ~chain.uri.disturbed /\ chain'.uri.v >= chain.uri.v
  BY UriGrows
<1>2. chain.uri.v >= sync'[s].epoch
  <2>1. CASE sync'[s] = sync[s]
    BY <1>1, <2>1 DEF LagInv, SkipsRightly, SyncAt
  <2>2. CASE chain.uri.v = sync'[s].epoch
    BY <2>2 DEF TypeOK, MetadataTypeOK, Uri, NoVersion
  <2> QED BY <2>1, <2>2, CallSteps
<1> QED BY <1>1, <1>2
        DEF TypeOK, MetadataTypeOK, Uri, NoVersion, SyncAt, SyncCall

(* A new transfer is the operator's or that of a call at "send". *)
LEMMA NewTransfers ==
    ASSUME TypeOK, LagInv, [Next]_vars, ~chain.uri.disturbed, NEW t \in transfers',
           t.commit # Nothing
    PROVE  t.content = t.commit.epoch \/ (t.content = Nothing /\ chain.uri.v >= t.commit.epoch)
<1>0. TransfersBump /\ SkipsRightly
  BY DEF LagInv
<1>1. CASE t \in transfers
  BY <1>0, <1>1 DEF TransfersBump
<1>2. CASE BumpSigned
  BY <1>0, <1>2 DEF BumpSigned, TransfersBump
<1>3. CASE SyncStep /\ t \notin transfers
  <2> PICK s \in Callers : SyncSend(s)
    BY <1>3 DEF SyncStep, SyncRead, SyncUri, chainVars
  <2>1. sync[s] \in SyncCall
    BY DEF SyncSend, SyncAt, TypeOK, MetadataTypeOK
  <2>2. /\ t.commit.epoch = sync[s].epoch
        /\ t.content = IF sync[s].bump THEN sync[s].epoch ELSE Nothing
    BY <1>3 DEF SyncSend
  <2>3. ~sync[s].bump => chain.uri.v >= sync[s].epoch
    BY <1>0 DEF SyncSend, SkipsRightly
  <2> QED BY <2>2, <2>3
<1>4. CASE transfers' \subseteq transfers
  BY <1>1, <1>4
<1> QED BY <1>1, <1>2, <1>3, <1>4, LagSteps DEF Tick, SyncMerkleRoot, Expire, WalletTakes,
           MasterReceives, chainVars

LEMMA TransfersStep ==
    ASSUME TypeOK, TypeOK', LagInv, [Next]_vars, ~chain'.uri.disturbed
    PROVE  TransfersBump'
<1> SUFFICES ASSUME NEW t \in transfers', t.commit # Nothing
             PROVE  t.content = t.commit.epoch
                    \/ (t.content = Nothing /\ chain'.uri.v >= t.commit.epoch)
  BY DEF TransfersBump
<1>1. ~chain.uri.disturbed /\ chain'.uri.v >= chain.uri.v
  BY UriGrows
<1>2. t.content = t.commit.epoch \/ (t.content = Nothing /\ chain.uri.v >= t.commit.epoch)
  BY <1>1, NewTransfers
<1>3. t.commit.epoch \in Nat
  BY DEF TypeOK, MetadataTypeOK, Transfer, Commit
<1> QED BY <1>1, <1>2, <1>3 DEF TypeOK, MetadataTypeOK, Uri, NoVersion

LEMMA InboxSteps ==
    ASSUME TypeOK, [Next]_vars
    PROVE  \/ UNCHANGED <<chain, inbox>>
           \/ MasterReceives
           \/ UNCHANGED chain /\ \E t \in transfers : WalletTakes(t)
BY LagSteps DEF Tick, SyncMerkleRoot, SyncStep, SyncRead, SyncUri, SyncSend, BumpSigned, Expire,
   WalletTakes, chainVars

LEMMA FollowsStep ==
    ASSUME TypeOK, TypeOK', LagInv, [Next]_vars, ~chain'.uri.disturbed
    PROVE  BumpFollows'
<1> SUFFICES ASSUME NEW i \in 1..Len(inbox'), IsCommit(inbox'[i])
             PROVE  \/ i + 1 <= Len(inbox') /\ inbox'[i + 1] = Bump(inbox'[i].epoch)
                    \/ chain'.uri.v >= inbox'[i].epoch
  BY DEF BumpFollows
<1>1. ~chain.uri.disturbed /\ chain'.uri.v >= chain.uri.v
  BY UriGrows
<1>2. BumpFollows /\ TransfersBump
  BY <1>1 DEF LagInv
<1>3. inbox \in Seq(Message) /\ inbox' \in Seq(Message)
  BY DEF TypeOK, MetadataTypeOK
<1>4. inbox'[i].epoch \in Nat
  BY <1>3, Kinds2 DEF CommitMessage
<1>5. chain.uri.v >= inbox'[i].epoch => chain'.uri.v >= inbox'[i].epoch
  BY <1>1, <1>4 DEF TypeOK, MetadataTypeOK, Uri, NoVersion
<1>6. CASE UNCHANGED <<chain, inbox>>
  BY <1>2, <1>5, <1>6 DEF BumpFollows
<1>7. CASE MasterReceives
  <2>1. inbox # <<>> /\ inbox' = Tail(inbox)
    BY <1>7 DEF MasterReceives
  <2>2. i + 1 \in 1..Len(inbox) /\ inbox'[i] = inbox[i + 1]
    BY <1>3, <2>1
  <2>3. \/ i + 2 <= Len(inbox) /\ inbox[i + 2] = Bump(inbox'[i].epoch)
        \/ chain.uri.v >= inbox'[i].epoch
    BY <1>2, <2>2 DEF BumpFollows
  <2>4. i + 2 <= Len(inbox) => i + 1 <= Len(inbox') /\ inbox'[i + 1] = inbox[i + 2]
    BY <1>3, <2>1
  <2> QED BY <1>5, <2>3, <2>4
<1>8. CASE \E t \in transfers : WalletTakes(t)
  <2> PICK t \in transfers : WalletTakes(t)
    BY <1>8
  <2>1. /\ inbox' = Sent(t)
        /\ t.commit # Nothing => t.commit \in CommitMessage
        /\ t.content # Nothing => t.content \in Nat
    BY TakenMessages DEF TypeOK
  <2> DEFINE content == [v |-> t.content,
                         by |-> IF t.commit = Nothing THEN "operator" ELSE "updater"]
  <2>2. t.content # Nothing => content \in ContentMessage
    BY <2>1 DEF ContentMessage
  <2>3. t.content # Nothing => ~IsCommit(content)
    BY <2>2, Kinds2
  <2>4. t.commit # Nothing /\ t.content # Nothing => content = Bump(t.commit.epoch)
    BY <1>2 DEF TransfersBump, Bump
  <2>5. t.commit # Nothing /\ t.content = Nothing => chain.uri.v >= t.commit.epoch
    BY <1>2, <2>1 DEF TransfersBump, CommitMessage
  <2>6. inbox' = CASE t.commit = Nothing /\ t.content = Nothing -> inbox
                   [] t.commit # Nothing /\ t.content = Nothing -> Append(inbox, t.commit)
                   [] t.commit = Nothing /\ t.content # Nothing -> Append(inbox, content)
                   [] OTHER -> Append(Append(inbox, t.commit), content)
    BY <2>1 DEF Sent
  <2> HIDE DEF content
  <2>7. CASE i <= Len(inbox)
    <3>1. inbox'[i] = inbox[i] /\ (i + 1 <= Len(inbox) =>
              i + 1 <= Len(inbox') /\ inbox'[i + 1] = inbox[i + 1])
      BY <1>3, <2>6, <2>7
    <3> QED BY <1>2, <1>5, <2>7, <3>1 DEF BumpFollows
  <2>8. CASE i = Len(inbox) + 1
    <3>1. CASE t.commit # Nothing /\ t.content = Nothing
      BY <1>3, <1>5, <2>5, <2>6, <2>8, <3>1
    <3>2. CASE t.commit # Nothing /\ t.content # Nothing
      BY <1>3, <2>4, <2>6, <2>8, <3>2
    <3>3. CASE t.commit = Nothing
      BY <1>3, <2>3, <2>6, <2>8, <3>3
    <3> QED BY <3>1, <3>2, <3>3
  <2>9. CASE i > Len(inbox) + 1
    <3>1. t.commit # Nothing /\ t.content # Nothing /\ inbox'[i] = content
      BY <1>3, <2>6, <2>9
    <3> QED BY <2>3, <3>1
  <2> QED BY <1>3, <2>7, <2>8, <2>9
<1> QED BY <1>6, <1>7, <1>8, InboxSteps

LEMMA IsNextStep ==
    ASSUME TypeOK, TypeOK', LagInv, [Next]_vars, ~chain'.uri.disturbed
    PROVE  BumpIsNext'
<1>1. ~chain.uri.disturbed /\ chain'.uri.v >= chain.uri.v
  BY UriGrows
<1>2. BumpFollows /\ BumpIsNext
  BY <1>1 DEF LagInv
<1>3. inbox \in Seq(Message) /\ inbox' \in Seq(Message)
  BY DEF TypeOK, MetadataTypeOK
<1>4. /\ chain.epoch \in Nat /\ chain.uri.v \in Nat \cup {NoVersion}
      /\ chain'.epoch \in Nat /\ chain'.uri.v \in Nat \cup {NoVersion}
  BY DEF TypeOK, MetadataTypeOK, Uri
<1>5. CASE UNCHANGED <<chain, inbox>>
  BY <1>2, <1>5 DEF BumpIsNext
<1>6. CASE MasterReceives
  <2>1. inbox # <<>> /\ inbox' = Tail(inbox)
    BY <1>6 DEF MasterReceives
  <2>2. CASE IsCommit(Head(inbox))
    <3> DEFINE m == Head(inbox)
    <3>1. m \in CommitMessage /\ chain'.uri = chain.uri /\ chain'.epoch \in {chain.epoch, m.epoch}
      BY <1>6, <2>2, Received
    <3>2. CASE chain'.epoch = m.epoch
      <4>1. 1 \in 1..Len(inbox) /\ m = inbox[1]
        BY <1>3, <2>1
      <4>2. \/ 2 <= Len(inbox) /\ inbox[2] = Bump(m.epoch)
            \/ chain.uri.v >= m.epoch
        BY <1>2, <2>2, <4>1 DEF BumpFollows
      <4>3. 2 <= Len(inbox) => inbox' # <<>> /\ Head(inbox') = inbox[2]
        BY <1>3, <2>1
      <4> HIDE DEF m
      <4> QED BY <3>1, <3>2, <4>2, <4>3 DEF BumpIsNext
    <3>3. CASE chain'.epoch = chain.epoch
      <4>1. Bump(chain.epoch) \in ContentMessage
        BY <1>4 DEF Bump, ContentMessage
      <4>2. Head(inbox) # Bump(chain.epoch)
        BY <2>2, <4>1, Kinds2
      <4> HIDE DEF m
      <4> QED BY <1>2, <3>1, <3>3, <4>2 DEF BumpIsNext
    <3> QED BY <3>1, <3>2, <3>3
  <2>3. CASE ~IsCommit(Head(inbox))
    BY <1>6, <2>3, Received DEF BumpIsNext
  <2> QED BY <2>2, <2>3
<1>7. CASE UNCHANGED chain /\ \E t \in transfers : WalletTakes(t)
  <2> PICK t \in transfers : WalletTakes(t)
    BY <1>7
  <2>1. inbox' = Sent(t)
    BY TakenMessages DEF TypeOK
  <2>2. inbox # <<>> => inbox' # <<>> /\ Head(inbox') = Head(inbox)
    BY <1>3, <2>1 DEF Sent
  <2> QED BY <1>2, <1>7, <2>2 DEF BumpIsNext
<1> QED BY <1>5, <1>6, <1>7, InboxSteps

LEMMA NextLag == TypeOK /\ LagInv /\ [Next]_vars => LagInv'
BY NextTyped, SkipsStep, TransfersStep, FollowsStep, IsNextStep DEF LagInv

(* As long as the URI is undisturbed, its version never stays behind the epoch of the    *)
(* root, for any number of epochs, transfers and calls in flight.                        *)
THEOREM MetadataFollows == Spec => []MetadataNeverLags
<1>1. LagInv => MetadataNeverLags
  BY DEF LagInv, BumpIsNext, MetadataNeverLags
<1> QED BY <1>1, InitTyped, NextTyped, InitLag, NextLag, PTL DEF Spec

=============================================================================
