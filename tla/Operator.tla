------------------------------- MODULE Operator -------------------------------
(***************************************************************************)
(* What the operator does with the minter page: a master is planned,       *)
(* deployed and registered; the backend is started with the .env of the    *)
(* last step; and on the compliance tab the operator watches roots and     *)
(* metadata and repairs them, while the backend's ticks do the same.       *)
(***************************************************************************)
EXTENDS Compliance

vars == <<minterVars, metadataVars, check, page>>

Init == MinterInit /\ MetadataInit /\ ComplianceInit

\* The backend restarts with the .env for an RMJ master that is registered, and the
\* minter is left; for a bound, it has the last signer, and only one message to one master
\* was sent, which lands from now on.
Configure ==
    /\ env = Nothing
    /\ step = 4 /\ call = Nothing /\ deployed # Nothing
    /\ "JETTON_MASTER_ADDRESS" \in DOMAIN EnvSnippet /\ deployed.kind = "rmj"
    /\ deployed.key = MaxKeys
    /\ registry[deployed] # Nothing /\ masters = {} /\ deploying = {deployed}
    /\ env' = deployed
    /\ form' = EmptyForm /\ connected' = FALSE /\ step' = 1 /\ deployed' = Nothing
    /\ UNCHANGED <<call, deploying, masters, registry, tree, dbEpoch, chainVars, sync,
                   syncing, indexer, check, page>>

Minting ==
    /\ env = Nothing
    /\ MinterStep
    /\ UNCHANGED <<metadataVars, check, page>>

Deploying ==
    /\ env # Nothing
    /\ \E m \in deploying : MasterLands(m)
    /\ UNCHANGED <<metadataVars, check, page>>

Running == MetadataStep /\ UNCHANGED <<minterVars, check, page>>

Next == Minting \/ Configure \/ Deploying \/ Running \/ PageStep

Spec == Init /\ [][Next]_vars

-----------------------------------------------------------------------------

TypeOK == MinterTypeOK /\ MetadataTypeOK /\ ComplianceTypeOK

\* From the first epoch on, whenever Toncenter reads the metadata again it also gets the
\* dump of the live tree, never one that it keeps under the same dump URI: not after a
\* tick or forced sync that failed halfway, nor after a URI set twice.
DumpNeverFromCache ==
    [][indexer' # indexer /\ dbEpoch > 0 => indexer'.dump = tree]_vars
=============================================================================
