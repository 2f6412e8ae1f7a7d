--------------------------- MODULE MCResourceEdit ---------------------------
(* Instances of ResourceEdit for TLC. *)
EXTENDS ResourceEdit, EditHandlers, CreateHandlers, ActionHandlers, TLC

CONSTANTS was, given

MCValues == {None, was, given}

MCNetwork ==
  {networkCreate, floatingIPCreate, securityGroupCreate, routerCreate, subnetCreate, subnetPoolCreate,
   portCreate, networkSet, floatingIPSet, securityGroupSet, routerSet, subnetSet, subnetPoolSet, portSet,
   networkUnset, floatingIPUnset, subnetPoolUnset, securityGroupUnset, routerUnset, subnetUnset, portUnset,
   addressGroupSet, networkTrunkSet, addressGroupUnset, networkTrunkUnset, addressScopeSet,
   networkQoSPolicySet, networkRBACSet, routerAddRoute, routerAddGateway, routerRemoveRoute,
   routerRemoveGateway}

MCCompute ==
  {serverSet, serverUnset, aggregateCreate, aggregateSet, aggregateUnset, computeFlavorCreate,
   computeFlavorSet, computeFlavorUnset, computeServiceSet(TRUE), computeServiceSet(FALSE),
   computeAgentSet, hostSet, serverVolumeSet}

MCStorage ==
  {volumeSet, volumeUnset, volumeCreate, volumeBackupSet, volumeBackupUnset, volumeSnapshotSet,
   volumeSnapshotUnset, volumeTypeCreate, volumeTypeSet, volumeTypeUnset, volumeQoSSet, volumeQoSUnset,
   volumeGroupSet, volumeGroupTypeSet, consistencyGroupSet, imageSet, imageUnset, imageAddProject,
   imageRemoveProject, imageMetadefPropertySet, identityDomainSet, identityEndpointSet}

MCCreate ==
  {identityDomainCreate, identityGroupCreate, identityProjectCreate, identityConsumerCreate,
   identityTrustCreate, addressGroupCreate, imageMetadefObjectCreate, volumeBackupCreate, volumeQoSCreate,
   keypairCreate, volumeTransferCreate, serverCreate, imageCreate(TRUE), imageCreate(FALSE)}

MCSingle ==
  {identityCredentialSet, identityLimitSet, identityUserPasswordSet, identityEndpointAddProject,
   identityEndpointRemoveProject, identityRawSet, identityGroupAddUser, identityGroupRemoveUser,
   quotaSet(FALSE), quotaSet(TRUE), quotaDelete, serverRemoveFixedIP, aggregateAddRemoveHost(TRUE),
   networkAgentAddNetwork, networkAgentRemoveNetwork, neutronExtraSet, containerSet, containerUnset}

MCAction ==
  {serverRescue, serverMigrationForceComplete, serverMigrationDeleteAction, serverRemoveNetwork,
   aggregateCacheImage, imageStage, imageImport, volumeRevert, volumeGroupDelete, volumeTransferAccept,
   volumeAttachmentComplete, volumeQoSAssociate, volumeQoSDisassociate, networkQoSRuleDelete,
   identityImpliedRoleDelete, identityTokenRevoke, autoAllocatedTopologyDelete, deleteContainerObjects,
   containerCreate, objectCreate}
  \cup {serverSecurityGroupAction(add) : add \in BOOLEAN}
  \cup {identityRoleAssignment(add) : add \in BOOLEAN}

MCAll == MCNetwork \cup MCCompute \cup MCStorage \cup MCCreate \cup MCSingle \cup MCAction
MCPort == {portSet}

\* Up to two places are named, of up to two parts that the command line
\* concerns, with the same keys present; the other parts have them all.  An
\* element of a list has only the one value, a property gets a new one.
MCInit ==
  /\ handler \in Commands
  /\ asked \in {a \in SUBSET (Nameable(handler) \X Keys) : Cardinality(a) <= 2}
  /\ clear \in SUBSET handler.clears
  /\ Cardinality({p \in Parts : Concerned(p)}) <= 2
  /\ wanted = [s \in Places |->
                 IF handler.removes THEN None ELSE IF s[1] \in {"tags", "list"} THEN was ELSE given]
  /\ \E present \in SUBSET Keys :
       content = IF IsCreate(handler) THEN Nothing
                 ELSE [s \in Places |-> IF Concerned(s[1]) /\ s[2] \notin present THEN None ELSE was]
  /\ before = content /\ item = content
  /\ at = 1 /\ done = {} /\ failures = 0 /\ report = "running"
  /\ touched = {} /\ raced = {} /\ lost = FALSE /\ disturbances = 0
  /\ Exclusive(handler) => \A s \in asked : s[1] \notin clear

MCSpec == MCInit /\ [][Next]_vars
MCSymmetry == Permutations(Keys)

\* What the theorems of ResourceEdit_proofs assume of the table.
ASSUME TableAssumption == \A h \in Commands : Keeps(h) /\ Thorough(h)
=============================================================================
