--------------------------- MODULE MCBulkCommand ----------------------------
(* Instances of BulkCommand for TLC. *)
EXTENDS BulkCommand

\* All handlers of the table, and each with every choice of its options; many of
\* them are the same record.
MCAtOnce ==
  {serverMultiAction, aggregateDelete, computeServiceDelete,
   computeAgentDelete, computeFlavorDelete, cachedImageDelete,
   cachedImageQueue, imageMetadefNamespaceDelete, imageMetadefObjectDelete,
   imageMetadefPropertyDelete, imageMetadefResourceTypeAssociationDelete,
   addressGroupDelete, networkDelete, addressScopeDelete, networkRBACDelete,
   networkSegmentDelete, networkTrunkDelete, networkQoSPolicyDelete,
   routerDelete, securityGroupDelete, securityGroupRuleDelete, volumeDelete,
   volumeBackupDelete, volumeQoSDelete, consistencyGroupDelete,
   consistencyGroupSnapshotDelete, volumeMessageDelete,
   volumeGroupSnapshotDelete, volumeGroupTypeDelete, volumeTransferDelete,
   subnetDelete, subnetPoolDelete, portDelete, floatingIPDelete,
   floatingIPPortForwardingDelete, keypairDelete, serverGroupDelete,
   volumeTypeDelete, volumeSnapshotDelete, neutronExtraDelete,
   localIPAssociationDelete, conntrackHelperDelete, resourceClassDelete,
   resourceProviderDelete, traitDelete, serverLock, serverSimpleRawAction,
   objectDelete, containerDelete, identityAccessRuleDelete,
   identityApplicationCredentialDelete, identityConsumerDelete,
   identityCredentialDelete, identityDomainDelete, identityEC2CredentialDelete,
   identityFederationProtocolDelete, identityProviderDelete,
   identityLimitDelete, identityMappingDelete, identityPolicyDelete,
   identityRegionDelete, identityRegisteredLimitDelete, identityServiceDelete,
   identityServiceProviderDelete, identityTrustDelete, identityRawDelete}
  \cup UNION {{serverDelete(option, FALSE), imageDelete(option),
               identityProjectDelete(option), identityUserDelete(option),
               identityGroupDelete(option), identityRoleDelete(option)} :
                option \in BOOLEAN}

MCWaiting == {serverDelete(all, TRUE) : all \in BOOLEAN}

MCHandlers == MCAtOnce \cup MCWaiting

MCArgLists == UNION {[1..n -> Values] : n \in 1..2}

ASSUME TableOfHandlers == WaitsForDeletes /\ ListsShowIds
=============================================================================
