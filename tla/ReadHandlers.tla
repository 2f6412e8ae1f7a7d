---------------------------- MODULE ReadHandlers -----------------------------
(* The commands that only read, and the programs of their runs. *)
EXTENDS ListHandlers, ShowHandlers

-----------------------------------------------------------------------------
(* The commands.                                                           *)

lists ==
  neutronExtraLists \cup
    {computeServerList, aggregateList, computeServiceList, computeAgentList, hostList,
     serverEventList, serverMigrationList, serverVolumeList, usageList, hypervisorList,
     computeFlavorList, keypairList, serverGroupList, cachedImageList, imageList,
     imageMetadefNamespaceList, imageMetadefObjectList, imageMetadefPropertyList,
     imageMetadefResourceTypeList, imageMetadefResourceTypeAssociationList,
     imageMemberList, imageTaskList, imageStoresList, networkList, addressGroupList,
     addressScopeList, networkAgentList, networkRBACList, networkSegmentList,
     networkSubportList, networkTrunkList, networkQoSPolicyList, networkQoSRuleList,
     networkQoSRuleTypeList, routerList, securityGroupList, securityGroupRuleList,
     subnetList, subnetPoolList, portList, floatingIPList, floatingIPPoolList,
     floatingIPPortForwardingList, ipAvailabilityList, networkServiceProviderList,
     volumeList, volumeBackupList, volumeServiceList, volumeBackendPoolList,
     volumeAttachmentList, volumeQoSList, blockStorageClusterList,
     blockStorageLogLevelList, blockStorageManageableList, consistencyGroupList,
     consistencyGroupSnapshotList, volumeMessageList, volumeGroupList,
     volumeGroupSnapshotList, volumeGroupTypeList, volumeTransferList, volumeTypeList,
     volumeSnapshotList, blockStorageResourceFilterList, identityAccessRuleList,
     identityApplicationCredentialList, identityEC2CredentialList,
     identityCredentialList, identityDomainList, identityProjectList, identityUserList,
     identityGroupList, identityRoleList, identityRoleAssignmentList,
     identityMappingList, identityProviderList, identityServiceProviderList,
     identityFederationProtocolList, identityImpliedRoleList, identityLimitList,
     identityPolicyList, identityRegisteredLimitList, identityServiceList,
     identityEndpointList, identityRegionList, identityTrustList, identityCatalogList,
     identityConsumerList, identityEndpointGroupList, identityFederationDomainList,
     identityFederationProjectList, availabilityZoneList, extensionList, quotaList,
     allocationCandidateList, resourceClassList, resourceProviderList,
     resourceProviderInventoryList, resourceProviderAggregateList,
     resourceProviderTraitList, traitList, containerList, objectList, containerSave,
     localIPAssociationList, segmentRangeList, conntrackHelperList,
     resourceProviderAllocationShow, resourceProviderUsageShow, resourceUsageShow,
     quotaShow, limitRateShow}

shows ==
    {computeServerShow, computeFlavorShow, networkShow, addressGroupShow,
     addressScopeShow, networkSegmentShow, networkTrunkShow, routerShow,
     securityGroupShow, volumeShow, subnetShow, subnetPoolShow, portShow,
     floatingIPShow, hypervisorShow, volumeTypeShow, volumeQoSShow,
     consistencyGroupShow, consistencyGroupSnapshotShow, volumeGroupShow,
     ipAvailabilityShow, consoleLogShow, consoleURLShow, usageShow,
     resourceProviderShow, aggregateShow, imageShow, networkQoSPolicyShow,
     volumeBackupShow, volumeGroupSnapshotShow, volumeGroupTypeShow, volumeTransferShow,
     serverGroupShow, volumeSnapshotShow, identityApplicationCredentialShow,
     identityDomainShow, identityProjectShow, identityUserShow, identityGroupShow,
     identityRoleShow, identityServiceShow, identityEndpointShow, identityCatalogShow,
     identityConsumerShow, identityEndpointGroupShow, extensionShow,
     conntrackHelperShow, serverMigrationShow, serverEventShow, networkQoSRuleShow,
     floatingIPPortForwardingShow, securityGroupRuleShow, consoleConnectionShow,
     hostShow, hypervisorStatsShow, keypairShow, imageMetadefNamespaceShow,
     imageMetadefObjectShow, imageMetadefObjectPropertyShow, imageMetadefPropertyShow,
     imageTaskShow, networkAgentShow, networkRBACShow, networkQoSRuleTypeShow,
     volumeAttachmentShow, volumeMessageShow, volumeBackendCapabilityShow,
     blockStorageClusterShow, blockStorageResourceFilterShow, identityAccessRuleShow,
     identityEC2CredentialShow, identityCredentialShow, identityMappingShow,
     identityProviderShow, identityServiceProviderShow, identityFederationProtocolShow,
     identityLimitShow, identityPolicyShow, identityRegisteredLimitShow,
     identityRegionShow, identityTrustShow, resourceClassShow,
     resourceProviderInventoryShow, traitShow, containerShow, objectShow,
     objectStoreAccountShow, autoAllocatedTopologyCreate, identityGroupContainsUser,
     neutronExtraShow, imageSave, volumeBackupRecordExport, objectSave, imageMemberGet,
     imageImportInfo}

-----------------------------------------------------------------------------
(* The programs of a row: a run gives one of the options that say what is  *)
(* listed, or none.  An argument that must be there is then looked up, but *)
(* what is listed is all there is.                                         *)
filters == {"strict", "lenient", "event", "raw", "given", "of", "at", "match", "eachSkip"}

Stays(row, k, i) ==
  \/ row[i].do \notin filters \/ i = k
  \/ row[i].do = "eachSkip" /\ i = k + 1 /\ k # 0
  \/ row[i].do \in {"of", "event"}

Program(row, k) ==
  LET kept == SelectSeq([i \in DOMAIN row |-> i], LAMBDA i : Stays(row, k, i))
  IN [j \in DOMAIN kept |->
        [do |-> IF row[kept[j]].do \in {"of", "event"} /\ kept[j] # k THEN "ask"
                ELSE row[kept[j]].do,
         from |-> row[kept[j]].from,
         by |-> IF row[kept[j]].do \in {"of", "event"} /\ kept[j] # k THEN "get"
                ELSE row[kept[j]].by]]

optionsOf(row) == {i \in DOMAIN row : row[i].do \in filters \ {"eachSkip"}}
programsOf(row) == {Program(row, k) : k \in optionsOf(row) \cup {0}}

readPrograms == UNION {programsOf(row) : row \in lists \cup shows}
limitsPrograms == {Program(limitAbsoluteShow, k) : k \in optionsOf(limitAbsoluteShow)}
==============================================================================
