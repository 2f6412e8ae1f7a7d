---------------------------- MODULE ListHandlers -----------------------------
(* The handlers that list resources, as programs of the steps of ReadSteps. *)
EXTENDS ReadSteps

-----------------------------------------------------------------------------
(* Compute lists.                                                          *)

computeServerList == Pages \o flavorNameMap \o imageNameMap \o serverNetworkLabels
aggregateList == Pages
computeServiceList == Given("service") \o Given("host") \o Pages
computeAgentListRaw == Given("hypervisor") \o Single
computeAgentList == computeAgentListRaw
hostList == Single \o Match("zone")
serverEventList ==
  computeClientWithMinimumMicroversion \o serverIDForEventLookup \o Check \o Pages
serverMigrationList ==
  computeClientWithMaximumMicroversion \o Given("host") \o Given("status") \o Strict("server")
  \o Given("type") \o Check \o Strict("project") \o Strict("user") \o Single
serverVolumeList == computeClientWithMinimumMicroversion \o Of("server") \o Pages
usageList == Check \o Pages \o projectNameMap
hypervisorList == Given("matching") \o Pages
computeFlavorList == Pages
keypairList == Raw("user") \o Pages
serverGroupList == Pages

-----------------------------------------------------------------------------
(* Image lists.                                                            *)

cachedImageList == Single
imageList == Pages
imageMetadefNamespaceList == Given("resource types") \o Given("visibility") \o Pages
imageMetadefObjectList == In("namespace") \o Pages
imageMetadefPropertyList == In("namespace") \o Single
imageMetadefNameRows == Pages
imageMetadefResourceTypeList == imageMetadefNameRows
imageMetadefResourceTypeAssociationList == In("namespace") \o imageMetadefNameRows
imageMemberList == Of("image") \o Pages
imageTaskList == Given("type") \o Given("status") \o Pages
imageStoresList == Single

-----------------------------------------------------------------------------
(* Network lists.                                                          *)

networkList == Given("name") \o Raw("project") \o Given("status") \o Pages
addressGroupList == Given("name") \o Raw("project") \o Pages
addressScopeList == Given("name") \o Raw("project") \o Check \o Pages
networkAgentList ==
  Given("agent type") \o Given("host") \o Pages \o filterAgentsByNetwork \o filterAgentsByRouter
networkRBACList == Given("type") \o Given("action") \o Raw("target project") \o Pages
networkSegmentList == resolveNetworkID \o Pages
networkSubportList == Check \o Of("trunk") \o Single
networkTrunkList == Pages
networkQoSPolicyList == Raw("project") \o Pages
networkQoSRuleList == Of("policy") \o Single
networkQoSRuleTypeList == Pages
routerList == Given("name") \o Raw("project") \o Given("tags") \o Pages
securityGroupList == Raw("project") \o Given("tags") \o Pages
securityGroupRuleList ==
  Given("protocol") \o Raw("project") \o Strict("security group") \o Pages
subnetList ==
  Given("name") \o Given("gateway") \o Raw("subnet pool") \o Raw("project") \o resolveNetworkID
  \o Pages \o Match("service type")
subnetPoolList ==
  Given("name") \o Raw("project") \o Check \o resolveAddressScopeID \o Pages
portList ==
  Given("name") \o Given("status") \o Raw("project") \o Raw("security group")
  \o resolveNetworkID \o Raw("router") \o resolveServerID \o fixedIPFilter \o Pages
floatingIPList ==
  Given("status") \o Raw("project") \o Raw("router") \o resolveNetworkID \o resolvePortID \o Pages
floatingIPPoolList == Step("refuse", "")
neutronFloatingIPPortForwardingRawList == Single
floatingIPPortForwardingList ==
  Of("floating IP") \o Strict("port") \o Check \o neutronFloatingIPPortForwardingRawList
ipAvailabilityList == Given("IP version") \o Strict("project") \o Pages
networkServiceProviderList == Single

-----------------------------------------------------------------------------
(* Volume lists.                                                           *)

volumeList == Pages \o serverNameMap
volumeBackupList == Given("name") \o Given("status") \o Raw("project") \o Raw("volume") \o Pages
volumeServiceList == Given("service") \o Given("host") \o Pages
volumeBackendPoolList == Pages
volumeAttachmentList ==
  blockStorageClientWithMinimumMicroversion \o Raw("project") \o Given("volume ID")
  \o Given("status") \o Pages
volumeQoSAssociations == EachOrStop("volume type")
volumeQoSList == Pages \o volumeQoSAssociations
blockStorageClusterList ==
  blockStorageClientWithExplicitMinimumMicroversion \o Given("name") \o Given("binary") \o Single
blockStorageLogLevelList ==
  blockStorageClientWithMinimumMicroversion \o Given("host") \o Given("service") \o Single
blockStorageManageableList == blockStorageClientWithMinimumMicroversion \o In("host") \o Single
listConsistencyGroups == Single
consistencyGroupList == listConsistencyGroups
listConsistencyGroupSnapshots == Single
consistencyGroupSnapshotList ==
  Via("firstOrGet", Strict("consistency group")) \o Given("status")
  \o listConsistencyGroupSnapshots
volumeMessageList ==
  blockStorageClientWithExplicitMinimumMicroversion \o Strict("project") \o Single
listVolumeGroups == Single
volumeGroupList == blockStorageClientWithExplicitMinimumMicroversion \o listVolumeGroups
listVolumeGroupSnapshots == Single
volumeGroupSnapshotList == blockStorageClientWithMinimumMicroversion \o listVolumeGroupSnapshots
listVolumeGroupTypes == Single
volumeGroupTypeList == blockStorageClientWithExplicitMinimumMicroversion \o listVolumeGroupTypes
volumeTransferList == Pages
volumeTypeList == Given("name") \o Pages \o Match("property")
volumeSnapshotList ==
  Given("name") \o Given("status") \o Raw("project") \o resolveVolumeID \o Pages
listBlockStorageResourceFilters == blockStorageClientWithMinimumMicroversion \o Single
blockStorageResourceFilterList == listBlockStorageResourceFilters

-----------------------------------------------------------------------------
(* Identity lists.                                                         *)

identityRawListAt == Single
identityRawList == identityRawListAt
catalogEntries == Pages

identityAccessRuleList == identityUserIDForScopedCommand \o Pages
identityApplicationCredentialList == identityUserIDForScopedCommand \o Pages
identityEC2CredentialList == identityUserIDForScopedCommand \o Pages
identityCredentialList == Given("type") \o Strict("user") \o Pages
identityDomainList == Pages
identityProjectList == Raw("domain") \o Given("tags") \o Pages
identityUserList == Raw("domain") \o Pages
identityGroupList == Raw("domain") \o Pages
identityRoleList == Raw("domain") \o Pages
identityRoleAssignmentList ==
  Check \o Strict("role") \o Strict("user") \o currentTokenUserID \o Strict("group")
  \o Strict("domain") \o Strict("project") \o Given("system") \o Pages
identityMappingList == Pages
identityProviderList == Single \o Match("id") \o Match("enabled")
identityServiceProviderList == Single
identityFederationProtocolList == Check \o In("identity provider") \o Single
identityImpliedRoleList == Single
identityLimitList == Given("region") \o Raw("project") \o Strict("service") \o Pages
identityPolicyList == Pages
identityRegisteredLimitList == Given("region") \o Strict("service") \o Pages
identityServiceList == Pages
identityEndpointList == serviceByID \o Given("region") \o Strict("service") \o Pages
identityRegionList == Given("parent region") \o Pages
identityTrustList == Strict("trustor") \o Strict("trustee") \o currentTokenUserID \o Pages
identityCatalogList == catalogEntries
identityConsumerList == Pages
identityEndpointGroupList ==
  Via("both", Strict("endpoint group")) \o Strict("project") \o identityRawListAt
identityFederationDomainList == identityRawListAt
identityFederationProjectList == identityRawListAt

-----------------------------------------------------------------------------
(* Lists over several services.  A selected service must answer.           *)

computeAvailabilityZoneRows == Pages
volumeAvailabilityZoneRows == Pages
networkAvailabilityZoneRows == Pages
availabilityZoneList ==
  From(1, computeAvailabilityZoneRows) \o From(2, volumeAvailabilityZoneRows)
  \o From(3, networkAvailabilityZoneRows)

extensionRows == Pages
extensionList == Check \o From(1, extensionRows) \o From(2, extensionRows) \o From(3, extensionRows)

quotaProjectID == Strict("project")
quotaListRows == Step("singleOrNone", "")
quotaList == Check \o From(1, quotaListRows) \o From(2, quotaListRows) \o From(3, quotaListRows)

quotaResponse == Single
computeQuotaRows == quotaResponse
volumeQuotaRows == quotaResponse
networkQuotaRows == quotaResponse
quotaShow ==
  quotaProjectID \o Check \o From(1, computeQuotaRows) \o From(2, volumeQuotaRows)
  \o From(3, networkQuotaRows)

(* The compute service is asked for the project; the volume service        *)
(* answers for the caller's.                                               *)
limitsProjectID == Strict("project")
limitAbsoluteShow == limitsProjectID \o From(1, Single) \o From(2, Step("own", ""))
limitRateShow == Single

-----------------------------------------------------------------------------
(* Placement and object store lists.                                       *)

allocationCandidateList == Check \o Given("resource") \o Pages
resourceClassList == Pages
resourceProviderList == Given("name") \o Given("member of") \o Pages
resourceProviderInventoryList == In("provider") \o Single \o Ask("usages")
resourceProviderAllocationShow == In("consumer") \o Single
resourceProviderAggregateList == In("provider") \o Single
resourceProviderTraitList == In("provider") \o Single
resourceProviderUsageShow == In("provider") \o Single
resourceUsageShow == In("project") \o Single
traitList == Given("name") \o Pages
containerList == Given("prefix") \o Pages
objectList == In("container") \o Pages
\* A file for every row.
containerSave == objectList \o EachOrStop("object")

-----------------------------------------------------------------------------
(* Lists of the rarer network resources.                                   *)

neutronExtraListRaw == Single
neutronExtraList == neutronExtraListRaw
defaultSecurityGroupRuleQuery == Given("protocol") \o Given("direction")
localIPQuery == Given("name") \o projectFlagID \o Strict("network") \o Strict("port")
ndpProxyQuery == Strict("router") \o Strict("port") \o projectFlagID \o Given("name")
projectOnlyQuery == projectFlagID
localIPAssociationList ==
  Via("absent", Of("local IP")) \o Strict("port") \o Given("host") \o neutronExtraList
segmentRangeList == neutronExtraListRaw \o Match("range")
conntrackHelperList == Of("router") \o Given("protocol") \o neutronExtraList
neutronExtraLists ==
  {query \o neutronExtraList :
     query \in {<<>>, defaultSecurityGroupRuleQuery, localIPQuery, ndpProxyQuery, projectOnlyQuery}}
==============================================================================
