---------------------------- MODULE ShowHandlers -----------------------------
(* The handlers that show one resource, as programs of the steps of ReadSteps. *)
EXTENDS ReadSteps

-----------------------------------------------------------------------------
(* Shows that look the resource up and read it again; when the second      *)
(* reading fails, they show what they found.                               *)

computeServerRaw == GetOrKeep("server")
enrichServerRaw == MayMore("flavor")
computeServerShow == Find("server") \o computeServerRaw \o enrichServerRaw
computeFlavorRaw == GetOrKeep("flavor")
computeFlavorShow == Find("flavor") \o computeFlavorRaw
neutronNetworkRaw == GetOrKeep("network")
networkShow == Find("network") \o neutronNetworkRaw
neutronAddressGroupRaw == GetOrKeep("address group")
addressGroupShow == Find("address group") \o neutronAddressGroupRaw
neutronAddressScopeRaw == GetOrKeep("address scope")
addressScopeShow == Find("address scope") \o neutronAddressScopeRaw
neutronSegmentRaw == GetOrKeep("segment")
networkSegmentShow == Find("segment") \o neutronSegmentRaw
neutronTrunkRaw == GetOrKeep("trunk")
networkTrunkShow == Find("trunk") \o neutronTrunkRaw
neutronRouterRaw == GetOrKeep("router")
routerInterfacesInfo == MayMore("interfaces")
routerShow == Find("router") \o routerInterfacesInfo \o neutronRouterRaw
neutronSecurityGroupRaw == GetOrKeep("security group")
securityGroupShow == Find("security group") \o neutronSecurityGroupRaw
cinderVolumeRaw == GetOrKeep("volume")
volumeShow == Find("volume") \o cinderVolumeRaw
neutronSubnetRaw == GetOrKeep("subnet")
subnetShow == Find("subnet") \o neutronSubnetRaw
neutronSubnetPoolRaw == GetOrKeep("subnet pool")
subnetPoolShow == Find("subnet pool") \o neutronSubnetPoolRaw
portShow == Find("port") \o GetOrKeep("port")
neutronFloatingIPRaw == GetOrKeep("floating IP")
floatingIPShow == Find("floating IP") \o neutronFloatingIPRaw

-----------------------------------------------------------------------------
(* Shows that need more than what they found.                              *)

findHypervisor == Via("both", Find("hypervisor"))
hypervisorShow == findHypervisor \o MayMore("uptime")
volumeTypeAccessProjectIDs == More("access projects")
volumeTypeShow == Find("volume type") \o volumeTypeAccessProjectIDs
renderVolumeQoSShow == More("associations")
volumeQoSShow == Find("QoS") \o renderVolumeQoSShow
getBlockStorageResourceMap == Get("resource")
findConsistencyGroup == Via("firstOrGet", Find("consistency group"))
consistencyGroupShow == findConsistencyGroup \o getBlockStorageResourceMap
findConsistencyGroupSnapshot == Via("firstOrGet", Find("consistency group snapshot"))
consistencyGroupSnapshotShow == findConsistencyGroupSnapshot \o getBlockStorageResourceMap
findVolumeGroup == Via("first", Find("volume group"))
volumeGroupShow ==
  blockStorageClientWithExplicitMinimumMicroversion \o Check \o findVolumeGroup
  \o Get("volume group")
ipAvailabilityShow == Find("network") \o Get("availability")
consoleLogShow == Find("server") \o Get("console log")
consoleURLShow == computeClientWithMinimumMicroversion \o Find("server") \o Get("console")
usageShow == Check \o Find("project") \o Get("usage")
projectIDForAutoTopology == Find("project")
autoAllocatedTopologyCreate == projectIDForAutoTopology \o Get("topology")
findResourceProvider == Find("provider")
imageSave == Find("image") \o Get("data")
volumeBackupRecordExport == Find("backup") \o Get("record")
resourceProviderShow == findResourceProvider \o More("allocations")

-----------------------------------------------------------------------------
(* Shows of what was looked up, and nothing else.                          *)

aggregateShow == Find("aggregate")
imageShow == Find("image")
networkQoSPolicyShow == Find("policy")
volumeBackupShow == Find("backup")
findVolumeGroupSnapshot == Via("firstGet", Find("group snapshot"))
volumeGroupSnapshotShow == blockStorageClientWithMinimumMicroversion \o findVolumeGroupSnapshot
findVolumeGroupType == Via("firstGet", Find("group type"))
volumeGroupTypeShow == blockStorageClientWithExplicitMinimumMicroversion \o findVolumeGroupType
volumeTransferShow == Find("transfer")
serverGroupShow == Find("server group")
volumeSnapshotShow == Find("snapshot")
identityApplicationCredentialShow == Ask("user") \o Find("application credential")
identityDomainShow == Find("domain")
identityProjectShow == Find("project")
identityUserShow == Find("user")
identityGroupShow == Find("group")
identityRoleShow == Find("role")
identityServiceShow == Find("service")
\* What is listed by a name are the endpoints of the service with that name.
findEndpoint == Find("endpoint")
identityEndpointShow == findEndpoint
findCatalogEntry == Via("once", Find("catalog entry"))
identityCatalogShow == findCatalogEntry
findConsumer == Via("both", Find("consumer"))
identityConsumerShow == findConsumer
identityRawFind == Via("both", Find("resource"))
identityRawShow == identityRawFind
identityEndpointGroupShow == identityRawShow
findNetworkExtension == Via("both", Find("extension"))
extensionShow == findNetworkExtension
neutronExtraFindRaw == Via("absent", Find("resource"))
neutronExtraShow == neutronExtraFindRaw
conntrackHelperShow == Ask("router") \o neutronExtraShow

-----------------------------------------------------------------------------
(* Shows of what has the given ID, some of them below something looked up. *)

serverMigrationShow == computeClientWithMinimumMicroversion \o Ask("server") \o ById("migration")
serverEventShow == computeClientWithMinimumMicroversion \o Ask("server") \o ById("event")
networkQoSRuleGetRaw == ById("rule")
networkQoSRuleShow == Ask("policy") \o networkQoSRuleGetRaw
floatingIPPortForwardingShow == Ask("floating IP") \o ById("port forwarding")
neutronSecurityGroupRuleRaw == Step("tryId", "rule")
securityGroupRuleShow == neutronSecurityGroupRuleRaw \o ById("rule")
consoleConnectionShow == computeClientWithMaximumMicroversion \o ById("token")
hostShow == ById("host")
hypervisorStatsShow == ById("statistics")
keypairShow == ById("keypair")
imageMetadefNamespaceShow == ById("namespace")
imageMetadefObject == ById("object")
imageMetadefObjectShow == imageMetadefObject
imageMetadefObjectPropertyShow == imageMetadefObject
imageMetadefPropertyShow == ById("property")
imageTaskShow == ById("task")
networkAgentRaw == ById("agent")
networkAgentShow == networkAgentRaw
networkRBACShow == ById("rbac policy")
networkQoSRuleTypeShow == ById("rule type")
volumeAttachmentShow == blockStorageClientWithMinimumMicroversion \o ById("attachment")
volumeMessageShow == blockStorageClientWithExplicitMinimumMicroversion \o ById("message")
volumeBackendCapabilityShow == ById("host")
blockStorageClusterShow == blockStorageClientWithExplicitMinimumMicroversion \o ById("cluster")
blockStorageResourceFilterShow == blockStorageClientWithMinimumMicroversion \o ById("resource")
identityAccessRuleShow == Ask("user") \o ById("access rule")
identityEC2CredentialShow == Ask("user") \o ById("credential")
identityCredentialShow == ById("credential")
identityMappingShow == ById("mapping")
getIdentityProvider == ById("identity provider")
identityProviderShow == getIdentityProvider
identityServiceProviderShow == ById("service provider")
identityFederationProtocolShow == Check \o ById("protocol")
identityLimitShow == ById("limit")
identityPolicyShow == ById("policy")
identityRegisteredLimitShow == ById("registered limit")
identityRegionShow == ById("region")
identityTrustShow == ById("trust")
identityGroupContainsUser == Ask("group") \o Find("user") \o Get("membership")
resourceClassShow == ById("resource class")
resourceProviderInventoryShow == ById("inventory") \o More("usages")
traitShow == ById("trait")
containerShow == ById("container")
objectShow == ById("object")
saveObjectContent == ById("object")
objectSave == saveObjectContent
imageMemberGet == Ask("image") \o ById("member")
imageImportInfo == ById("import methods")
objectStorageAccountGet == ById("account")
objectStoreAccountShow == objectStorageAccountGet
==============================================================================
