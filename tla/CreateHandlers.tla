--------------------------- MODULE CreateHandlers ---------------------------
(* The commands of internal/cli that create a resource. *)
EXTENDS EditSteps

Creation(effects) == Step("create", effects)
New == SetBy({}, <<Check, Creation([fields |-> "add"])>>)
NewUnchecked == SetBy({}, <<Creation([fields |-> "add"])>>)
OrShow(step) == [step EXCEPT !.on = "show"]

-----------------------------------------------------------------------------
(* The network service: one request, then the tags.                        *)

\* The request is put together of the options; the names in them are looked up.
networkCreateValues == Check
floatingIPCreateValues == Check
routerCreateValues == Check
subnetCreateValues == Check
subnetPoolCreateValues == Check
portCreateValues == Check

Created(values, effects) == SetBy({}, <<values, Creation(effects), Tags>>)
networkCreate == Created(networkCreateValues, [fields |-> "add"])
floatingIPCreate == Created(floatingIPCreateValues, [fields |-> "add"])
securityGroupCreate == Created(Check, [fields |-> "add"])
routerCreate == Created(routerCreateValues, [fields |-> "add", list |-> "add"])
subnetCreate == Created(subnetCreateValues, [fields |-> "add", list |-> "add"])
subnetPoolCreate == Created(subnetPoolCreateValues, [fields |-> "add", list |-> "add"])
portCreate == Created(portCreateValues, [fields |-> "add", list |-> "add", profile |-> "add"])

-----------------------------------------------------------------------------
(* Several requests: what is created is then completed.                    *)

aggregateCreate ==
  SetBy({}, <<Check, Creation([fields |-> "add"]), Check, Put([profile |-> "add"])>>)
computeFlavorCreate ==
  SetBy({}, <<Check, Creation([fields |-> "add"]), Check, Put([access |-> "add"]), Check,
              Put([specs |-> "add"])>>)
volumeCreate ==
  SetBy({}, <<Check, Creation([fields |-> "add", profile |-> "add"]),
              Step("each", [settings |-> "add"]), Check>>)
volumeTypeCreateEncryption == Put([secret |-> "add"])
volumeTypeCreate ==
  SetBy({}, <<Check, Creation([fields |-> "add", specs |-> "add"]), Check, Put([access |-> "add"]),
              Check, volumeTypeCreateEncryption>>)

\* Files are uploaded, containers made, one by one.
containerCreate == SetBy({}, <<Step("each", [list |-> "add"])>>)
objectCreate == SetBy({}, <<Check, Step("each", [list |-> "add"])>>)

-----------------------------------------------------------------------------
(* Creations in one request.  With --or-show any failure leads to a lookup *)
(* by the name, and what that finds is shown.                              *)

identityDomainCreate == SetBy({}, <<OrShow(Creation([fields |-> "add"]))>>)
identityGroupCreate == SetBy({}, <<Check, OrShow(Creation([fields |-> "add"]))>>)
identityRoleCreate == identityGroupCreate
identityUserCreate == identityGroupCreate
identityProjectCreate == SetBy({}, <<Check, OrShow(Creation([fields |-> "add", tags |-> "add"]))>>)

identityConsumerCreate == NewUnchecked
identityRegionCreate == NewUnchecked
identityServiceCreate == NewUnchecked
identityServiceProviderCreate == NewUnchecked
identityApplicationCredentialCreate == New
identityCredentialCreate == New
identityEC2CredentialCreate == New
identityEndpointCreate == New
identityRawCreate == New
identityEndpointGroupCreate == identityRawCreate
identityFederationProtocolCreate == New
identityProviderCreate == New
identityImpliedRoleCreate == New
identityLimitCreate == New
identityMappingCreate == New
identityPolicyCreate == New
identityRegisteredLimitCreate == New
identityTrustCreate == New

MadeOf(values) == SetBy({}, <<values, Creation([fields |-> "add"])>>)
networkTrunkCreateValues == Check
networkRBACCreateValues == Check
networkSegmentCreateValues == Check
networkQoSPolicyCreateValues == Check
floatingIPPortForwardingCreateValues == Check
networkRBACCreate == MadeOf(networkRBACCreateValues)
networkSegmentCreate == MadeOf(networkSegmentCreateValues)
networkQoSPolicyCreate == MadeOf(networkQoSPolicyCreateValues)
floatingIPPortForwardingCreate ==
  SetBy({}, <<floatingIPPortForwardingCreateValues, Find, Creation([fields |-> "add"])>>)
addressGroupCreate == SetBy({}, <<Check, Creation([fields |-> "add", list |-> "add"])>>)
networkTrunkCreate ==
  SetBy({}, <<networkTrunkCreateValues, Creation([fields |-> "add", list |-> "add"])>>)
addressScopeCreate == New
networkQoSRuleCreateRaw == Creation([fields |-> "add"])
networkQoSRuleCreate == SetBy({}, <<Check, networkQoSRuleCreateRaw>>)
securityGroupRuleCreate == New

defaultSecurityGroupRuleValues == Check
localIPValues == Check
networkFlavorValues == Check
networkFlavorProfileValues == Check
conntrackHelperValues == Check
meterValues == Check
meterRuleValues == Check
segmentRangeValues == Check
ndpProxyValues == Check
tapServiceValues == Check
tapFlowValues == Check
tapMirrorValues == Check
neutronExtraCreate(values) == MadeOf(values)
localIPAssociationCreate == neutronExtraCreate(Check)
conntrackHelperCreate == neutronExtraCreate(conntrackHelperValues)
neutronExtraCreates ==
  {neutronExtraCreate(values) :
     values \in {defaultSecurityGroupRuleValues, localIPValues, networkFlavorValues,
                 networkFlavorProfileValues, meterValues, meterRuleValues, segmentRangeValues,
                 ndpProxyValues, tapServiceValues, tapFlowValues, tapMirrorValues}}

\* Without --wait; what is read afterwards is only shown.
serverCreateNetworks == Check
serverCreateBootSource == Check
serverSchedulerHints == Check
serverCreate ==
  SetBy({}, <<Check, serverCreateNetworks, serverCreateBootSource, Check, serverSchedulerHints,
              Creation([fields |-> "add", profile |-> "add", tags |-> "add"])>>)
serverGroupCreate == New
computeAgentCreate == NewUnchecked
volumeAttachmentCreate == New
consistencyGroupCreate == New
consistencyGroupSnapshotCreate == New
volumeGroupCreate == New
volumeGroupSnapshotCreate == New
volumeGroupTypeCreate == New
\* Any failure leads to a second request under the older URL.
volumeTransferCreate ==
  SetBy({}, <<Check, Step("attempt", [fields |-> "add"]), Creation([fields |-> "add"])>>)
imageMetadefNamespaceCreate == NewUnchecked
imageMetadefResourceTypeAssociationCreate == NewUnchecked
imageMetadefPropertyCreate == New
volumeBackupRecordImport == NewUnchecked
identityRequestTokenCreate == New
identityAccessTokenCreate == NewUnchecked
resourceClassCreate == NewUnchecked
resourceProviderCreate == NewUnchecked
traitCreate == NewUnchecked

\* What was created is then read, or taken from the answer, to be shown; the
\* command fails if that does.
Shown(effects) == SetBy({}, <<Check, Creation(effects), Check>>)
imageMetadefObjectCreate == Shown([fields |-> "add"])
volumeBackupCreate == Shown([fields |-> "add", profile |-> "add"])
volumeSnapshotCreate == Shown([fields |-> "add", profile |-> "add"])
volumeQoSCreate == Shown([fields |-> "add", specs |-> "add"])

\* The private key is in its file before the service knows the public one.
keypairCreate == SetBy({}, <<Check, Put([secret |-> "add"]), Creation([fields |-> "add"])>>)

\* The data is uploaded, or staged and imported.
buildImageCreateOpts == Check
imageCreate(staged) ==
  SetBy({}, <<Check, buildImageCreateOpts, Creation([fields |-> "add", profile |-> "add", tags |-> "add"])>>
            \o (IF staged THEN <<Put([state |-> "add"])>> ELSE <<>>)
            \o <<Put([stored |-> "add"])>>)
imageCreateFromVolume == New
=============================================================================
