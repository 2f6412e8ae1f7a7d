---------------------------- MODULE EditHandlers ----------------------------
(* The commands of internal/cli that change a resource: "set" and "unset". *)
EXTENDS EditSteps

-----------------------------------------------------------------------------
(* The network service: one update, then the tags.                         *)

\* The request is put together of the options and, for lists, of what was read;
\* the names in them are looked up.
networkSetValues == Check
floatingIPSetValues == Check
routerApplyMutableValues == Check
subnetApplyMutableValues == Check
subnetPoolSetValues == Check
portApplyMutableValues == Check
portSetValues == portApplyMutableValues
portFixedIPMaps == Check

networkSet == SetBy({"tags"}, <<Find, networkSetValues, Fields, Tags>>)
floatingIPSet == SetBy({"tags"}, <<Check, Find, floatingIPSetValues, Fields, Tags>>)
securityGroupSet == SetBy({"tags"}, <<Check, Find, Always([fields |-> "add"]), Tags>>)
Merged == Put([fields |-> "add", list |-> "whole"])
routerSet == SetBy({"list", "tags"}, <<Find, routerApplyMutableValues, Merged, Tags>>)
subnetSet == SetBy({"list", "tags"}, <<Find, subnetApplyMutableValues, Merged, Tags>>)
subnetPoolSet == SetBy({"tags"}, <<Find, subnetPoolSetValues, Merged, Tags>>)

\* The binding profile is taken from a reading of its own, whose failure is
\* ignored.
Raw == Step("raw", [profile |-> "whole"])
MergedPort == Put([fields |-> "add", list |-> "whole", profile |-> "whole"])
portSet == SetBy({"list", "profile", "tags"}, <<Find, Raw, portSetValues, MergedPort, Tags>>)

networkUnset == UnsetBy({"tags"}, <<Check, Find, Check, Fields, Tags>>)
floatingIPUnset == UnsetBy({"tags"}, <<Check, Find, Check, Fields, Tags>>)
subnetPoolUnset == UnsetBy({"tags"}, <<Check, Find, Tags>>)
securityGroupUnset == UnsetBy({"tags"}, <<Check, Find, Tags>>)
\* An element that the reading does not have is refused.
Present(effects) == Step("present", effects)
routerUnset == UnsetBy({"tags"}, <<Check, Find, Check, Present([list |-> "whole"]), Check, Merged, Tags>>)
subnetUnsetValues == Present([list |-> "whole"])
subnetUnset == UnsetBy({"tags"}, <<Check, Find, Check, subnetUnsetValues, Check, Merged, Tags>>)
portUnset ==
  UnsetBy({"tags"}, <<Check, Find, Raw, portFixedIPMaps, Present([list |-> "whole", profile |-> "whole"]), Check,
                      MergedPort, Tags>>)

\* One update.
Plain == SetBy({}, <<Find, Check, Fields>>)
addressScopeSet == Plain
networkSegmentSet == Plain
networkQoSRuleValues == Check
networkQoSRuleUpdateRaw == Fields
networkQoSRuleSet == SetBy({}, <<Find, networkQoSRuleValues, networkQoSRuleUpdateRaw>>)
floatingIPPortForwardingSetValues == Check
floatingIPPortForwardingSet == SetBy({}, <<Find, floatingIPPortForwardingSetValues, Fields>>)
networkQoSPolicySet == SetBy({}, <<Check, Find, Check, Fields>>)
networkRBACSet == SetBy({}, <<Check, Fields>>)

\* Elements that the service adds and removes by itself.
routerAddRoute == Gain
routerAddPort == routerAddRoute
routerAddSubnet == routerAddRoute
routerAddGateway == SetBy({}, <<Check, Find, Check, Always([list |-> "add"])>>)
routerRemoveRoute == Lose
routerRemovePort == routerRemoveRoute
routerRemoveSubnet == routerRemoveRoute
routerRemoveGateway == UnsetBy({}, <<Check, Find, Check, Always([list |-> "add"])>>)
networkTrunkParseSubports == Check
networkTrunkParseRemoveSubports == Check
addressGroupSet == SetBy({}, <<Find, Check, Fields, Check, Put([list |-> "add"])>>)
networkTrunkSet ==
  SetBy({}, <<Find, Check, Fields, networkTrunkParseSubports, Put([list |-> "add"])>>)
addressGroupUnset == UnsetBy({}, <<Find, Check, Put([list |-> "add"])>>)
networkTrunkUnset == UnsetBy({}, <<Check, Find, networkTrunkParseRemoveSubports, Put([list |-> "add"])>>)

-----------------------------------------------------------------------------
(* The compute service.                                                    *)

serverSet ==
  SetBy({"stored"},
    <<Find, Fields, Put([secret |-> "add"]), Put([stored |-> "wipe"]), Check, Put([profile |-> "add"]),
      Check, Put([state |-> "add"]), Step("each", [tags |-> "add"])>>)
serverUnset ==
  UnsetBy({"profile", "tags"},
    <<Find, Put([profile |-> "wipe"]), Step("each", [profile |-> "add"]), Fields,
      Put([tags |-> "wipe"]), Step("each", [tags |-> "add"])>>)

aggregateSet == SetBy({"profile"}, <<Find, Fields, Check, Put([profile |-> "edit"])>>)
aggregateUnset == UnsetBy({}, <<Find, Put([profile |-> "add"])>>)

\* The extra specifications are listed and removed one by one before the named
\* ones are written.
computeFlavorSet ==
  SetBy({"specs"},
    <<Find, Check, Counted(Fields), Counted(Step("reread", [specs |-> "forget"])),
      Counted(Step("eachRead", [specs |-> "forget"])), Check, Counted(Put([specs |-> "add"])), Check,
      Counted(Put([access |-> "add"]))>>)
computeFlavorUnset ==
  UnsetBy({}, <<Find, Counted(Step("each", [specs |-> "add"])), Check, Counted(Put([access |-> "add"]))>>)

\* Up to version 2.52 of the API, the status and the forced state are two
\* requests.
computeServiceSet(old) ==
  IF old THEN SetBy({}, <<Check, Fields, Check, Put([state |-> "add"])>>)
         ELSE SetBy({}, <<Check, Find, Put([fields |-> "add", state |-> "add"])>>)

\* All of an agent is sent back.
computeAgentSet == SetBy({}, <<Find, Check, Always([fields |-> "rewrite"])>>)
hostSet == SetBy({}, <<Check, Fields>>)
serverVolumeSet == SetBy({}, <<Check, Find, Fields>>)

-----------------------------------------------------------------------------
(* The volume service.                                                     *)

\* --no-property alone makes an empty map, which the request leaves out.
WithProfile == Put([fields |-> "add", profile |-> "merge"])
volumeSet ==
  SetBy({"profile"},
    <<Find, Check, WithProfile, Put([secret |-> "add"]), Check, Put([image |-> "add"]),
      Put([state |-> "add"]), Check, Step("each", [settings |-> "add"])>>)
volumeUnset == UnsetBy({}, <<Find, Step("each", [profile |-> "add"]), Step("each", [image |-> "add"])>>)

volumeBackupSet == SetBy({"profile"}, <<Find, Check, WithProfile, Put([state |-> "add"])>>)
volumeBackupUnset == UnsetBy({}, <<Find, Check, Step("each", [profile |-> "add"])>>)
volumeSnapshotSet ==
  SetBy({"profile"}, <<Find, Fields, Check, Put([profile |-> "merge"]), Put([state |-> "add"])>>)
volumeSnapshotUnset == UnsetBy({}, <<Find, Step("each", [profile |-> "add"])>>)

volumeTypeSetEncryption == Put([secret |-> "add"])
volumeTypeSet ==
  SetBy({}, <<Find, Fields, Check, Put([specs |-> "add"]), Check, Put([access |-> "add"]), Check,
              volumeTypeSetEncryption>>)
volumeTypeUnset ==
  UnsetBy({}, <<Find, Counted(Step("each", [specs |-> "add"])), Counted(Put([access |-> "add"])),
                Counted(Put([secret |-> "add"]))>>)

volumeQoSSet ==
  SetBy({"specs"}, <<Find, Counted(Put([specs |-> "forget"])), Check, Counted(Put([specs |-> "add"]))>>)
volumeQoSUnset == UnsetBy({}, <<Find, Put([specs |-> "add"])>>)

volumeGroupSet == SetBy({}, <<Check, Find, Fields, Check, Put([state |-> "add"]), Check>>)
\* What the update answers is what the removals go by.
volumeGroupTypeSet ==
  SetBy({"specs"}, <<Check, Find, Step("putAnswered", [fields |-> "add"]),
                     Step("eachRead", [specs |-> "forget"]), Check, Put([specs |-> "add"]), Check>>)
consistencyGroupSet == SetBy({}, <<Find, Fields>>)

-----------------------------------------------------------------------------
(* The image and identity services.                                        *)

imageSet ==
  SetBy({}, <<Find, Check, Put([state |-> "add"]), Check, Put([member |-> "add"]), Check,
              Put([fields |-> "add", profile |-> "add", tags |-> "whole"])>>)
\* Properties that the reading does not have are counted, and left out.
imageUnset ==
  UnsetBy({}, <<Find, Counted(Step("each", [tags |-> "add"])), Step("absent", [profile |-> "found"]),
                Put([profile |-> "found"])>>)
imageAddProject == SetBy({}, <<Find, Check, Always([member |-> "add"])>>)
imageRemoveProject == UnsetBy({}, <<Find, Check, Always([member |-> "add"])>>)
imageMetadefPropertySet == SetBy({}, <<Find, Check, Always([fields |-> "rewrite"])>>)

\* What is not named is left out of the request, which is sent in any case.
identityDomainSet == SetBy({}, <<Find, Always([fields |-> "add"])>>)
identityGroupSet == identityDomainSet
identityEndpointSet == SetBy({}, <<Find, Check, Always([fields |-> "add"])>>)
identityRoleSet == identityDomainSet
identityServiceSet == identityDomainSet
identityUserSet == identityEndpointSet

identityCredentialSet == OneRequest([fields |-> "add"])
identityRegisteredLimitSet == OneRequest([fields |-> "add"])
identityPolicySet == OneRequest([fields |-> "add"])
identityUserPasswordSet == OneRequest([secret |-> "add"])
identityEndpointAddProject == OneRequest([list |-> "add"])
identityLimitSet == Unchecked
identityRegionSet == Unchecked
identityProviderSet == Unchecked
identityServiceProviderSet == Unchecked

\* Nothing is sent when nothing is named; a lookup that fails is a request
\* that fails.
identityRawSet == SetBy({}, <<Check, Fields>>)
identityEndpointGroupSet == identityRawSet
identityFederationProtocolSet == identityRawSet
identityMappingSet == identityRawSet

identityGroupAddUser == SetBy({}, <<Find, Step("each", [member |-> "add"])>>)
identityGroupRemoveUser == UnsetBy({}, <<Find, Step("each", [member |-> "add"])>>)
=============================================================================
