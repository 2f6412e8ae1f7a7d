--------------------------- MODULE ActionHandlers ---------------------------
(* The commands of internal/cli that act on a resource, add to it or take from *)
(* it, most of them in one request. *)
EXTENDS EditSteps

-----------------------------------------------------------------------------
(* Quotas.  The parts are the services: compute, volumes, networks.  With  *)
(* --class or --default the options for networks are parsed and not used.  *)
(* Without an option quota delete drops all three.                         *)

quotaSet(class) ==
  SetBy({}, <<Check, Put([fields |-> "add"]), Put([settings |-> "add"])>>
            \o <<IF class THEN Step("ignored", [access |-> "add"]) ELSE Put([access |-> "add"])>>)
quotaDelete ==
  SetBy({"fields", "settings", "access"},
    <<Check, Put([fields |-> "wipe"]), Put([settings |-> "wipe"]), Put([access |-> "wipe"])>>)

-----------------------------------------------------------------------------
(* What else takes one request: the interfaces and volumes of a server,    *)
(* what an agent or a flavor is associated with, and so on.                *)

serverAddNetwork == Gain
serverAddPort == Gain
serverAddFixedIP == Gain
serverAddVolume == Gain
serverAddFloatingIP == Gain
serverRemovePort == Lose
serverRemoveVolume == Lose
serverRemoveFloatingIP == Lose
serverRemoveFixedIP == UnsetBy({}, <<Find, Always([list |-> "add"])>>)
aggregateAddRemoveHost(add) ==
  IF add THEN SetBy({}, <<Find, Always([list |-> "add"])>>) ELSE serverRemoveFixedIP

\* Without --dhcp or --l3 nothing is sent.
networkAgentAddNetwork == SetBy({}, <<Check, Put([list |-> "add"])>>)
networkAgentAddRouter == networkAgentAddNetwork
networkAgentRemoveNetwork == UnsetBy({}, <<Check, Put([list |-> "add"])>>)
networkAgentRemoveRouter == networkAgentRemoveNetwork
networkFlavorProfileAssociation(add) ==
  IF add THEN OneRequest([list |-> "add"]) ELSE UnsetBy({}, <<Check, Always([list |-> "add"])>>)
identityEndpointRemoveProject == networkFlavorProfileAssociation(FALSE)

neutronExtraSet == SetBy({}, <<Check, Find, Always([fields |-> "add"])>>)
conntrackHelperSet == neutronExtraSet
volumeServiceSet == OneRequest([fields |-> "add"])
volumeAttachmentSet == OneRequest([fields |-> "add"])
blockStorageClusterSet == OneRequest([fields |-> "add"])
blockStorageLogLevelSet == OneRequest([fields |-> "add"])
volumeHostSet == Unchecked
imageMetadefNamespaceSet == Unchecked

containerSet == OneRequest([profile |-> "add"])
objectStoreAccountSet == containerSet
containerUnset == UnsetBy({}, <<Check, Always([profile |-> "add"])>>)
objectStoreAccountUnset == containerUnset
-----------------------------------------------------------------------------
(* What is done to a server, an image, a volume or a role: the step of the *)
(* command that changes something is its last one, in one request, or a    *)
(* loop that ends at the first failure.                                    *)

serverRescue == SetBy({}, <<Find, Check, Always([state |-> "add"])>>)
serverMigrationForceComplete == SetBy({}, <<Check, Find, Always([state |-> "add"])>>)
serverMigrationDeleteAction == UnsetBy({}, <<Check, Find, Always([state |-> "add"])>>)
\* Every port of the server in the network goes; to have none is an error.
serverRemoveNetwork ==
  UnsetBy({"list"}, <<Find, Check, Step("reread", [list |-> "forget"]), Check,
                      Step("eachRead", [list |-> "forget"])>>)
serverSecurityGroupAction(add) ==
  LET groups == <<Find, Step("each", [list |-> "add"])>>
  IN IF add THEN SetBy({}, groups) ELSE UnsetBy({}, groups)
aggregateCacheImage == SetBy({}, <<Check, Find, Check, Always([image |-> "add"])>>)
imageStage == SetBy({}, <<Find, Check, Always([stored |-> "add"])>>)
imageImport == SetBy({}, <<Check, Find, Check, Always([stored |-> "add"])>>)

volumeMigrate == SetBy({}, <<Check, Find, Always([state |-> "add"])>>)
volumeRevert == SetBy({}, <<Check, Find, Always([stored |-> "add"])>>)
volumeGroupFailover == volumeMigrate
volumeGroupDelete == UnsetBy({}, <<Check, Find, Always([fields |-> "add"])>>)
volumeBackupRestore == SetBy({}, <<Find, Check, Always([stored |-> "add"])>>)
volumeTransferAccept == OneRequest([access |-> "add"])
volumeAttachmentComplete == OneRequest([state |-> "add"])
volumeAttachmentDelete == UnsetBy({}, <<Check, Always([list |-> "add"])>>)
volumeQoSAssociate == Gain
volumeQoSDisassociate == UnsetBy({"list"}, <<Find, Put([list |-> "wipe"]), Check, Put([list |-> "add"])>>)
blockStorageCleanup == volumeAttachmentComplete
networkQoSRuleDelete == Lose

identityEndpointGroupProjectAssociation(add) == IF add THEN Gain ELSE Lose
findImpliedRoles == Check
identityImpliedRoleDelete == UnsetBy({}, <<findImpliedRoles, Always([member |-> "add"])>>)
identityRoleAssignmentOpts == Check
identitySystemRoleAssignment == Always([member |-> "add"])
identityRoleAssignment(add) ==
  LET assignment == <<Find, identityRoleAssignmentOpts, identitySystemRoleAssignment>>
  IN IF add THEN SetBy({}, assignment) ELSE UnsetBy({}, assignment)
identityRequestTokenAuthorize == OneRequest([access |-> "add"])
resourceClassSet == Unchecked
resourceProviderSet == OneRequest([fields |-> "add"])
identityTokenRevoke == UnsetBy({}, <<Always([access |-> "add"])>>)
autoAllocatedTopologyDelete == UnsetBy({}, <<Check, Always([fields |-> "add"])>>)
deleteContainerObjects ==
  UnsetBy({"list"}, <<Step("reread", [list |-> "forget"]), Step("eachRead", [list |-> "forget"])>>)
=============================================================================
