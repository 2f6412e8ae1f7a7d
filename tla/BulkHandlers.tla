---------------------------- MODULE BulkHandlers ----------------------------
(***************************************************************************)
(* The commands of internal/cli that take several resources on one command *)
(* line ("server delete a b c").  Each handler is the same loop with a few *)
(* choices of its own, and is written here as the record of those choices; *)
(* module BulkCommand gives the loop its behaviour.                        *)
(*                                                                         *)
(*   setup    calls before the lookup: "none", "once" before the loop (a   *)
(*            user or a parent resource), "each" inside it (a domain)      *)
(*   lookup   how an argument becomes a resource ID, see the finders below *)
(*   scope    what List returns: the caller's own project ("mine"), every  *)
(*            project ("all"), or one domain, which then filters the reply *)
(*            of Get too ("domain")                                        *)
(*   effect   "delete" the resource or "act" on it                         *)
(*   fatal    the kinds of failure that end the command at once; any other *)
(*            failure is counted and the loop goes on                      *)
(*   wait     poll the deleted resources until they are gone               *)
(*   ignoreMissing   a 404 of the final call counts as success             *)
(*   total    what the error message divides by: "arguments", or           *)
(*            "namespace" for the length of the namespace's name           *)
(***************************************************************************)

\* What can go wrong with one argument: a lookup request fails, nothing has
\* the ID or name, several resources have the name, the call is answered 404,
\* the call is refused or its reply never arrives.
FailureKinds == {"lookup", "missing", "ambiguous", "call404", "call"}

Lookups == {"none", "get-list", "get-listany", "get404-list", "id-list",
            "list-get", "list-confirm"}

\* The finders that take the first listed match.
ListFirst == {"list-get", "list-confirm"}

HandlerRecords ==
  [setup : {"none", "once", "each"}, lookup : Lookups,
   scope : {"mine", "all", "domain"}, effect : {"delete", "act"},
   fatal : SUBSET FailureKinds, wait : BOOLEAN, ignoreMissing : BOOLEAN,
   total : {"arguments", "namespace"}]

\* Count the failures and go on.
Counting(lookup) ==
  [setup |-> "none", lookup |-> lookup, scope |-> "all", effect |-> "delete",
   fatal |-> {}, wait |-> FALSE, ignoreMissing |-> FALSE, total |-> "arguments"]

\* Get reaches further than List: the finder lists without asking for the other
\* projects (compute, block storage) or what it lists leaves out images that
\* the caller can still read.
OfProject(handler) == [handler EXCEPT !.scope = "mine"]

\* Return the first error.
Aborting(lookup) == [Counting(lookup) EXCEPT !.fatal = FailureKinds]

-----------------------------------------------------------------------------
(* Finders: Get by the argument first; after an error, List by name and     *)
(* accept exactly one resource of that name.                                *)
findServer == "get-list"
findFlavor == "get-list"
findImage == "get-list"
findNetwork == "get-list"
findAddressGroup == "get-list"
findAddressScope == "get-list"
findRouter == "get-list"
findNetworkSegment == "get-list"
findNetworkTrunk == "get-list"
findNetworkQoSPolicy == "get-list"
findSecurityGroup == "get-list"
findVolume == "get-list"
findVolumeBackup == "get-list"
findVolumeTransfer == "get-list"
findVolumeQoS == "get-list"
findSubnet == "get-list"
findSubnetPool == "get-list"
findPort == "get-list"
findFloatingIP == "get-list"
findServerGroup == "get-list"
findVolumeType == "get-list"
findVolumeSnapshot == "get-list"
findDomain == "get-list"
findProject == "get-list"
findUser == "get-list"
findGroup == "get-list"
findRole == "get-list"
findApplicationCredential == "get-list"
findService == "get-list"
findServerForServerCommand == "get-list"
findProjectWithDomain == "get-list"
findUserWithDomain == "get-list"
findGroupWithDomain == "get-list"
findRoleWithDomain == "get-list"

\* As above, but the listed items are matched by ID as well as by name.
findConsumer == "get-listany"
identityRawFind == "get-listany"

\* Only a 404 of the Get leads to the List.
neutronExtraFindRaw == "get404-list"

\* Get only when the argument has the form of an ID.
findAggregate == "id-list"

\* The first listed item with the ID or name; Get when there is none.
findConsistencyGroup == "list-get"
findConsistencyGroupSnapshot == "list-get"

\* The same, but every result is read again by ID and a failing List is final.
findVolumeGroupSnapshot == "list-confirm"
findVolumeGroupType == "list-confirm"

-----------------------------------------------------------------------------
(* Handlers that count.                                                     *)
serverMultiAction == [OfProject(Counting(findServer)) EXCEPT !.effect = "act"]

serverDelete(allProjects, wait) ==
  [Counting(findServerForServerCommand)
     EXCEPT !.scope = IF allProjects THEN "all" ELSE "mine", !.wait = wait]

aggregateDelete == Counting(findAggregate)
computeServiceDelete == Counting("none")
computeAgentDelete == Counting("none")
computeFlavorDelete == Counting(findFlavor)

\* A lookup that finds nothing ends the command: its message, "no resource
\* found for ...", is taken for a missing store.  With --store, so does a 404.
imageDelete(store) ==
  [OfProject(Counting(findImage)) EXCEPT !.fatal = {"missing"} \cup IF store THEN {"call404"} ELSE {}]

cachedImageDelete == [OfProject(Counting(findImage)) EXCEPT !.effect = "act", !.ignoreMissing = TRUE]
cachedImageQueue == [OfProject(Counting(findImage)) EXCEPT !.effect = "act"]
imageMetadefNamespaceDelete == Counting("none")

\* The arguments after the namespace.  (With the namespace alone these two make
\* one request and return its error; and the association handler is the one
\* without --force, whose arguments take one request each.)
imageMetadefObjectDelete == [Counting("none") EXCEPT !.total = "namespace"]
imageMetadefPropertyDelete == [Counting("none") EXCEPT !.total = "namespace"]
imageMetadefResourceTypeAssociationDelete == [Counting("none") EXCEPT !.total = "namespace"]
addressGroupDelete == Counting(findAddressGroup)
networkDelete == Counting(findNetwork)
addressScopeDelete == Counting(findAddressScope)
networkRBACDelete == Counting("none")
networkSegmentDelete == Counting(findNetworkSegment)
networkTrunkDelete == Counting(findNetworkTrunk)
networkQoSPolicyDelete == Counting(findNetworkQoSPolicy)
routerDelete == Counting(findRouter)
securityGroupDelete == Counting(findSecurityGroup)
securityGroupRuleDelete == Counting("none")
volumeDelete == OfProject(Counting(findVolume))
volumeBackupDelete == OfProject(Counting(findVolumeBackup))
volumeQoSDelete == Counting(findVolumeQoS)
consistencyGroupDelete == OfProject(Counting(findConsistencyGroup))
consistencyGroupSnapshotDelete == OfProject(Counting(findConsistencyGroupSnapshot))
volumeMessageDelete == Counting("none")
volumeGroupSnapshotDelete == OfProject(Counting(findVolumeGroupSnapshot))
volumeGroupTypeDelete == Counting(findVolumeGroupType)
volumeTransferDelete == OfProject(Counting(findVolumeTransfer))
subnetDelete == Counting(findSubnet)
subnetPoolDelete == Counting(findSubnetPool)
portDelete == Counting(findPort)
floatingIPDelete == Counting(findFloatingIP)
floatingIPPortForwardingDelete == [Counting("none") EXCEPT !.setup = "once"]
keypairDelete == [Counting("none") EXCEPT !.setup = "once"]
serverGroupDelete == OfProject(Counting(findServerGroup))
volumeTypeDelete == Counting(findVolumeType)
volumeSnapshotDelete == OfProject(Counting(findVolumeSnapshot))
neutronExtraDelete == Counting(neutronExtraFindRaw)
localIPAssociationDelete == [Counting("none") EXCEPT !.setup = "once"]
conntrackHelperDelete == [Counting("none") EXCEPT !.setup = "once"]
resourceClassDelete == Counting("none")
resourceProviderDelete == Counting("none")
traitDelete == Counting("none")

(* Handlers that return the first error.                                    *)
serverLock == [OfProject(Aborting(findServer)) EXCEPT !.effect = "act"]
serverSimpleRawAction == [OfProject(Aborting(findServer)) EXCEPT !.effect = "act"]
objectDelete == Aborting("none")
\* Without --recursive.
containerDelete == objectDelete
identityAccessRuleDelete == [Aborting("none") EXCEPT !.setup = "once"]
identityApplicationCredentialDelete ==
  [Aborting(findApplicationCredential) EXCEPT !.setup = "once"]
identityConsumerDelete == Aborting(findConsumer)
identityCredentialDelete == Aborting("none")
identityDomainDelete == Aborting(findDomain)
identityEC2CredentialDelete == [Aborting("none") EXCEPT !.setup = "once"]
identityFederationProtocolDelete == Aborting("none")
identityProviderDelete == Aborting("none")
identityLimitDelete == Aborting("none")
identityMappingDelete == Aborting("none")
identityPolicyDelete == Aborting("none")
identityRegionDelete == Aborting("none")
identityRegisteredLimitDelete == Aborting("none")
identityServiceDelete == Aborting(findService)
identityServiceProviderDelete == Aborting("none")
identityTrustDelete == Aborting("none")
identityRawDelete == Aborting(identityRawFind)

\* --domain, --group-domain, --role-domain: the domain is looked up again for
\* every argument and restricts both the Get and the List.
InDomain(handler) == [handler EXCEPT !.setup = "each", !.scope = "domain"]
Optionally(domain, handler) == IF domain THEN InDomain(handler) ELSE handler
identityProjectDelete(domain) == Optionally(domain, Aborting(findProjectWithDomain))
identityUserDelete(domain) == Optionally(domain, Aborting(findUserWithDomain))
identityGroupDelete(domain) == Optionally(domain, Aborting(findGroupWithDomain))
identityRoleDelete(domain) == Optionally(domain, Aborting(findRoleWithDomain))
=============================================================================
