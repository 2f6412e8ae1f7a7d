---------------------------- MODULE LifecycleSuites ----------------------------
(***************************************************************************)
(* The suites of the lifecycle smoke test (tools/lifecycle-smoke) as       *)
(* programs: sequences of steps, in the order in which the Go functions    *)
(* make their calls.  Module Lifecycle says what a step does.              *)
(*                                                                         *)
(* A step names what it does to which resources:                           *)
(*   act    "use" a command that makes and deletes nothing,                *)
(*          "make" / "delete" a resource, "gone" polls until it is gone,   *)
(*          "keep" addCleanup, "drop" dropCleanup,                         *)
(*          "need" goes on if the resource is known, "given" if the cloud  *)
(*          or the environment has what the block wants;                   *)
(*   on     the resources, the CLI's own and then the oracle's;            *)
(*   by     who runs it: "cli", the CLI and then the oracle ("pair", each  *)
(*          on its own resource; "same", both on the same one), the oracle *)
(*          after a CLI command that worked ("twin"), or the Identity API  *)
(*          without a command ("api");                                     *)
(*   miss   what a failure leads to: "sweep" cleanupAll and panic, "quit"  *)
(*          the rest of the block is left, "stop" the suite returns        *)
(*          without a cleanup, "next" the step is only recorded;           *)
(*   differ the same for a parity mismatch of a pair that worked;          *)
(*   keeps  whether what was made is registered for cleanup at once;       *)
(*   blank  what a reply without an id leads to: "sweep" or "quit" as above, *)
(*          "kept" if the cleanup goes by name, "lost" if the suite goes on *)
(*          without registering a cleanup;                                 *)
(*   gone   whether an answer that looks like "not found" will do;         *)
(*   uses   what the resource is made from;                                *)
(*   within the blocks the step stands in, quits the one it leaves.        *)
(***************************************************************************)
EXTENDS Integers, Sequences

Base == [name |-> "", act |-> "use", on |-> <<>>, by |-> "cli",
         miss |-> "sweep", differ |-> "sweep", blank |-> "sweep", keeps |-> FALSE,
         gone |-> FALSE, uses |-> {}, within |-> {}, quits |-> ""]

(* The wrappers of the suites: must, optional, mustOracle, mustOraclePair, *)
(* optionalOraclePair and the waits, over a list of step names.            *)
Steps(names, s) == [i \in DOMAIN names |-> [s EXCEPT !.name = names[i]]]

Must(names) == Steps(names, Base)
May(names) == Steps(names, [Base EXCEPT !.miss = "next"])
MayOr(b, name) == <<[Base EXCEPT !.name = name, !.miss = "quit", !.quits = b]>>
Same(names) == Steps(names, [Base EXCEPT !.by = "same"])
Pair(names) == Steps(names, [Base EXCEPT !.by = "pair"])
MayPair(b, name) ==
  <<[Base EXCEPT !.name = name, !.by = "pair", !.miss = "quit", !.differ = "quit",
                 !.quits = b]>>
MayPairOrSweep(b, name) ==
  <<[Base EXCEPT !.name = name, !.by = "pair", !.miss = "quit", !.quits = b]>>
Stop(name) == <<[Base EXCEPT !.name = name, !.miss = "stop"]>>
Given(b, name) == <<[Base EXCEPT !.name = name, !.act = "given", !.quits = b]>>
Need(b, r) == <<[Base EXCEPT !.act = "need", !.on = <<r>>, !.quits = b]>>

(* A create command.                                                       *)
Made(r, u) == [Base EXCEPT !.act = "make", !.on = <<r>>, !.uses = u, !.keeps = TRUE]
Make(r, u) == <<Made(r, u)>>
MayMade(b, r, u) == [Made(r, u) EXCEPT !.miss = "quit", !.blank = "quit", !.quits = b]
MayMake(b, r, u) == <<MayMade(b, r, u)>>
Twin(o, u) == <<[Made(o, u) EXCEPT !.by = "twin"]>>
MakePair(r, o, u) ==
  <<[Base EXCEPT !.act = "make", !.on = <<r, o>>, !.by = "pair", !.uses = u]>>
MayMakePair(b, r, o, u, early) ==
  <<[Base EXCEPT !.act = "make", !.on = <<r, o>>, !.by = "pair", !.uses = u,
                 !.keeps = ~early, !.miss = "quit", !.differ = "quit", !.blank = "quit",
                 !.quits = b]>>

(* A delete command, the registration of cleanups, the wait for the end.   *)
Gone(r) == [Base EXCEPT !.act = "delete", !.on = <<r>>]
Delete(r) == <<Gone(r)>>
DeleteOrGone(r) == <<[Gone(r) EXCEPT !.gone = TRUE]>>
DeletePair(r, o) == <<[Gone(r) EXCEPT !.on = <<r, o>>, !.by = "pair"]>>
Keep(r) == <<[Base EXCEPT !.act = "keep", !.on = <<r>>]>>
Drop(r) == <<[Base EXCEPT !.act = "drop", !.on = <<r>>]>>
WaitGone(r) == <<[Base EXCEPT !.act = "gone", !.on = <<r>>]>>

Block(b, p) == [i \in DOMAIN p |-> [p[i] EXCEPT !.within = @ \cup {b}]]

(***************************************************************************)
(* The keypair suite, which keeps no stack of cleanups: what it does by    *)
(* hand is to register the keypair before it is made, to sweep on a failed *)
(* create or show, and to stop on a failed delete.                         *)
(***************************************************************************)
runKeypairLifecycle ==
  Stop("preflight keypair list") \o Keep("keypair")
  \o <<[Made("keypair", {}) EXCEPT !.keeps = FALSE, !.blank = "kept"]>>
  \o Must(<<"show keypair">>)
  \o <<[Gone("keypair") EXCEPT !.miss = "stop"]>> \o Drop("keypair")

(***************************************************************************)
(* The server suite.                                                       *)
(***************************************************************************)
prepareServerSSHSecurityGroup ==
  Block("ssh access",
    <<[MayMade("ssh access", "ssh group", {}) EXCEPT !.blank = "kept"],
      [MayMade("ssh access", "ssh rule", {"ssh group"}) EXCEPT !.blank = "lost"]>>)

eventReadLifecycle == May(<<"list server events", "show server event">>)

serverSSHLifecycle ==
  Block("ssh", Need("ssh", "ssh rule")
    \o Must(<<"validate server ssh default", "explicit public remains strict",
              "wait server ssh private", "wait oracle server ssh private",
              "oracle parity server ssh private">>))

(* A pair of commands that may fail, and if it worked the state it leads   *)
(* to, the way back, and the state that one leads to.                      *)
ThereAndBack(b, there, back) ==
  Block(b, MayPair(b, there) \o Must(<<"wait server", "wait oracle server">>)
    \o Pair(back)
    \o (IF back = <<>> THEN <<>> ELSE Must(<<"wait server active", "wait oracle server active">>)))

rebuildLifecycle == ThereAndBack("rebuild", "server rebuild", <<>>)
pauseLifecycle == ThereAndBack("pause", "server pause", <<"server unpause">>)
suspendLifecycle == ThereAndBack("suspend", "server suspend", <<"server resume">>)
rescueLifecycle == ThereAndBack("rescue", "server rescue", <<"server unrescue">>)

resizeLifecycle ==
  Block("resize", Given("resize", "alternate flavor") \o MayOr("resize", "resize server")
    \o MayOr("resize", "wait server verify resize")
    \o Must(<<"revert server resize", "wait server active after resize revert">>))

serverVolumeLifecycle ==
  Block("server volume",
    MayMake("server volume", "server volume", {})
    \o Must(<<"wait attachment volume available">>)
    \o MayMake("server volume", "oracle server volume", {})
    \o Must(<<"wait oracle attachment volume available">>)
    \o Block("attach volume",
         MayPairOrSweep("attach volume", "server add volume")
         \o Must(<<"wait attachment volume in-use", "wait oracle attachment volume in-use",
                   "list server volumes">>)
         \o Pair(<<"server volume set", "server volume update", "server remove volume">>)
         \o Must(<<"wait volume available after detach",
                   "wait oracle volume available after detach">>))
    \o Delete("server volume") \o Drop("server volume") \o WaitGone("server volume")
    \o Delete("oracle server volume") \o Drop("oracle server volume")
    \o WaitGone("oracle server volume"))

serverSecurityGroupLifecycle ==
  Block("server sg",
    MayMake("server sg", "server sg", {})
    \o Block("add sg", MayPairOrSweep("add sg", "server add security group")
                       \o Pair(<<"server remove security group">>))
    \o Delete("server sg") \o Drop("server sg"))

serverPortLifecycle ==
  Block("server port",
    MayMake("server port", "server port", {})
    \o MayMake("server port", "oracle server port", {})
    \o Block("add port", MayPairOrSweep("add port", "server add port")
                         \o Pair(<<"server remove port">>))
    \o Delete("server port") \o Drop("server port")
    \o Delete("oracle server port") \o Drop("oracle server port")
    \o Block("add network",
         Given("add network", "alternate network")
         \o MayPairOrSweep("add network", "server add network")
         \o Pair(<<"server remove network">>)))

serverImageLifecycle ==
  LET Copy(r) == Block(r, MayMake(r, r, {}) \o May(<<"wait image active">>)
                          \o DeleteOrGone(r) \o Drop(r))
  IN  Copy("server image") \o Copy("server backup")

shelveLifecycle ==
  May(<<"record server availability zone before shelve">>)
  \o Block("shelve", MayOr("shelve", "shelve server") \o MayOr("shelve", "wait server shelved")
       \o MayOr("shelve", "unshelve server") \o May(<<"wait server active after unshelve">>))

runServerLifecycle ==
  LET Both(c) == Pair(<<c>>) \o Must(<<"wait server", "wait oracle server">>)
      Parts == {"keypair", "ssh group", "ssh rule", "server group"}
  IN  Must(<<"preflight image list", "preflight flavor list", "preflight network list",
             "preflight server list">>)
      \o Stop("fixtures and key files")
      \o <<[Made("keypair", {}) EXCEPT !.blank = "kept"]>> \o prepareServerSSHSecurityGroup
      \o Block("server group", MayMake("server group", "server group", {})
                               \o Must(<<"show server group">>))
      \o Make("server", Parts) \o Twin("oracle server", Parts)
      \o Must(<<"wait server active", "wait oracle server active", "show server",
                "list servers">>)
      \o Same(<<"server show json", "server show table">>)
      \o eventReadLifecycle \o serverSSHLifecycle
      \o Pair(<<"server set", "server unset", "server lock", "server unlock">>)
      \o Both("server reboot") \o Both("server stop") \o Both("server start")
      \o rebuildLifecycle \o pauseLifecycle \o suspendLifecycle \o rescueLifecycle
      \o resizeLifecycle \o serverVolumeLifecycle \o serverSecurityGroupLifecycle
      \o serverPortLifecycle \o serverImageLifecycle \o shelveLifecycle
      \o DeletePair("server", "oracle server") \o Drop("server") \o Drop("oracle server")
      \o WaitGone("server") \o WaitGone("oracle server")

(***************************************************************************)
(* The volume suite.  firstNonEmptyString never returns the empty string,  *)
(* so the groups always have a volume type to name.                        *)
(***************************************************************************)
createAttachmentServerFixture ==
  MayOr("attachment", "preflight attachment lists") \o Given("attachment", "fixtures")
  \o MayMake("attachment", "attached server", {})

volumeAttachmentLifecycle ==
  LET Both == <<"wait volume available", "wait oracle volume available">>
  IN  Block("attachment", createAttachmentServerFixture
        \o MayMake("attachment", "oracle volume", {})
        \o Must(<<"wait oracle attachment volume available">>)
        \o MayMake("attachment", "attachment", {"volume", "attached server"})
        \o <<[Made("oracle attachment", {"oracle volume", "attached server"})
               EXCEPT !.by = "twin"]>>
        \o Must(<<"show volume attachment", "list volume attachments">>)
        \o Pair(<<"volume attachment set">>)
        \o Block("complete", MayPairOrSweep("complete", "volume attachment complete"))
        \o DeletePair("attachment", "oracle attachment")
        \o Drop("attachment") \o Drop("oracle attachment") \o Must(Both)
        \o Delete("oracle volume") \o Drop("oracle volume") \o WaitGone("oracle volume")
        \o Delete("attached server") \o Drop("attached server"))

volumeTypeLifecycle ==
  Block("type", Given("type", "GOLANG_OSC_ENABLE_VOLUME_TYPE_LIFECYCLE")
    \o MayMake("type", "volume type", {})
    \o Must(<<"show volume type", "list volume types", "set volume type properties",
              "unset volume type properties">>))

qosLifecycle ==
  Block("qos", MayMake("qos", "qos", {})
    \o Must(<<"show volume qos", "list volume qos", "set volume qos", "unset volume qos">>)
    \o Block("associate", Need("associate", "volume type")
                          \o Must(<<"associate volume qos", "disassociate volume qos">>))
    \o Delete("qos") \o Drop("qos"))

groupTypeAndGroupLifecycle ==
  Block("group type", MayMake("group type", "group type", {})
    \o Must(<<"show volume group type", "list volume group types", "set volume group type",
              "clear volume group type properties">>)
    \o Block("group", MayMake("group", "volume group", {"group type"})
         \o May(<<"wait volume group available">>)
         \o Must(<<"show volume group", "list volume groups", "set volume group">>)
         \o Block("group snapshot",
              MayMake("group snapshot", "group snapshot", {"volume group"})
              \o May(<<"wait volume group snapshot available">>)
              \o Must(<<"show volume group snapshot", "list volume group snapshots">>)
              \o Delete("group snapshot") \o Drop("group snapshot"))
         \o Delete("volume group") \o Drop("volume group"))
    \o Delete("group type") \o Drop("group type"))

consistencyGroupLifecycle ==
  Block("cg", MayMake("cg", "consistency group", {})
    \o Must(<<"show consistency group", "list consistency groups", "set consistency group">>)
    \o May(<<"add volume to consistency group", "remove volume from consistency group">>)
    \o Block("cg snapshot", MayMake("cg snapshot", "cg snapshot", {"consistency group"})
         \o Must(<<"show consistency group snapshot", "list consistency group snapshots">>)
         \o Delete("cg snapshot") \o Drop("cg snapshot"))
    \o Delete("consistency group") \o Drop("consistency group"))

backupLifecycleIfAvailable ==
  Block("backup", Given("backup", "cinder-backup is up") \o MayMake("backup", "backup", {})
    \o Must(<<"wait backup available", "show volume backup", "list volume backups",
              "set volume backup", "unset volume backup">>)
    \o May(<<"export volume backup record">>) \o Delete("backup") \o Drop("backup"))

runVolumeLifecycle ==
  May(<<"preflight volume service list", "preflight volume backend pool list">>)
  \o Must(<<"preflight volume type list">>)
  \o May(<<"preflight resource filter list">>)
  \o Block("host", Given("host", "cinder-volume host")
       \o May(<<"read manageable volumes", "read manageable snapshots",
                "read backend capabilities">>))
  \o Make("volume", {})
  \o Must(<<"wait volume available after create", "show volume", "list volumes">>)
  \o volumeAttachmentLifecycle
  \o Must(<<"set volume metadata", "unset volume metadata", "set volume read-only",
            "set volume read-write", "set volume bootable", "set volume non-bootable">>)
  \o Make("snapshot", {"volume"})
  \o Must(<<"wait snapshot available after create", "show snapshot", "list snapshots",
            "set snapshot metadata", "unset snapshot metadata">>)
  \o May(<<"revert volume to snapshot">>)
  \o Must(<<"wait volume available after optional revert">>)
  \o Delete("snapshot") \o Drop("snapshot") \o WaitGone("snapshot")
  \o Block("transfer",
       <<[Made("transfer", {"volume"}) EXCEPT !.blank = "quit", !.quits = "transfer"]>>
       \o Must(<<"show transfer request", "list transfer requests">>)
       \o Delete("transfer") \o Drop("transfer"))
  \o Make("accepted transfer", {"volume"})
  \o <<[Gone("accepted transfer") EXCEPT !.name = "accept transfer request"]>>
  \o Drop("accepted transfer") \o Must(<<"wait volume available after transfer accept">>)
  \o volumeTypeLifecycle \o qosLifecycle \o groupTypeAndGroupLifecycle
  \o consistencyGroupLifecycle \o backupLifecycleIfAvailable
  \o Delete("volume") \o Drop("volume") \o WaitGone("volume")

(***************************************************************************)
(* The quota suite: the project is made and deleted through the API, every *)
(* command is run by the CLI and by the oracle on the same project.        *)
(***************************************************************************)
createProjectFixture(r, miss) ==
  <<[Made(r, {}) EXCEPT !.by = "api", !.miss = miss, !.blank = "kept", !.quits = r]>>

runQuotaLifecycle ==
  LET Reset(service) == Same(<<service>>) \o Must(<<"show quota after delete">>)
                        \o Same(<<"quota reset">>)
  IN  createProjectFixture("quota project", "stop")
      \o Must(<<"show quota project", "show initial quotas">>)
      \o Same(<<"initial quota show", "quota set">>)
      \o Must(<<"show quotas after set">>) \o Same(<<"quota show after set">>)
      \o Reset("quota delete compute") \o Reset("quota delete volume")
      \o Reset("quota delete network") \o Same(<<"quota delete all">>)
      \o Must(<<"show quotas after delete all">>) \o Same(<<"quota show after delete all">>)

(***************************************************************************)
(* The image suite.                                                        *)
(***************************************************************************)
directImageLifecycle ==
  Make("image", {}) \o Twin("oracle image", {})
  \o Must(<<"wait image active", "wait oracle image active">>)
  \o Same(<<"image show json", "image list json", "image save stdout">>)
  \o Pair(<<"image set", "image unset">>)

queuedImportLifecycle ==
  Block("queued", MayMakePair("queued", "queued image", "oracle queued image", {}, FALSE)
    \o MayPair("queued", "image stage")
    \o Block("import", MayPair("import", "image import")
                       \o May(<<"wait imported image active", "wait oracle imported image active">>))
    \o DeleteOrGone("queued image") \o Drop("queued image")
    \o DeleteOrGone("oracle queued image") \o Drop("oracle queued image"))

imageMetadefLifecycle ==
  Block("metadef",
    <<[MayMakePair("metadef", "namespace", "oracle namespace", {}, FALSE)[1]
       EXCEPT !.blank = "kept"]>>
    \o Pair(<<"metadef namespace set", "metadef property create", "metadef property set",
              "metadef object create", "metadef object update">>)
    \o Block("association", MayPair("association", "metadef association create"))
    \o Block("association", MayPair("association", "metadef association delete"))
    \o Pair(<<"metadef object delete", "metadef property delete">>)
    \o DeletePair("namespace", "oracle namespace")
    \o Drop("namespace") \o Drop("oracle namespace"))

imageMemberLifecycle ==
  Block("member project", createProjectFixture("member project", "quit")
    \o Pair(<<"image add project", "image remove project">>))

runImageLifecycle ==
  Same(<<"image import info">>) \o Stop("image file")
  \o directImageLifecycle \o queuedImportLifecycle \o imageMetadefLifecycle
  \o imageMemberLifecycle
  \o DeletePair("image", "oracle image") \o Drop("image") \o Drop("oracle image")

(***************************************************************************)
(* The network suite, which registers the cleanup by name before it makes  *)
(* anything by that name, and the object suite, which does likewise.       *)
(***************************************************************************)
KeptPair(r, o, u) == Keep(r) \o Keep(o) \o MakePair(r, o, u)
NamedPair(r, o, u) ==
  Keep(r) \o Keep(o) \o <<[MakePair(r, o, u)[1] EXCEPT !.blank = "kept"]>>
DropPair(r, o) == DeletePair(r, o) \o Drop(r) \o Drop(o)

networkSubnetLifecycle ==
  KeptPair("network", "oracle network", {}) \o Same(<<"network show json">>)
  \o Pair(<<"network set disable", "network set enable", "network unset tag">>)
  \o KeptPair("subnet", "oracle subnet", {"network", "oracle network"})
  \o Same(<<"subnet show json">>) \o Pair(<<"subnet set", "subnet unset">>)

securityGroupLifecycle ==
  KeptPair("security group", "oracle security group", {}) \o Same(<<"security group show json">>)
  \o Block("rule",
       <<[MakePair("rule", "oracle rule", {"security group", "oracle security group"})[1]
          EXCEPT !.keeps = TRUE, !.blank = "quit", !.quits = "rule"]>>
       \o DropPair("rule", "oracle rule"))
  \o Pair(<<"security group set", "security group unset">>)
  \o DropPair("security group", "oracle security group")

portLifecycle ==
  KeptPair("port", "oracle port", {"network", "oracle network"})
  \o Same(<<"port show json">>) \o Pair(<<"port set", "port enable", "port unset">>)
  \o DropPair("port", "oracle port")

routerPortFixture ==
  Keep("router port") \o Keep("oracle router port")
  \o MayMakePair("router port", "router port", "oracle router port",
                 {"network", "oracle network"}, TRUE)

routerLifecycle ==
  KeptPair("router", "oracle router", {}) \o Same(<<"router show json">>)
  \o Pair(<<"router set", "router unset">>)
  \o Block("router port", routerPortFixture
       \o Pair(<<"router add port", "router remove port">>)
       \o DeleteOrGone("router port") \o Drop("router port")
       \o DeleteOrGone("oracle router port") \o Drop("oracle router port"))
  \o Pair(<<"router add subnet", "router add route", "router remove route",
            "router remove subnet">>)
  \o DropPair("router", "oracle router")

(* Without an id the cleanup would go by the empty one, which names nothing, *)
(* and the update that follows fails: no more than a sweep.                *)
addressLifecycle ==
  LET Address(b, r, o, steps) ==
        Block(b, <<[MayMakePair(b, r, o, {}, FALSE)[1] EXCEPT !.blank = "sweep"]>>
                 \o Pair(steps) \o DropPair(r, o))
  IN  Address("address group", "address group", "oracle address group",
              <<"address group set", "address group unset">>)
      \o Address("scope", "scope", "oracle scope", <<"address scope set">>)

runNetworkLifecycle ==
  Same(<<"network list json">>) \o networkSubnetLifecycle \o securityGroupLifecycle
  \o portLifecycle \o routerLifecycle \o addressLifecycle
  \o DropPair("subnet", "oracle subnet") \o DropPair("network", "oracle network")

runObjectLifecycle ==
  MayOr("store", "preflight account show")
  \o Block("store", Stop("object file")
    \o NamedPair("container", "oracle container", {})
    \o Same(<<"container show json", "container list json", "container set",
              "container unset">>)
    \o NamedPair("object", "oracle object", {"container", "oracle container"})
    \o Same(<<"object show json", "object list json", "object save stdout", "object set",
              "object unset">>)
    \o DropPair("object", "oracle object") \o DropPair("container", "oracle container"))

(* runLifecycleSuite.                                                      *)
runLifecycleSuite ==
  [keypair |-> runKeypairLifecycle, server |-> runServerLifecycle,
   volume |-> runVolumeLifecycle, quota |-> runQuotaLifecycle,
   image |-> runImageLifecycle, network |-> runNetworkLifecycle,
   object |-> runObjectLifecycle]
lifecycleSuites == DOMAIN runLifecycleSuite

(* Cleanups of which only a zero exit, or no error of the API, will do.     *)
StrictCleanups ==
  [s \in lifecycleSuites |->
     IF s = "keypair" THEN {"keypair"} ELSE {"quota project", "member project"}]

(* network suite: cleanupAll asks the cloud whether a target is gone before *)
(* it takes a failed deletion for a failure.                               *)
confirmDeleteTargetGone == {"network"}
================================================================================
