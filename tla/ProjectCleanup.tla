--------------------------- MODULE ProjectCleanup ---------------------------
(***************************************************************************)
(* One run of project cleanup: it lists the servers and the server groups  *)
(* of a project, shows them, asks, and deletes them one by one, while the  *)
(* cloud carries out the deletions and other users go on working.          *)
(***************************************************************************)
EXTENDS Naturals, FiniteSets, Sequences, SequencesExt

CONSTANTS
  Servers,
  Groups,
  MaxFaulted,   \* bound on the requests that fail
  MaxMeddled    \* bound on the resources other users touch

ASSUME KindsAssumption == IsFiniteSet(Servers) /\ IsFiniteSet(Groups) /\ Servers \cap Groups = {}
ASSUME BoundsAssumption == {MaxFaulted, MaxMeddled} \subseteq Nat

Resources == Servers \cup Groups
Kinds == {"server", "server_group"}

\* What the command line says; "timed" when a time limit is given, "valid" when
\* the limit is a time and one project is chosen, by name or by the login.
Options ==
  [valid : BOOLEAN, dryRun : BOOLEAN, autoApprove : BOOLEAN, explicit : BOOLEAN, timed : BOOLEAN, skip : SUBSET Kinds]

VARIABLES
  options,
  mine,       \* the resources of the project to be cleaned
  shows,      \* whether a listing names the project of a group
  present,    \* the resources that exist
  deleting,   \* the servers the cloud is deleting
  old,        \* the servers created and updated before the limit
  members,    \* of every group
  pc,
  resources,  \* what has been listed
  todo,       \* what is still to be deleted
  failures,
  report,
  faults,     \* how many requests have failed
  used,       \* history: the groups that had members when they were listed
  approved,   \* history: whether the user, or --auto-approve, has agreed
  deleted,    \* history: what the cloud has deleted for this command
  meddled     \* history: what other users touched

cloudVars == <<mine, shows, present, deleting, old, members, meddled>>
clientVars == <<options, pc, resources, todo, failures, report, approved, used>>
vars == <<cloudVars, clientVars, faults, deleted>>

TypeOK ==
  /\ options \in Options
  /\ mine \subseteq Resources
  /\ shows \in BOOLEAN
  /\ present \subseteq Resources
  /\ deleting \subseteq Servers
  /\ old \subseteq Servers
  /\ members \in [Groups -> SUBSET Servers]
  /\ pc \in {"target", "servers", "groups", "render", "prompt", "delete", "done"}
  /\ resources \in Seq(Resources)
  /\ todo \in Seq(Resources)
  /\ failures \in Nat
  /\ report \in {"running", "ok", "error", "count"}
  /\ faults \in 0..MaxFaulted
  /\ used \subseteq Groups
  /\ approved \in BOOLEAN
  /\ deleted \subseteq Resources
  /\ meddled \subseteq Resources

-----------------------------------------------------------------------------
Fault == faults < MaxFaulted /\ faults' = faults + 1
NoFault == UNCHANGED faults

Return(result) ==
  report' = result /\ pc' = "done" /\ UNCHANGED <<options, resources, todo, failures, approved>>

GoTo(next) == pc' = next /\ UNCHANGED <<options, todo, failures, report, approved>>

Quiet == UNCHANGED <<cloudVars, deleted>>

\* --dry-run excludes --auto-approve; a project that is named is looked up.
projectCleanupTargetProjectID ==
  /\ pc = "target"
  /\ \/ options.dryRun /\ options.autoApprove /\ NoFault /\ Return("error")
     \/ ~options.valid /\ NoFault /\ Return("error")
     \/ options.explicit /\ Fault /\ Return("error")
     \/ /\ options.valid /\ ~(options.dryRun /\ options.autoApprove)
        /\ NoFault /\ GoTo("servers") /\ UNCHANGED resources
  /\ Quiet /\ UNCHANGED used

\* Mutant: a kind is skipped when its name begins like one to be skipped.
MutantSkippedByPrefix(kind) ==
  kind \in options.skip \/ (kind = "server_group" /\ "server" \in options.skip)

projectCleanupSkipped(kind) == kind \in options.skip

projectCleanupTimestampMatch(s) == options.timed => s \in old

\* Mutant: the listing of all projects is taken as it is.
MutantListed(kind) == {r \in kind \cap present : r \in mine \/ options.explicit}

\* The listing: of the caller's own project, or of all projects, from which
\* those that name another project are dropped.
Listed(kind) ==
  {r \in kind \cap present : r \in mine \/ (options.explicit /\ r \in Groups /\ ~shows)}

projectCleanupServers == {s \in Listed(Servers) : projectCleanupTimestampMatch(s)}

\* Mutant: groups that are used are taken too.
MutantUsedGroups == IF options.timed THEN {} ELSE Listed(Groups)

\* Groups have no timestamps; those that have members are left alone.
projectCleanupServerGroups ==
  IF options.timed THEN {} ELSE {g \in Listed(Groups) : members[g] = {}}

\* The rows are sorted by type, so servers come before groups, and by ID.
projectCleanupComputeResources(kind, found, next) ==
  \/ projectCleanupSkipped(kind) /\ NoFault /\ GoTo(next) /\ UNCHANGED resources
  \/ /\ ~projectCleanupSkipped(kind)
     /\ \/ NoFault /\ GoTo(next) /\ resources' = resources \o SetToSeq(found)
        \/ ~(kind = "server_group" /\ options.timed) /\ Fault /\ Return("error")

ListServers ==
  /\ pc = "servers"
  /\ projectCleanupComputeResources("server", projectCleanupServers, "groups")
  /\ UNCHANGED used
  /\ Quiet

ListGroups ==
  /\ pc = "groups"
  /\ projectCleanupComputeResources("server_group", projectCleanupServerGroups, "render")
  /\ used' = {g \in Groups : members[g] # {}}
  /\ Quiet

\* Mutant: --dry-run is looked at after --auto-approve.
MutantDryRunLate ==
  /\ pc = "render"
  /\ IF resources = <<>> THEN Return("ok") ELSE GoTo("prompt") /\ UNCHANGED resources
  /\ Quiet /\ NoFault /\ UNCHANGED used

\* What has been found is shown.
Render ==
  /\ pc = "render"
  /\ \/ /\ options.dryRun \/ resources = <<>>
        /\ Return("ok")
     \/ /\ ~options.dryRun /\ resources # <<>>
        /\ IF options.autoApprove
           THEN /\ pc' = "delete" /\ todo' = resources /\ approved' = TRUE
                /\ UNCHANGED <<options, resources, failures, report>>
           ELSE GoTo("prompt") /\ UNCHANGED resources
  /\ Quiet /\ NoFault /\ UNCHANGED used

\* Anything but "y" and "yes" is a no; a terminal that cannot be read, an error.
projectCleanupPrompt ==
  /\ pc = "prompt"
  /\ \/ /\ pc' = "delete" /\ todo' = resources /\ approved' = TRUE
        /\ UNCHANGED <<options, resources, failures, report>>
     \/ \E result \in {"ok", "error"} : Return(result)
  /\ Quiet /\ NoFault /\ UNCHANGED used

\* The cloud takes a deletion: of a server in the background, of a group at once.
Execute(r) ==
  /\ r \in present \ deleting
  /\ deleted' = deleted \cup {r}
  /\ IF r \in Servers
     THEN deleting' = deleting \cup {r} /\ UNCHANGED present
     ELSE present' = present \ {r} /\ UNCHANGED deleting
  /\ UNCHANGED <<mine, shows, old, members, meddled>>

\* Mutant: failures are not counted.
MutantUncounted == failures

\* Mutant: and this counts them backwards.
MutantBackwards == failures - 1

CountFailure == failures + 1

Delete ==
  /\ pc = "delete" /\ todo # <<>>
  /\ todo' = Tail(todo)
  /\ \/ NoFault /\ Execute(Head(todo)) /\ UNCHANGED failures
     \/ Fault /\ Execute(Head(todo)) /\ failures' = CountFailure
     \/ /\ Fault \/ (NoFault /\ Head(todo) \notin present \ deleting)
        /\ Quiet /\ failures' = CountFailure
  /\ UNCHANGED <<options, pc, resources, report, approved, used>>

End ==
  /\ pc = "delete" /\ todo = <<>>
  /\ Return(IF failures > 0 THEN "count" ELSE "ok")
  /\ Quiet /\ NoFault /\ UNCHANGED used

-----------------------------------------------------------------------------
(* The rest of the world.                                                  *)

\* The cloud has deleted a server.
Reap(s) ==
  /\ s \in deleting
  /\ present' = present \ {s}
  /\ deleting' = deleting \ {s}
  /\ members' = [g \in Groups |-> members[g] \ {s}]
  /\ UNCHANGED <<mine, shows, old, meddled, clientVars, faults, deleted>>

\* Another user deletes a resource.
Withdraw(r) ==
  /\ r \in present \ deleting
  /\ present' = present \ {r}
  /\ members' = [g \in Groups |-> members[g] \ {r}]
  /\ UNCHANGED <<deleting, old>>

\* Another user creates a server, in a group or in none.
Create(s) ==
  /\ s \in Servers \ present
  /\ present' = present \cup {s}
  /\ old' = old \ {s}
  /\ \/ UNCHANGED members
     \/ \E g \in Groups \cap present :
          (s \in mine <=> g \in mine) /\ members' = [members EXCEPT ![g] = @ \cup {s}]
  /\ UNCHANGED deleting

\* Another user changes a server.
Update(s) ==
  /\ s \in old \cap present
  /\ old' = old \ {s}
  /\ UNCHANGED <<present, deleting, members>>

Meddle ==
  /\ pc # "done"
  /\ \E r \in Resources :
       /\ Withdraw(r) \/ Create(r) \/ Update(r)
       /\ meddled' = meddled \cup {r} \cup {g \in Groups : members'[g] # members[g]}
  /\ Cardinality(meddled') <= MaxMeddled
  /\ UNCHANGED <<mine, shows, clientVars, faults, deleted>>

-----------------------------------------------------------------------------
Init ==
  /\ options \in Options
  /\ mine \in SUBSET Resources
  /\ shows \in BOOLEAN
  /\ present \in SUBSET Resources
  /\ deleting = {}
  /\ old \in SUBSET (Servers \cap present)
  /\ members \in [Groups -> SUBSET (Servers \cap present)]
  /\ \A g \in Groups :
       /\ g \notin present => members[g] = {}
       /\ members[g] \subseteq {s \in Servers : s \in mine <=> g \in mine}
  /\ pc = "target"
  /\ resources = <<>>
  /\ todo = <<>>
  /\ failures = 0
  /\ report = "running"
  /\ faults = 0
  /\ used = {}
  /\ approved = FALSE
  /\ deleted = {}
  /\ meddled = {}

Client ==
  \/ projectCleanupTargetProjectID \/ ListServers \/ ListGroups
  \/ Render \/ projectCleanupPrompt \/ Delete \/ End

Next == Client \/ Meddle \/ \E s \in Servers : Reap(s)

Spec == Init /\ [][Next]_vars

-----------------------------------------------------------------------------
(* Properties.                                                             *)

\* Nothing is deleted in a dry run, or before the user has agreed, or that the
\* user has not seen in the table.
NothingUnapproved ==
  deleted # {} => approved /\ ~options.dryRun /\ deleted \subseteq ToSet(resources)

\* Where the listing names the project of a group, only resources of the project
\* are deleted, whatever changes between the listing and the deletion.
OnlyItsOwn == shows => deleted \subseteq mine

\* Success means that all that was shown is deleted, and a count of n failures
\* that all but n of it is.
ReportIsHonest ==
  /\ report = "ok" /\ approved => deleted = ToSet(resources)
  /\ report = "count" => Len(resources) <= failures + Cardinality(deleted)

Kind(r) == IF r \in Servers THEN "server" ELSE "server_group"

\* When it has succeeded, or found nothing to do, what is left of the project is being deleted, was to be
\* left alone, was a group with members, or came or changed meanwhile.
CleanAfterwards ==
  report = "ok" /\ ~options.dryRun /\ (approved \/ resources = <<>>) =>
    \A r \in mine \cap present :
      \/ r \in deleting \cup used \cup meddled
      \/ Kind(r) \in options.skip
      \/ options.timed /\ r \notin old

\* A group that had a member when the groups were listed is not deleted, even when
\* this run has deleted the member since; and one that goes with members in it got
\* every one of them from other users in between.
UsedGroupsStay ==
  \A g \in deleted \cap Groups : g \notin used /\ members[g] \subseteq meddled
=============================================================================
