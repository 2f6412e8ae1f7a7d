------------------------ MODULE ProjectCleanup_proofs ------------------------
(***************************************************************************)
(* What project cleanup never deletes, for projects of any size and any    *)
(* number of failures and of changes by other users.                       *)
(***************************************************************************)
EXTENDS ProjectCleanup, FiniteSetTheorems, TLAPS

-----------------------------------------------------------------------------
(* Sequences and the sets of their elements.                               *)

LEMMA SetToSeqFacts ==
  ASSUME NEW S, IsFiniteSet(S)
  PROVE  SetToSeq(S) \in Seq(S)
<1>1. PICK n \in Nat : ExistsBijection(1..n, S)
  BY FS_NatBijection
<1>2. Cardinality(S) = n
  BY <1>1, FS_CountingElements
<1>3. \E f \in [1..n -> S] : IsInjective(f)
  BY <1>1 DEF ExistsBijection, Bijection, Injection, IsInjective
<1>4. SetToSeq(S) \in [1..n -> S]
  BY <1>2, <1>3 DEF SetToSeq
<1> QED BY <1>4

LEMMA ConcatElements ==
  ASSUME NEW T, NEW s \in Seq(T), NEW t \in Seq(T)
  PROVE  ToSet(s \o t) \subseteq ToSet(s) \cup ToSet(t)
<1> SUFFICES ASSUME NEW n \in DOMAIN (s \o t)
             PROVE  (s \o t)[n] \in ToSet(s) \cup ToSet(t)
  BY DEF ToSet
<1>1. CASE n <= Len(s)
  BY <1>1 DEF ToSet
<1>2. CASE n > Len(s)
  <2>1. n - Len(s) \in DOMAIN t /\ (s \o t)[n] = t[n - Len(s)]
    BY <1>2
  <2> QED BY <2>1 DEF ToSet
<1> QED BY <1>1, <1>2

LEMMA ConcatKeeps ==
  ASSUME NEW T, NEW s \in Seq(T), NEW t \in Seq(T)
  PROVE  ToSet(s) \subseteq ToSet(s \o t)
<1> SUFFICES ASSUME NEW n \in DOMAIN s PROVE s[n] \in ToSet(s \o t)
  BY DEF ToSet
<1>1. n \in DOMAIN (s \o t) /\ (s \o t)[n] = s[n]
  OBVIOUS
<1> QED BY <1>1 DEF ToSet

LEMMA ConcatKeepsRight ==
  ASSUME NEW T, NEW s \in Seq(T), NEW t \in Seq(T)
  PROVE  ToSet(t) \subseteq ToSet(s \o t)
<1> SUFFICES ASSUME NEW n \in DOMAIN t PROVE t[n] \in ToSet(s \o t)
  BY DEF ToSet
<1>1. Len(s) + n \in DOMAIN (s \o t) /\ (s \o t)[Len(s) + n] = t[n]
  OBVIOUS
<1> QED BY <1>1 DEF ToSet

LEMMA HeadAndTail ==
  ASSUME NEW T, NEW s \in Seq(T), s # <<>>
  PROVE  Head(s) \in ToSet(s) /\ Tail(s) \in Seq(T) /\ ToSet(Tail(s)) \subseteq ToSet(s)
<1>1. Head(s) \in ToSet(s)
  BY DEF ToSet
<1>2. ASSUME NEW n \in DOMAIN Tail(s) PROVE Tail(s)[n] \in ToSet(s)
  <2>1. n + 1 \in DOMAIN s /\ Tail(s)[n] = s[n + 1]
    OBVIOUS
  <2> QED BY <2>1 DEF ToSet
<1> QED BY <1>1, <1>2 DEF ToSet

-----------------------------------------------------------------------------
(* What is kept on the way to NothingUnapproved and OnlyItsOwn.            *)

\* Only what has been shown is, or will be, deleted.
Seen == ToSet(todo) \cup deleted \subseteq ToSet(resources)

\* The phases of the command.
Phases ==
  /\ pc = "prompt" \/ approved => ~options.dryRun
  /\ pc = "delete" \/ deleted # {} => approved

\* The listing keeps to the project.
Own == shows => ToSet(resources) \subseteq mine

IInv == TypeOK /\ Seen /\ Phases /\ Own

LEMMA ListingFacts ==
  ASSUME TypeOK, NEW found, found \in {projectCleanupServers, projectCleanupServerGroups}
  PROVE  /\ SetToSeq(found) \in Seq(Resources)
         /\ shows => ToSet(SetToSeq(found)) \subseteq mine
<1>1. found \subseteq Servers \/ found \subseteq Groups
  BY DEF projectCleanupServers, projectCleanupServerGroups, Listed
<1>2. IsFiniteSet(found) /\ found \subseteq Resources
  BY <1>1, KindsAssumption, FS_Subset DEF Resources
<1>3. SetToSeq(found) \in Seq(found)
  BY <1>2, SetToSeqFacts
<1>4. shows => found \subseteq mine
  BY KindsAssumption DEF projectCleanupServers, projectCleanupServerGroups, Listed
<1>5. ToSet(SetToSeq(found)) \subseteq found
  BY <1>3 DEF ToSet
<1> QED BY <1>2, <1>3, <1>4, <1>5

LEMMA FaultType == TypeOK /\ (Fault \/ NoFault) => faults' \in 0..MaxFaulted
BY BoundsAssumption DEF TypeOK, Fault, NoFault

LEMMA InitKeeps == Init => IInv
<1> SUFFICES ASSUME Init PROVE IInv
  OBVIOUS
<1>1. ToSet(<<>>) = {}
  BY DEF ToSet
<1>2. shows \in BOOLEAN /\ approved \in BOOLEAN
  BY DEF Init
<1>3. options \in Options
  BY DEF Init
<1>4. faults \in 0..MaxFaulted /\ failures \in Nat
  BY BoundsAssumption DEF Init
<1>5. resources \in Seq(Resources) /\ todo \in Seq(Resources)
  BY DEF Init
<1>6. /\ mine \subseteq Resources /\ present \subseteq Resources /\ deleted \subseteq Resources
      /\ meddled \subseteq Resources /\ deleting \subseteq Servers /\ used \subseteq Groups
  BY DEF Init
<1>7. members \in [Groups -> SUBSET Servers] /\ old \subseteq Servers
  BY DEF Init
<1>8. TypeOK
  BY <1>2, <1>3, <1>4, <1>5, <1>6, <1>7 DEF Init, TypeOK
<1> QED BY <1>1, <1>8 DEF Init, IInv, Seen, Phases, Own

LEMMA TargetKeeps == IInv /\ projectCleanupTargetProjectID => IInv'
<1> SUFFICES ASSUME IInv, projectCleanupTargetProjectID PROVE IInv'
  OBVIOUS
<1>1. /\ faults' \in 0..MaxFaulted
      /\ pc' \in {"servers", "done"} /\ report' \in {report, "error"}
      /\ UNCHANGED <<cloudVars, deleted, used, options, resources, todo, failures, approved>>
  BY FaultType DEF IInv, projectCleanupTargetProjectID, Return, GoTo, Quiet
<1> QED BY <1>1 DEF IInv, TypeOK, Seen, Phases, Own, cloudVars

LEMMA ListKeeps ==
  ASSUME IInv, Quiet, NEW found, found \in {projectCleanupServers, projectCleanupServerGroups},
         NEW kind, NEW next \in {"groups", "render"}, used' \subseteq Groups,
         projectCleanupComputeResources(kind, found, next)
  PROVE  IInv'
<1>1. /\ faults' \in 0..MaxFaulted
      /\ pc' \in {next, "done"} /\ report' \in {report, "error"}
      /\ UNCHANGED <<cloudVars, deleted, options, todo, failures, approved>>
      /\ resources' \in {resources, resources \o SetToSeq(found)}
  BY FaultType DEF IInv, projectCleanupComputeResources, Return, GoTo, Quiet
<1>2. resources \in Seq(Resources) /\ SetToSeq(found) \in Seq(Resources)
  BY ListingFacts DEF IInv, TypeOK
<1>3. resources' \in Seq(Resources) /\ ToSet(resources) \subseteq ToSet(resources')
  <2>1. CASE resources' = resources
    BY <2>1, <1>2
  <2>2. CASE resources' = resources \o SetToSeq(found)
    <3>1. resources \o SetToSeq(found) \in Seq(Resources)
      BY <1>2
    <3>2. ToSet(resources) \subseteq ToSet(resources \o SetToSeq(found))
      BY <1>2, ConcatKeeps
    <3> QED BY <3>1, <3>2, <2>2
  <2> QED BY <1>1, <2>1, <2>2
<1>4. shows => ToSet(resources') \subseteq mine
  BY <1>1, <1>2, ListingFacts, ConcatElements DEF IInv, Own
<1>5. TypeOK'
  BY <1>1, <1>3 DEF IInv, TypeOK, cloudVars
<1>6. Seen' /\ Own'
  BY <1>1, <1>3, <1>4 DEF IInv, Seen, Own, cloudVars
<1>7. Phases'
  BY <1>1 DEF IInv, Phases
<1> QED BY <1>5, <1>6, <1>7 DEF IInv

LEMMA RenderKeeps == IInv /\ (Render \/ projectCleanupPrompt) => IInv'
<1> SUFFICES ASSUME IInv, Render \/ projectCleanupPrompt PROVE IInv'
  OBVIOUS
<1>1. /\ UNCHANGED <<cloudVars, deleted, used, options, resources, failures, faults>>
      /\ report' \in {report, "ok", "error"}
  BY DEF Render, projectCleanupPrompt, Return, GoTo, Quiet, NoFault
<1>2. \/ pc' = "done" /\ UNCHANGED <<todo, approved>>
      \/ pc' = "prompt" /\ ~options.dryRun /\ UNCHANGED <<todo, approved>>
      \/ pc' = "delete" /\ ~options.dryRun /\ todo' = resources /\ approved' = TRUE
  BY DEF Render, projectCleanupPrompt, Return, GoTo, IInv, Phases
<1>3. TypeOK'
  BY <1>1, <1>2 DEF IInv, TypeOK, cloudVars
<1>4. Seen' /\ Own'
  BY <1>1, <1>2 DEF IInv, Seen, Own, cloudVars
<1>5. Phases'
  BY <1>1, <1>2 DEF IInv, Phases
<1> QED BY <1>3, <1>4, <1>5 DEF IInv

LEMMA DeleteKeeps == IInv /\ Delete => IInv'
<1> SUFFICES ASSUME IInv, Delete PROVE IInv'
  OBVIOUS
<1>1. todo \in Seq(Resources) /\ todo # <<>> /\ todo' = Tail(todo) /\ pc = "delete"
      /\ UNCHANGED <<options, pc, resources, report, approved, used>>
  BY DEF Delete, IInv, TypeOK
<1>2. Head(todo) \in ToSet(todo) /\ todo' \in Seq(Resources) /\ ToSet(todo') \subseteq ToSet(todo)
  BY <1>1, HeadAndTail
<1>3. Head(todo) \in Resources
  BY <1>1
<1>4. faults' \in 0..MaxFaulted /\ failures' \in {failures, failures + 1}
  BY FaultType DEF Delete, IInv, CountFailure
<1>5. Execute(Head(todo)) \/ Quiet
  BY DEF Delete
<1>6. /\ UNCHANGED <<mine, shows, old, members, meddled>>
      /\ present' \subseteq present /\ deleting' \in {deleting, deleting \cup ({Head(todo)} \cap Servers)}
      /\ deleted' \in {deleted, deleted \cup {Head(todo)}}
  BY <1>5 DEF Execute, Quiet, cloudVars
<1>7. TypeOK'
  BY <1>1, <1>2, <1>3, <1>4, <1>6 DEF IInv, TypeOK
<1>8. Seen' /\ Own'
  BY <1>1, <1>2, <1>6 DEF IInv, Seen, Own
<1>9. Phases'
  BY <1>1, <1>6 DEF IInv, Phases
<1> QED BY <1>7, <1>8, <1>9 DEF IInv

LEMMA EndKeeps == IInv /\ End => IInv'
<1> SUFFICES ASSUME IInv, End PROVE IInv'
  OBVIOUS
<1>1. /\ UNCHANGED <<cloudVars, deleted, used, options, resources, todo, failures, approved, faults>>
      /\ report' \in {"ok", "count"} /\ pc' = "done"
  BY DEF End, Return, Quiet, NoFault
<1> QED BY <1>1 DEF IInv, TypeOK, Seen, Phases, Own, cloudVars

LEMMA WorldKeeps == IInv /\ (Meddle \/ \E s \in Servers : Reap(s)) => IInv'
<1> SUFFICES ASSUME IInv, Meddle \/ \E s \in Servers : Reap(s) PROVE IInv'
  OBVIOUS
<1>1. UNCHANGED <<mine, shows, clientVars, faults, deleted>>
  BY DEF Meddle, Reap
<1>2. /\ present' \subseteq Resources /\ deleting' \subseteq Servers /\ old' \subseteq Servers
      /\ members' \in [Groups -> SUBSET Servers] /\ meddled' \subseteq Resources
  <2>1. CASE \E s \in Servers : Reap(s)
    BY <2>1 DEF Reap, IInv, TypeOK
  <2>2. CASE Meddle
    <3>1. PICK r \in Resources : Withdraw(r) \/ Create(r) \/ Update(r)
      BY <2>2 DEF Meddle
    <3>2. present' \subseteq Resources /\ deleting' \subseteq Servers /\ old' \subseteq Servers
      BY <3>1 DEF Withdraw, Create, Update, IInv, TypeOK, Resources
    <3>3. members' \in [Groups -> SUBSET Servers]
      BY <3>1 DEF Withdraw, Create, Update, IInv, TypeOK
    <3>4. meddled' \subseteq Resources
      BY <2>2 DEF Meddle, IInv, TypeOK, Resources
    <3> QED BY <3>2, <3>3, <3>4
  <2> QED BY <2>1, <2>2
<1> QED BY <1>1, <1>2 DEF IInv, TypeOK, Seen, Phases, Own, clientVars

LEMMA NextKeeps == IInv /\ [Next]_vars => IInv'
<1> SUFFICES ASSUME IInv, [Next]_vars PROVE IInv'
  OBVIOUS
<1>1. CASE UNCHANGED vars
  BY <1>1 DEF IInv, TypeOK, Seen, Phases, Own, vars, cloudVars, clientVars
<1>2. CASE ListServers
  BY <1>2, ListKeeps DEF ListServers, IInv, TypeOK
<1>3. CASE ListGroups
  <2>1. used' \subseteq Groups
    BY <1>3 DEF ListGroups
  <2> QED BY <1>3, <2>1, ListKeeps DEF ListGroups
<1> QED BY <1>1, <1>2, <1>3, TargetKeeps, RenderKeeps, DeleteKeeps, EndKeeps, WorldKeeps
        DEF Next, Client

LEMMA InvariantHolds == Spec => []IInv
BY InitKeeps, NextKeeps, PTL DEF Spec

\* Every variable of project cleanup keeps to its type.
THEOREM TypeCorrect == Spec => []TypeOK
<1>1. IInv => TypeOK
  BY DEF IInv
<1> QED BY <1>1, InvariantHolds, PTL

\* Nothing is deleted in a dry run, unapproved or unseen.
THEOREM Approved == Spec => []NothingUnapproved
<1>1. IInv => NothingUnapproved
  BY DEF IInv, Seen, Phases, NothingUnapproved
<1> QED BY <1>1, InvariantHolds, PTL

\* Where listings name the project of a group, nothing of another project is
\* deleted.
THEOREM KeepsToProject == Spec => []OnlyItsOwn
<1>1. IInv => OnlyItsOwn
  BY DEF IInv, Seen, Own, OnlyItsOwn
<1> QED BY <1>1, InvariantHolds, PTL
-----------------------------------------------------------------------------
(* The report: what was shown is still to do, deleted or counted.          *)

LEMMA SetToSeqInjective ==
  ASSUME NEW S, IsFiniteSet(S)
  PROVE  IsInjective(SetToSeq(S)) /\ ToSet(SetToSeq(S)) = S
<1>1. PICK n \in Nat : ExistsBijection(1..n, S)
  BY FS_NatBijection
<1>2. Cardinality(S) = n
  BY <1>1, FS_CountingElements
<1>3. \E f \in [1..n -> S] : IsInjective(f)
  BY <1>1 DEF ExistsBijection, Bijection, Injection, IsInjective
<1>4. SetToSeq(S) \in [1..n -> S] /\ IsInjective(SetToSeq(S))
  BY <1>2, <1>3 DEF SetToSeq
<1>5. SetToSeq(S) \in Surjection(1..n, S)
  <2>1. SetToSeq(S) \in Injection(1..n, S)
    BY <1>4 DEF Injection, IsInjective
  <2>2. IsFiniteSet(1..n) /\ Cardinality(1..n) = n
    BY FS_Interval
  <2>. QED
    BY <1>2, <2>1, <2>2, FS_Injection
<1>6. ToSet(SetToSeq(S)) = S
  BY <1>4, <1>5 DEF ToSet, Surjection
<1>. QED
  BY <1>4, <1>6

LEMMA ConcatInjective ==
  ASSUME NEW T, NEW s \in Seq(T), NEW t \in Seq(T), IsInjective(s), IsInjective(t),
         ToSet(s) \cap ToSet(t) = {}
  PROVE  IsInjective(s \o t)
<1> SUFFICES ASSUME NEW a \in DOMAIN (s \o t), NEW b \in DOMAIN (s \o t), a < b
             PROVE  (s \o t)[a] # (s \o t)[b]
  BY DEF IsInjective
<1>1. CASE b <= Len(s)
  BY <1>1 DEF IsInjective
<1>2. CASE a > Len(s)
  <2>1. a - Len(s) \in DOMAIN t /\ b - Len(s) \in DOMAIN t
    BY <1>2
  <2>2. (s \o t)[a] = t[a - Len(s)] /\ (s \o t)[b] = t[b - Len(s)] /\ a - Len(s) # b - Len(s)
    BY <1>2
  <2>. QED
    BY <2>1, <2>2 DEF IsInjective
<1>3. CASE a <= Len(s) /\ b > Len(s)
  <2>1. (s \o t)[a] \in ToSet(s)
    BY <1>3 DEF ToSet
  <2>2. b - Len(s) \in DOMAIN t /\ (s \o t)[b] = t[b - Len(s)]
    BY <1>3
  <2>. QED
    BY <2>1, <2>2 DEF ToSet
<1>. QED
  BY <1>1, <1>2, <1>3

LEMMA TailInjective ==
  ASSUME NEW T, NEW s \in Seq(T), s # <<>>, IsInjective(s)
  PROVE  /\ IsInjective(Tail(s)) /\ Head(s) \notin ToSet(Tail(s))
         /\ ToSet(s) = {Head(s)} \cup ToSet(Tail(s))
         /\ Len(Tail(s)) = Len(s) - 1
<1>1. \A n \in DOMAIN Tail(s) : n + 1 \in DOMAIN s /\ n + 1 # 1 /\ Tail(s)[n] = s[n + 1]
  OBVIOUS
<1>2. IsInjective(Tail(s))
  BY <1>1 DEF IsInjective
<1>3. 1 \in DOMAIN s /\ Head(s) = s[1]
  OBVIOUS
<1>4. Head(s) \notin ToSet(Tail(s))
  BY <1>1, <1>3 DEF IsInjective, ToSet
<1>5. \A n \in DOMAIN s : n = 1 \/ (n - 1 \in DOMAIN Tail(s) /\ Tail(s)[n - 1] = s[n])
  OBVIOUS
<1>6. ToSet(s) = {Head(s)} \cup ToSet(Tail(s))
  <2>1. ASSUME NEW n \in DOMAIN s PROVE s[n] \in {Head(s)} \cup ToSet(Tail(s))
    BY <1>3, <1>5 DEF ToSet
  <2>2. ASSUME NEW n \in DOMAIN Tail(s) PROVE Tail(s)[n] \in ToSet(s)
    BY <1>1 DEF ToSet
  <2>3. Head(s) \in ToSet(s)
    BY <1>3 DEF ToSet
  <2>. QED
    BY <2>1, <2>2, <2>3 DEF ToSet
<1>. QED
  BY <1>2, <1>4, <1>6

\* Nothing is listed twice, nor deleted before its turn.
Distinct ==
  /\ IsInjective(resources) /\ IsInjective(todo)
  /\ ToSet(todo) \cap deleted = {}
  /\ IsFiniteSet(deleted)

\* What the command knows, and reports, at each of its stages.
Stages ==
  /\ pc \in {"target", "servers"} => resources = <<>>
  /\ pc = "groups" => ToSet(resources) \subseteq Servers
  /\ ~approved => todo = <<>> /\ deleted = {}
  /\ approved => pc \in {"delete", "done"}
  /\ pc # "done" => report = "running"
  /\ report = "ok" /\ approved => todo = <<>> /\ failures = 0
  /\ report = "count" => approved /\ todo = <<>>

Account ==
  approved =>
    /\ Len(resources) <= Len(todo) + failures + Cardinality(deleted)
    /\ failures = 0 => ToSet(resources) \subseteq ToSet(todo) \cup deleted

BInv == IInv /\ Distinct /\ Stages /\ Account

LEMMA NothingInEmpty == ToSet(<<>>) = {} /\ IsInjective(<<>>)
BY DEF ToSet, IsInjective

LEMMA InitBooks == Init => BInv
BY InitKeeps, NothingInEmpty, FS_EmptySet DEF Init, BInv, Distinct, Stages, Account

LEMMA TargetBooks == BInv /\ projectCleanupTargetProjectID => BInv'
<1> SUFFICES ASSUME BInv, projectCleanupTargetProjectID PROVE BInv'
  OBVIOUS
<1>1. /\ pc = "target"
      /\ \/ pc' = "servers" /\ report' = report
         \/ pc' = "done" /\ report' = "error"
      /\ UNCHANGED <<deleted, resources, todo, failures, approved>>
  BY DEF projectCleanupTargetProjectID, Return, GoTo, Quiet
<1>. QED
  BY <1>1, TargetKeeps DEF BInv, Distinct, Stages, Account

LEMMA ListBooks ==
  ASSUME BInv, Quiet, IInv', NEW kind,
         NEW found, IsFiniteSet(found), found \subseteq Resources,
         NEW next, \/ pc = "servers" /\ next = "groups" /\ found \subseteq Servers
                   \/ pc = "groups" /\ next = "render" /\ found \subseteq Groups,
         projectCleanupComputeResources(kind, found, next)
  PROVE  BInv'
<1>1. /\ \/ pc' = next /\ report' = report /\ resources' \in {resources, resources \o SetToSeq(found)}
         \/ pc' = "done" /\ report' = "error" /\ resources' = resources
      /\ UNCHANGED <<deleted, todo, failures, approved>>
  BY DEF projectCleanupComputeResources, Return, GoTo, Quiet
<1>2. /\ resources \in Seq(Resources) /\ SetToSeq(found) \in Seq(found)
      /\ IsInjective(SetToSeq(found)) /\ ToSet(SetToSeq(found)) = found
  BY SetToSeqFacts, SetToSeqInjective DEF BInv, IInv, TypeOK
<1>3. SetToSeq(found) \in Seq(Resources)
  BY <1>2
<1>4. ToSet(resources) \cap found = {}
  BY KindsAssumption, NothingInEmpty DEF BInv, Stages
<1>5. IsInjective(resources \o SetToSeq(found))
  BY <1>2, <1>3, <1>4, ConcatInjective DEF BInv, Distinct
<1>6. pc = "servers" => ToSet(resources \o SetToSeq(found)) \subseteq Servers /\ ToSet(resources) \subseteq Servers
  BY <1>2, <1>3, ConcatElements, NothingInEmpty DEF BInv, Stages
<1>7. Distinct'
  BY <1>1, <1>5 DEF BInv, Distinct
<1>8. Stages'
  BY <1>1, <1>6 DEF BInv, Stages
<1>9. Account'
  BY <1>1 DEF BInv, Stages, Account
<1>. QED
  BY <1>7, <1>8, <1>9 DEF BInv

LEMMA RenderBooks == BInv /\ (Render \/ projectCleanupPrompt) => BInv'
<1> SUFFICES ASSUME BInv, Render \/ projectCleanupPrompt PROVE BInv'
  OBVIOUS
<1>1. /\ pc \in {"render", "prompt"} /\ ~approved /\ deleted = {} /\ todo = <<>>
      /\ UNCHANGED <<deleted, resources, failures>>
  BY DEF Render, projectCleanupPrompt, Return, GoTo, Quiet, BInv, Stages
<1>2. \/ pc' = "done" /\ UNCHANGED <<todo, approved>> /\ report' \in {"ok", "error"}
      \/ pc' = "prompt" /\ UNCHANGED <<todo, approved, report>>
      \/ pc' = "delete" /\ todo' = resources /\ approved' = TRUE /\ UNCHANGED report
  BY DEF Render, projectCleanupPrompt, Return, GoTo
<1>3. Distinct'
  BY <1>1, <1>2 DEF BInv, Distinct
<1>4. Stages'
  BY <1>1, <1>2 DEF BInv, Stages
<1>5. Account'
  <2>1. Len(resources) \in Nat /\ failures \in Nat /\ Cardinality(deleted) = 0
    BY <1>1, FS_EmptySet DEF BInv, IInv, TypeOK
  <2>2. CASE ~approved'
    BY <1>1, <1>2, <2>2 DEF Account
  <2>3. CASE todo' = resources /\ UNCHANGED <<deleted, resources, failures>>
    <3>1. Len(resources') = Len(resources) /\ Len(todo') = Len(resources)
          /\ failures' = failures /\ Cardinality(deleted') = 0
      BY <2>1, <2>3
    <3>2. Len(resources') <= Len(todo') + failures' + Cardinality(deleted')
      BY <2>1, <3>1
    <3>3. ToSet(resources') \subseteq ToSet(todo') \cup deleted'
      BY <2>3
    <3>. QED
      BY <3>2, <3>3 DEF Account
  <2>. QED
    BY <1>1, <1>2, <2>2, <2>3
<1>. QED
  BY <1>3, <1>4, <1>5, RenderKeeps DEF BInv

LEMMA DeleteBooks == BInv /\ Delete => BInv'
<1> SUFFICES ASSUME BInv, Delete PROVE BInv'
  OBVIOUS
<1>1. /\ pc = "delete" /\ todo # <<>> /\ todo' = Tail(todo)
      /\ UNCHANGED <<pc, resources, report, approved>>
  BY DEF Delete
<1>2. approved /\ report = "running"
  BY <1>1 DEF BInv, IInv, Phases, Stages
<1>3. /\ IsInjective(todo') /\ Head(todo) \notin ToSet(todo')
      /\ ToSet(todo) = {Head(todo)} \cup ToSet(todo') /\ Len(todo') = Len(todo) - 1
  BY <1>1, TailInjective DEF BInv, IInv, TypeOK, Distinct
<1>4. \/ deleted' = deleted \cup {Head(todo)} /\ failures' \in {failures, failures + 1}
      \/ deleted' = deleted /\ failures' = failures + 1
  BY DEF Delete, Execute, Quiet, CountFailure
<1>5. Head(todo) \notin deleted
  BY <1>3 DEF BInv, Distinct
<1>6. /\ IsFiniteSet(deleted') /\ Cardinality(deleted) \in Nat
      /\ deleted' # deleted => Cardinality(deleted') = Cardinality(deleted) + 1
  BY <1>4, <1>5, FS_AddElement, FS_CardinalityType DEF BInv, Distinct
<1>7. Distinct'
  BY <1>1, <1>3, <1>4, <1>6 DEF BInv, Distinct
<1>8. Stages'
  BY <1>1, <1>2 DEF BInv, Stages
<1>9. Account'
  <2>1. Len(resources) \in Nat /\ Len(todo) \in Nat /\ failures \in Nat
    BY DEF BInv, IInv, TypeOK
  <2>2. Len(resources) <= Len(todo') + failures' + Cardinality(deleted')
    BY <1>2, <1>3, <1>4, <1>5, <1>6, <2>1 DEF BInv, Account
  <2>3. failures' = 0 => failures = 0 /\ deleted' = deleted \cup {Head(todo)}
    BY <1>4, <2>1
  <2>4. failures' = 0 => ToSet(resources) \subseteq ToSet(todo') \cup deleted'
    BY <1>2, <1>3, <2>3 DEF BInv, Account
  <2>. QED
    BY <1>1, <2>2, <2>4 DEF Account
<1>. QED
  BY <1>7, <1>8, <1>9, DeleteKeeps DEF BInv

LEMMA EndBooks == BInv /\ End => BInv'
<1> SUFFICES ASSUME BInv, End PROVE BInv'
  OBVIOUS
<1>1. /\ pc = "delete" /\ todo = <<>> /\ pc' = "done"
      /\ report' = (IF failures > 0 THEN "count" ELSE "ok")
      /\ UNCHANGED <<deleted, resources, todo, failures, approved>>
  BY DEF End, Return, Quiet
<1>2. approved /\ failures \in Nat
  BY <1>1 DEF BInv, IInv, Phases, TypeOK
<1>3. Distinct' /\ Account'
  BY <1>1 DEF BInv, Distinct, Account
<1>4. Stages'
  BY <1>1, <1>2 DEF BInv, Stages
<1>. QED
  BY <1>3, <1>4, EndKeeps DEF BInv

LEMMA FoundFacts ==
  ASSUME TypeOK
  PROVE  /\ IsFiniteSet(projectCleanupServers) /\ projectCleanupServers \subseteq Servers
         /\ IsFiniteSet(projectCleanupServerGroups) /\ projectCleanupServerGroups \subseteq Groups
<1>1. projectCleanupServers \subseteq Servers /\ projectCleanupServerGroups \subseteq Groups
  BY DEF projectCleanupServers, projectCleanupServerGroups, Listed
<1>. QED
  BY <1>1, KindsAssumption, FS_Subset

LEMMA NextBooks == BInv /\ [Next]_vars => BInv'
<1> SUFFICES ASSUME BInv, [Next]_vars PROVE BInv'
  OBVIOUS
<1>1. IInv'
  BY NextKeeps DEF BInv
<1>2. CASE UNCHANGED vars \/ Meddle \/ \E s \in Servers : Reap(s)
  <2>1. UNCHANGED <<pc, resources, todo, failures, report, approved, deleted>>
    BY <1>2 DEF vars, clientVars, Meddle, Reap
  <2>. QED
    BY <1>1, <2>1 DEF BInv, Distinct, Stages, Account
<1>3. CASE ListServers
  BY <1>1, <1>3, FoundFacts, ListBooks DEF ListServers, BInv, IInv, Resources
<1>4. CASE ListGroups
  BY <1>1, <1>4, FoundFacts, ListBooks DEF ListGroups, BInv, IInv, Resources
<1>. QED
  BY <1>2, <1>3, <1>4, TargetBooks, RenderBooks, DeleteBooks, EndBooks DEF Next, Client

LEMMA BooksAreKept == Spec => []BInv
BY InitBooks, NextBooks, PTL DEF Spec

\* Success means that all that was shown is deleted, a count of n failures that
\* all but n of it is: nothing is deleted without being taken off the list.
THEOREM HonestReport == Spec => []ReportIsHonest
<1>1. BInv => ReportIsHonest
  <2> SUFFICES ASSUME BInv PROVE ReportIsHonest
    OBVIOUS
  <2>1. report = "ok" /\ approved => deleted = ToSet(resources)
    BY NothingInEmpty DEF BInv, IInv, Seen, Stages, Account
  <2>2. report = "count" => Len(resources) <= failures + Cardinality(deleted)
    <3>1. Len(<<>>) = 0 /\ failures \in Nat
      BY DEF BInv, IInv, TypeOK
    <3>2. Cardinality(deleted) \in Nat
      BY FS_CardinalityType DEF BInv, Distinct
    <3>. QED
      BY <3>1, <3>2 DEF BInv, Stages, Account
  <2>. QED
    BY <2>1, <2>2 DEF ReportIsHonest
<1>. QED
  BY <1>1, BooksAreKept, PTL
-----------------------------------------------------------------------------
(* What is left of the project.                                            *)

\* A group on the list had no members, and gets them only from others.
Unused == \A g \in ToSet(resources) \cap Groups : g \notin used /\ members[g] \subseteq meddled

\* Behind the listing of its kind, a resource is on the list or there is a reason.
SawServers == pc \in {"groups", "render", "prompt", "delete"} \/ report \in {"ok", "count"}
SawGroups == pc \in {"render", "prompt", "delete"} \/ report \in {"ok", "count"}
Left(r) == r \in used \cup meddled \/ Kind(r) \in options.skip \/ (options.timed /\ r \notin old)
Complete ==
  /\ SawServers => \A r \in mine \cap present \cap Servers : r \in ToSet(resources) \/ Left(r)
  /\ SawGroups => \A r \in mine \cap present \cap Groups : r \in ToSet(resources) \/ Left(r)

\* What was deleted and is there is going, or has come again.
Going == \A r \in deleted \cap present : r \in deleting \cup meddled

CInv == BInv /\ Unused /\ Complete /\ Going

\* The listings.
LEMMA ListServersCleans ==
  ASSUME CInv, ListServers
  PROVE  Unused' /\ Complete' /\ Going'
<1>1. /\ UNCHANGED <<cloudVars, deleted, options>> /\ used' = used /\ pc = "servers"
      /\ \/ pc' = "groups" /\ projectCleanupSkipped("server") /\ UNCHANGED <<resources, report>>
         \/ pc' = "groups" /\ resources' = resources \o SetToSeq(projectCleanupServers) /\ UNCHANGED report
         \/ pc' = "done" /\ report' = "error" /\ UNCHANGED resources
  BY DEF ListServers, projectCleanupComputeResources, Return, GoTo, Quiet
<1>2. resources = <<>> /\ report = "running"
  BY <1>1 DEF CInv, BInv, Stages
<1>3. /\ ToSet(SetToSeq(projectCleanupServers)) = projectCleanupServers
      /\ SetToSeq(projectCleanupServers) \in Seq(Resources)
  BY FoundFacts, SetToSeqFacts, SetToSeqInjective, ListingFacts DEF CInv, BInv, IInv
<1>4. resources \o SetToSeq(projectCleanupServers) = SetToSeq(projectCleanupServers)
  BY <1>2, <1>3
<1>5. Going'
  BY <1>1 DEF CInv, Going, cloudVars
<1>6. Unused'
  <2>1. ToSet(resources') \cap Groups = {}
    BY <1>1, <1>2, <1>3, <1>4, NothingInEmpty, FoundFacts, KindsAssumption DEF CInv, BInv, IInv
  <2>. QED
    BY <2>1 DEF Unused
<1>7. \A r \in mine \cap present \cap Servers :
        r \in projectCleanupServers \/ (options.timed /\ r \notin old)
  BY DEF projectCleanupServers, Listed, projectCleanupTimestampMatch
<1>8. ~SawGroups'
  BY <1>1, <1>2 DEF SawGroups
<1>9. SawServers' => \A r \in mine' \cap present' \cap Servers : (r \in ToSet(resources') \/ Left(r)')
  <2>1. CASE projectCleanupSkipped("server")
    BY <1>1, <2>1 DEF projectCleanupSkipped, Left, Kind
  <2>2. CASE resources' = resources \o SetToSeq(projectCleanupServers)
    BY <1>1, <1>3, <1>4, <1>7, <2>2 DEF Left, cloudVars
  <2>3. CASE pc' = "done" /\ report' = "error"
    BY <2>3 DEF SawServers
  <2>. QED
    BY <1>1, <2>1, <2>2, <2>3
<1>. QED
  BY <1>5, <1>6, <1>8, <1>9 DEF Complete

LEMMA ListGroupsCleans ==
  ASSUME CInv, ListGroups
  PROVE  Unused' /\ Complete' /\ Going'
<1>1. /\ UNCHANGED <<cloudVars, deleted, options>> /\ used' = {g \in Groups : members[g] # {}}
      /\ pc = "groups"
      /\ \/ pc' = "render" /\ projectCleanupSkipped("server_group") /\ UNCHANGED <<resources, report>>
         \/ pc' = "render" /\ resources' = resources \o SetToSeq(projectCleanupServerGroups) /\ UNCHANGED report
         \/ pc' = "done" /\ report' = "error" /\ UNCHANGED resources
  BY DEF ListGroups, projectCleanupComputeResources, Return, GoTo, Quiet
<1>2. ToSet(resources) \subseteq Servers /\ report = "running" /\ SawServers
  BY <1>1 DEF CInv, BInv, Stages, SawServers
<1>3. /\ ToSet(SetToSeq(projectCleanupServerGroups)) = projectCleanupServerGroups
      /\ SetToSeq(projectCleanupServerGroups) \in Seq(Resources) /\ resources \in Seq(Resources)
  BY FoundFacts, SetToSeqFacts, SetToSeqInjective, ListingFacts DEF CInv, BInv, IInv, TypeOK
<1>4. ToSet(resources \o SetToSeq(projectCleanupServerGroups)) = ToSet(resources) \cup projectCleanupServerGroups
  BY <1>3, ConcatElements, ConcatKeeps, ConcatKeepsRight
<1>5. Going'
  BY <1>1 DEF CInv, Going, cloudVars
<1>6. Unused'
  <2>1. \A g \in projectCleanupServerGroups : members[g] = {}
    BY DEF projectCleanupServerGroups
  <2>2. ToSet(resources') \cap Groups \subseteq projectCleanupServerGroups
    BY <1>1, <1>2, <1>4, KindsAssumption
  <2>. QED
    BY <1>1, <2>1, <2>2 DEF Unused, cloudVars
<1>7. \A r \in mine \cap present \cap Groups :
        r \in projectCleanupServerGroups \/ members[r] # {} \/ (options.timed /\ r \notin old)
  BY KindsAssumption DEF projectCleanupServerGroups, Listed, CInv, BInv, IInv, TypeOK
<1>8. SawServers' => \A r \in mine' \cap present' \cap Servers : (r \in ToSet(resources') \/ Left(r)')
  <2>1. ToSet(resources) \subseteq ToSet(resources')
    BY <1>1, <1>4
  <2>2. \A r \in mine \cap present \cap Servers : r \in ToSet(resources) \/ Left(r)
    BY <1>2 DEF CInv, Complete
  <2>3. \A r \in Servers : Left(r) => Left(r)'
    BY <1>1, KindsAssumption DEF Left, Kind, cloudVars, CInv, BInv, IInv, TypeOK
  <2>. QED
    BY <1>1, <2>1, <2>2, <2>3 DEF cloudVars
<1>9. SawGroups' => \A r \in mine' \cap present' \cap Groups : (r \in ToSet(resources') \/ Left(r)')
  <2>1. CASE projectCleanupSkipped("server_group")
    BY <1>1, <2>1, KindsAssumption DEF projectCleanupSkipped, Left, Kind
  <2>2. CASE resources' = resources \o SetToSeq(projectCleanupServerGroups)
    BY <1>1, <1>4, <1>7, <2>2 DEF Left, cloudVars
  <2>3. CASE pc' = "done" /\ report' = "error"
    BY <2>3 DEF SawGroups
  <2>. QED
    BY <1>1, <2>1, <2>2, <2>3
<1>. QED
  BY <1>5, <1>6, <1>8, <1>9 DEF Complete

\* The other steps of the command add nothing to the list.
LEMMA ClientCleans ==
  ASSUME CInv,
         projectCleanupTargetProjectID \/ Render \/ projectCleanupPrompt \/ Delete \/ End
  PROVE  Unused' /\ Complete' /\ Going'
<1>1. /\ UNCHANGED <<resources, options, used, mine, old, members, meddled>>
      /\ present' \subseteq present
  BY DEF projectCleanupTargetProjectID, Render, projectCleanupPrompt, Delete, End, Return, GoTo,
         Quiet, Execute, cloudVars
<1>2. (SawServers' => SawServers) /\ (SawGroups' => SawGroups)
  <2>1. CASE projectCleanupTargetProjectID
    BY <2>1 DEF projectCleanupTargetProjectID, Return, GoTo, SawServers, SawGroups
  <2>2. CASE Render \/ projectCleanupPrompt \/ Delete \/ End
    BY <2>2 DEF Render, projectCleanupPrompt, Delete, End, SawServers, SawGroups
  <2>. QED
    BY <2>1, <2>2
<1>3. Going'
  <2>1. CASE UNCHANGED <<cloudVars, deleted>>
    BY <2>1 DEF CInv, Going, cloudVars
  <2>2. CASE Execute(Head(todo)) /\ Head(todo) \in Resources
    BY <2>2 DEF CInv, Going, Execute, Resources
  <2>3. Delete => Head(todo) \in Resources
    BY DEF Delete, CInv, BInv, IInv, TypeOK
  <2>. QED
    BY <2>1, <2>2, <2>3 DEF projectCleanupTargetProjectID, Render, projectCleanupPrompt, Delete, End, Quiet
<1>4. \A r : Left(r) => Left(r)'
  BY <1>1 DEF Left
<1>. QED
  BY <1>1, <1>2, <1>3, <1>4 DEF CInv, Unused, Complete

LEMMA WorldCleans ==
  ASSUME CInv, Meddle \/ \E s \in Servers : Reap(s)
  PROVE  Unused' /\ Complete' /\ Going'
<1>1. UNCHANGED <<mine, shows, clientVars, deleted>> /\ meddled \subseteq meddled'
  BY DEF Meddle, Reap
<1>2. /\ old' \subseteq old
      /\ \A r \in present' : r \in present \/ r \in meddled'
      /\ \A g \in Groups : members'[g] \subseteq members[g] \cup meddled'
      /\ \A r \in deleting : r \in deleting' \/ r \notin present'
  <2>1. CASE \E s \in Servers : Reap(s)
    BY <2>1 DEF Reap
  <2>2. CASE Meddle
    <3>1. PICK r \in Resources : /\ Withdraw(r) \/ Create(r) \/ Update(r)
                                 /\ meddled' = meddled \cup {r} \cup {g \in Groups : members'[g] # members[g]}
      BY <2>2 DEF Meddle
    <3>2. old' \subseteq old /\ deleting' = deleting /\ present' \subseteq present \cup {r}
      BY <3>1 DEF Withdraw, Create, Update
    <3>3. \A g \in Groups : members'[g] \subseteq members[g] \cup {r}
      BY <3>1 DEF Withdraw, Create, Update, CInv, BInv, IInv, TypeOK
    <3>. QED
      BY <3>1, <3>2, <3>3
  <2>. QED
    BY <2>1, <2>2
<1>3. Unused'
  BY <1>1, <1>2 DEF CInv, Unused, clientVars
<1>4. Going'
  BY <1>1, <1>2 DEF CInv, Going
<1>5. \A r : Left(r) => Left(r)'
  BY <1>1, <1>2 DEF Left, clientVars
<1>6. \A r \in meddled' : Left(r)'
  BY DEF Left
<1>7. Complete'
  BY <1>1, <1>2, <1>5, <1>6 DEF CInv, Complete, SawServers, SawGroups, clientVars
<1>. QED
  BY <1>3, <1>4, <1>7

LEMMA NextCleans == CInv /\ [Next]_vars => CInv'
<1> SUFFICES ASSUME CInv, [Next]_vars PROVE CInv'
  OBVIOUS
<1>1. BInv'
  BY NextBooks DEF CInv
<1>2. CASE UNCHANGED vars
  BY <1>1, <1>2 DEF CInv, Unused, Complete, Going, SawServers, SawGroups, Left, vars, cloudVars, clientVars
<1>3. CASE Next
  BY <1>1, <1>3, ListServersCleans, ListGroupsCleans, ClientCleans, WorldCleans DEF Next, Client, CInv
<1>. QED
  BY <1>2, <1>3

LEMMA InitCleans == Init => CInv
BY InitBooks, NothingInEmpty DEF Init, CInv, Unused, Complete, Going, SawServers, SawGroups

LEMMA CleaningHolds == Spec => []CInv
BY InitCleans, NextCleans, PTL DEF Spec

\* What is there of the project behind a cleanup that succeeded is on its way, was
\* to be left alone, was in use, or came or changed meanwhile.
THEOREM LeavesNothing == Spec => []CleanAfterwards
<1>1. CInv => CleanAfterwards
  <2> SUFFICES ASSUME CInv, report = "ok", ~options.dryRun, approved \/ resources = <<>>,
                      NEW r \in mine \cap present
               PROVE  \/ r \in deleting \cup used \cup meddled
                      \/ Kind(r) \in options.skip
                      \/ options.timed /\ r \notin old
    BY DEF CleanAfterwards
  <2>1. r \in ToSet(resources) \/ Left(r)
    BY DEF CInv, BInv, IInv, TypeOK, Resources, Complete, SawServers, SawGroups
  <2>2. ToSet(resources) \subseteq deleted
    BY NothingInEmpty DEF CInv, BInv, Stages, Account
  <2>. QED
    BY <2>1, <2>2 DEF Left, CInv, Going
<1>. QED
  BY <1>1, CleaningHolds, PTL

\* A group that had a member when it was listed is not deleted, whatever became of
\* the member; one that is deleted with members got all of them from others since.
THEOREM UsedGroupsAreKept == Spec => []UsedGroupsStay
<1>1. CInv => UsedGroupsStay
  BY DEF CInv, BInv, IInv, Seen, Unused, UsedGroupsStay
<1>. QED
  BY <1>1, CleaningHolds, PTL
=============================================================================
