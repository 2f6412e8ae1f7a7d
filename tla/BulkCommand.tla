---------------------------- MODULE BulkCommand -----------------------------
(***************************************************************************)
(* One run of a command over several resources, against a cloud that other *)
(* users change at the same time.  The command is sequential; it gives up  *)
(* the processor at every request, and one action below is one request and *)
(* the handler's code up to the next one.  A request may be answered, be   *)
(* refused, or be executed and its reply lost.                             *)
(***************************************************************************)
EXTENDS BulkHandlers, Naturals, Sequences, FiniteSets

CONSTANTS
  Ids,          \* resource IDs
  Names,        \* names that are not the ID of a resource
  Foreign,      \* the IDs that lie outside the caller's project or domain
  Handlers,     \* the handler records a run may execute
  ArgLists,     \* the argument lists a run may be given
  NoValue,      \* no target yet
  NamespaceLength,   \* length of the metadef namespace's name
  MaxFaulted,   \* bound on the arguments whose requests fail
  MaxMeddled    \* bound on the resources other users touch

\* A resource may be named like the ID of another one.
Values == Ids \cup Names

ASSUME NoValueAssumption == NoValue \notin Values
ASSUME HandlersAssumption == Handlers \subseteq HandlerRecords
ASSUME ArgListsAssumption == ArgLists \subseteq Seq(Values) \ {<<>>}
ASSUME IdsAssumption == IsFiniteSet(Ids) /\ Foreign \subseteq Ids
ASSUME BoundsAssumption ==
  {NamespaceLength, MaxFaulted, MaxMeddled} \subseteq Nat

\* What the table of handlers is like; some theorems rest on it.  Only deletions
\* are waited for, and a finder whose listing matches IDs too lists every project.
WaitsForDeletes == \A h \in Handlers : h.wait => h.effect = "delete" /\ ~h.ignoreMissing
ListsShowIds == \A h \in Handlers : h.lookup = "get-listany" => h.scope # "mine"

VARIABLES
  status,     \* of every ID: "absent", "live", "deleting", "gone"
  name,       \* of every ID, meaningful while the resource exists
  cmd,        \* the handler
  args,       \* its arguments
  pc,         \* the next request (or the end of the loop)
  i,          \* the argument being worked on
  target,     \* what the call will be addressed to
  failures,   \* the handler's counter
  deleted,    \* the handler's list of what to wait for
  expired,    \* whether the deadline of the current wait has passed
  report,     \* what the command returned
  settled,    \* history: <<j, v>>, the call of argument j was executed on v
  faulted,    \* history: the arguments one of whose requests failed
  meddled     \* history: the IDs that other users touched

cloudVars == <<status, name, meddled>>
clientVars == <<cmd, args, pc, i, target, failures, deleted, expired, report,
                settled, faulted>>
vars == <<cloudVars, clientVars>>

Running == [kind |-> "running", failures |-> 0, total |-> 0]
Ok == [Running EXCEPT !.kind = "ok"]
Error == [Running EXCEPT !.kind = "error"]
Count(n) == [kind |-> "count", failures |-> n,
             total |-> IF cmd.total = "namespace" THEN NamespaceLength ELSE Len(args)]

TypeOK ==
  /\ status \in [Ids -> {"absent", "live", "deleting", "gone"}]
  /\ name \in [Ids -> Values]
  /\ cmd \in Handlers
  /\ args \in ArgLists
  /\ pc \in {"setup", "get", "list", "confirm", "call", "after", "wait", "done"}
  /\ i \in Nat \ {0}
  /\ target \in Values \cup {NoValue}
  /\ failures \in Nat
  /\ deleted \in Seq(Values)
  /\ expired \in BOOLEAN
  /\ report \in [kind : {"running", "ok", "count", "error"}, failures : Nat, total : Nat]
  /\ settled \subseteq Nat \X Values
  /\ faulted \subseteq Nat
  /\ meddled \subseteq Ids

-----------------------------------------------------------------------------
(* The cloud's side of a request.                                          *)

Exists(v) == v \in Ids /\ status[v] \in {"live", "deleting"}

InScope(id) == cmd.scope = "all" \/ id \notin Foreign

\* Get is not restricted to a project; with a domain the handler itself
\* refuses what lies outside it.
Gettable(v) == Exists(v) /\ (cmd.scope = "domain" => InScope(v))

\* Mutant: the service's own, looser name filter is trusted.
MutantLooseMatch(v) == {id \in Ids : Exists(id) /\ InScope(id)}

MatchedByListing(v) ==
  {id \in Ids : /\ Exists(id)
                /\ InScope(id)
                /\ \/ name[id] = v
                   \/ id = v /\ cmd.lookup \notin {"get-list", "id-list"}}

-----------------------------------------------------------------------------
(* The handler between two requests.                                       *)

\* Mutant: names are tried before IDs.
MutantNamesFirst(v) == IF cmd.lookup = "none" THEN "call" ELSE "list"

LookupRequest(v) ==
  IF cmd.lookup = "none" THEN "call"
  ELSE IF cmd.lookup \in ListFirst THEN "list"
  ELSE IF cmd.lookup = "id-list" /\ v \notin Ids THEN "list"
  ELSE "get"

FirstRequest(setups, v) == IF cmd.setup \in setups THEN "setup" ELSE LookupRequest(v)

\* Mutant: the zero value of a string where nothing has been looked up.
MutantZeroTarget(v) == IF cmd.lookup = "none" THEN v ELSE ""

\* Without a lookup the argument itself is what the call is addressed to.
FirstTarget(v) == IF cmd.lookup = "none" THEN v ELSE NoValue

\* Turn to argument k, or leave the loop.
Turn(k) ==
  /\ i' = k
  /\ pc' = IF k > Len(args) THEN "after" ELSE FirstRequest({"each"}, args[k])
  /\ target' = IF k > Len(args) THEN NoValue ELSE FirstTarget(args[k])

\* Mutants: a failure that is not counted, one that leaves the loop, and a
\* lookup that found nothing skipped where it should end the command.
MutantFailUncounted(kind) ==
  IF kind \in cmd.fatal
  THEN report' = Error /\ pc' = "done" /\ UNCHANGED <<i, target, failures>>
  ELSE Turn(i + 1) /\ UNCHANGED <<failures, report>>

MutantFailBreaks(kind) ==
  IF kind \in cmd.fatal
  THEN report' = Error /\ pc' = "done" /\ UNCHANGED <<i, target, failures>>
  ELSE /\ failures' = failures + 1
       /\ Turn(Len(args) + 1)
       /\ UNCHANGED report

MutantFailSkips(kind) ==
  IF kind \in cmd.fatal \ {"missing"}
  THEN report' = Error /\ pc' = "done" /\ UNCHANGED <<i, target, failures>>
  ELSE /\ failures' = failures + 1
       /\ Turn(i + 1)
       /\ UNCHANGED report

\* The current argument failed: count it and go on, or return the error.
Fail(kind) ==
  IF kind \in cmd.fatal
  THEN /\ report' = Error
       /\ pc' = "done"
       /\ UNCHANGED <<i, target, failures>>
  ELSE /\ failures' = failures + 1
       /\ Turn(i + 1)
       /\ UNCHANGED report

GoTo(next) == pc' = next /\ UNCHANGED <<i, target, failures, report>>

\* The lookup is over: the call goes to v, or v is read once more.
Resolve(v, next) == target' = v /\ pc' = next /\ UNCHANGED <<i, failures, report>>

Return(result) == report' = result /\ pc' = "done" /\ UNCHANGED <<i, target, failures>>

\* Whether the request goes wrong for a reason the cloud's state does not show.
Fault ==
  /\ i \in faulted \/ Cardinality(faulted) < MaxFaulted
  /\ faulted' = faulted \cup {i}

NoFault == UNCHANGED faulted

\* What a request that only reads, made inside the loop, leaves alone.
OnlyReads == UNCHANGED <<cloudVars, cmd, args, deleted, expired, settled>>

-----------------------------------------------------------------------------
Setup ==
  /\ pc = "setup"
  /\ \/ NoFault /\ GoTo(LookupRequest(args[i]))
     \/ Fault /\ IF cmd.setup = "once" THEN Return(Error) ELSE Fail("lookup")
  /\ OnlyReads

\* Get by the argument.  All finders but neutronExtraFindRaw take any error for
\* "not an ID".
Get ==
  /\ pc = "get"
  /\ \/ NoFault /\ Gettable(args[i]) /\ Resolve(args[i], "call")
     \/ NoFault /\ ~Gettable(args[i]) /\ GoTo("list")
     \/ Fault /\ IF cmd.lookup = "get404-list" THEN Fail("lookup") ELSE GoTo("list")
  /\ OnlyReads

\* Mutant: the first of several matches will do.
MutantAnyPick(matches) == matches

\* What the finder may take of the listed matches: the only one (singleMatch);
\* with the list-first finders, whichever comes first.
Picks(matches) ==
  IF cmd.lookup \in ListFirst \/ Cardinality(matches) = 1 THEN matches ELSE {}

List ==
  /\ pc = "list"
  /\ LET matches == MatchedByListing(args[i])
     IN \/ /\ NoFault
           /\ \E id \in Picks(matches) :
                Resolve(id, IF cmd.lookup = "list-confirm" THEN "confirm" ELSE "call")
        \/ /\ NoFault /\ Picks(matches) = {}
           /\ IF cmd.lookup \in ListFirst THEN Resolve(args[i], "confirm")
              ELSE Fail(IF matches = {} THEN "missing" ELSE "ambiguous")
        \/ /\ Fault
           /\ IF cmd.lookup = "list-get" THEN Resolve(args[i], "confirm")
              ELSE Fail("lookup")
  /\ OnlyReads

\* The list-first finders read the chosen ID, or the argument, again.
Confirm ==
  /\ pc = "confirm"
  /\ \/ NoFault /\ Exists(target) /\ GoTo("call")
     \/ NoFault /\ ~Exists(target) /\ Fail("lookup")
     \/ Fault /\ Fail("lookup")
  /\ OnlyReads

\* The cloud executes the call: a deletion is done at once or in the background.
Execute ==
  /\ Exists(target)
  /\ settled' = settled \cup {<<i, target>>}
  /\ \/ /\ cmd.effect = "delete"
        /\ \E s \in {"deleting", "gone"} : status' = [status EXCEPT ![target] = s]
     \/ cmd.effect = "act" /\ UNCHANGED status
  /\ UNCHANGED <<name, meddled>>

\* Mutant: only the last deletion is remembered.
MutantForgetful ==
  /\ Turn(i + 1)
  /\ deleted' = IF cmd.wait THEN <<target>> ELSE deleted
  /\ UNCHANGED <<failures, report>>

\* Only the handler that waits uses its list of deleted resources.
Succeed ==
  /\ Turn(i + 1)
  /\ deleted' = IF cmd.wait THEN Append(deleted, target) ELSE deleted
  /\ UNCHANGED <<failures, report>>

Call ==
  /\ pc = "call"
  /\ \/ NoFault /\ Execute /\ Succeed
     \/ Fault /\ Execute /\ Fail("call") /\ UNCHANGED deleted
     \/ Fault /\ Fail("call") /\ UNCHANGED <<cloudVars, settled, deleted>>
     \/ /\ NoFault /\ ~Exists(target) /\ cmd.ignoreMissing
        /\ settled' = settled \cup {<<i, target>>}
        /\ Succeed
        /\ UNCHANGED cloudVars
     \/ /\ NoFault /\ ~Exists(target) /\ ~cmd.ignoreMissing
        /\ Fail("call404")
        /\ UNCHANGED <<cloudVars, settled, deleted>>
  /\ UNCHANGED <<cmd, args, expired>>

\* Mutant: an error only when everything failed.
MutantTolerant ==
  /\ pc = "after"
  /\ IF failures = Len(args) THEN Return(Count(failures))
     ELSE IF deleted # <<>> THEN GoTo("wait")
     ELSE Return(Ok)
  /\ UNCHANGED faulted
  /\ OnlyReads

\* Behind the loop: any failure is reported at once, and nothing is waited for.
AfterLoop ==
  /\ pc = "after"
  /\ IF failures > 0 THEN Return(Count(failures))
     ELSE IF deleted # <<>> THEN GoTo("wait")
     ELSE Return(Ok)
  /\ UNCHANGED faulted
  /\ OnlyReads

\* Mutant: the deadline is computed anew at every poll.
MutantMovingDeadline == FALSE

\* time.Now().After(deadline), where the deadline is set once for every wait.
DeadlinePassed == expired

\* waitForServerGone, for each deleted server in turn: a poll that finds the
\* server gone ends its wait; one that finds it still there after the deadline,
\* or that fails, ends the command.  (One that finds it there before the deadline
\* changes nothing.)
Wait ==
  /\ pc = "wait"
  /\ \/ /\ NoFault /\ ~Exists(Head(deleted))
        /\ deleted' = Tail(deleted)
        /\ expired' = FALSE
        /\ IF Tail(deleted) = <<>> THEN Return(Ok) ELSE GoTo("wait")
     \/ /\ NoFault /\ Exists(Head(deleted)) /\ DeadlinePassed
        /\ Return(Error)
        /\ UNCHANGED <<deleted, expired>>
     \/ Fault /\ Return(Error) /\ UNCHANGED <<deleted, expired>>
  /\ UNCHANGED <<cloudVars, cmd, args, settled>>

\* Half an hour of waiting passes.
Expire ==
  /\ pc = "wait" /\ ~expired
  /\ expired' = TRUE
  /\ UNCHANGED <<cloudVars, cmd, args, pc, i, target, failures, deleted, report,
                 settled, faulted>>

-----------------------------------------------------------------------------
(* The rest of the world.                                                  *)

\* Another user deletes, creates or renames a resource, or the background
\* deletion of one fails and it stays.
Meddle(id) ==
  /\ pc # "done"
  /\ id \in meddled \/ Cardinality(meddled) < MaxMeddled
  /\ meddled' = meddled \cup {id}
  /\ \/ Exists(id) /\ status' = [status EXCEPT ![id] = "gone"] /\ UNCHANGED name
     \/ status[id] = "deleting" /\ status' = [status EXCEPT ![id] = "live"] /\ UNCHANGED name
     \/ /\ status[id] = "absent"
        /\ status' = [status EXCEPT ![id] = "live"]
        /\ \E n \in Values : name' = [name EXCEPT ![id] = n]
     \/ /\ Exists(id)
        /\ \E n \in Values \ {name[id]} : name' = [name EXCEPT ![id] = n]
        /\ UNCHANGED status
  /\ UNCHANGED clientVars

\* A background deletion comes to its end.
Reap(id) ==
  /\ status[id] = "deleting"
  /\ status' = [status EXCEPT ![id] = "gone"]
  /\ UNCHANGED <<name, meddled, clientVars>>

-----------------------------------------------------------------------------
Init ==
  /\ status \in [Ids -> {"absent", "live"}]
  /\ name \in [Ids -> Values]
  /\ cmd \in Handlers
  /\ args \in ArgLists
  /\ pc = FirstRequest({"each", "once"}, args[1])
  /\ i = 1
  /\ target = FirstTarget(args[1])
  /\ failures = 0
  /\ deleted = <<>>
  /\ expired = FALSE
  /\ report = Running
  /\ settled = {}
  /\ faulted = {}
  /\ meddled = {}

Client == Setup \/ Get \/ List \/ Confirm \/ Call \/ AfterLoop \/ Wait

World == \E id \in Ids : Meddle(id) \/ Reap(id)

Next == Client \/ Expire \/ World

Spec == Init /\ [][Next]_vars

\* The process runs (every request is answered, unless it fails) and time
\* passes.  Nothing is assumed of the cloud's background work.
FairSpec == Spec /\ WF_vars(Client /\ NoFault) /\ WF_vars(Expire)

-----------------------------------------------------------------------------
(* Properties.                                                             *)

SettledArgs == {s[1] : s \in settled}


\* The m of "n of m failed".  The three deletions of metadef objects, properties
\* and associations print the length of the namespace's name there; for them, what
\* follows is about the number of their arguments, which they do not print.
ReportedTotal == IF cmd.total = "arguments" THEN report.total ELSE Len(args)

\* A command that reports success had the cloud execute the call of every
\* argument; one that reports "n of m failed" had at least m - n executed.  (It
\* may have had more: a call whose reply is lost counts as a failure.)
ReportIsHonest ==
  /\ report.kind = "ok" => SettledArgs = 1..Len(args)
  /\ report.kind = "count" =>
       /\ report.failures > 0
       /\ Cardinality(SettledArgs) <= ReportedTotal
       /\ ReportedTotal <= report.failures + Cardinality(SettledArgs)

\* A handler that returns the first error leaves no argument behind unexecuted:
\* what it did is a prefix of the command line, and at most the argument it
\* stopped at is in doubt.
FirstErrorStops ==
  (cmd.fatal = FailureKinds) =>
    /\ 1..(i - 1) \subseteq SettledArgs
    /\ SettledArgs \subseteq 1..i

\* A command never touches a resource whose ID or name is not on its command
\* line: no target is left over from an earlier argument.
OnlyWhatWasNamed ==
  \A s \in settled :
    \/ s[2] = args[s[1]]
    \/ s[2] \in meddled
    \/ s[2] \in Ids /\ name[s[2]] = args[s[1]]

\* An argument that is the ID of an existing resource is not taken for the name
\* of another one; unless, with the finders that take any error of the Get for
\* "not an ID", that request failed.
IdWinsOverName ==
  \A s \in settled :
    \/ s[2] = args[s[1]]
    \/ args[s[1]] \notin Ids \ meddled
    \/ status[args[s[1]]] \in {"absent", "gone"}
    \/ cmd.lookup \in {"get-list", "id-list"} /\ s[1] \in faulted
    \/ cmd.lookup \in ListFirst
    \/ cmd.scope = "domain" /\ args[s[1]] \in Foreign

\* A name shared by several resources in scope is refused, whatever else is on
\* the command line: if one of them is touched under that name, the others had
\* been touched by earlier arguments.  (So "delete <id of a> x", with a and b
\* both named x, deletes both.)  The list-first finders do not check.
AmbiguousNameIsRefused ==
  (meddled = {} /\ cmd.lookup \notin ListFirst) =>
    \A s \in settled : s[2] # args[s[1]] =>
      \A id \in Ids \ {s[2]} :
        (name[id] = args[s[1]] /\ status[id] # "absent" /\ InScope(id)) =>
          \E t \in settled : t[1] < s[1] /\ t[2] = id

\* In a handler that counts, an argument's fate is its own: if it denotes a
\* resource nobody else touches and none of its own requests fails, its call is
\* executed, whatever happened to the arguments before it.  (The list-first
\* finders may take another resource of that name.)
ArgumentsAreIndependent ==
  (cmd.fatal = {} /\ meddled = {} /\ report.kind \in {"ok", "count"} /\ cmd.lookup \notin ListFirst) =>
    \A j \in (1..Len(args)) \ (faulted \cup SettledArgs) :
      LET untouched == {id \in Ids : /\ status[id] # "absent"
                                     /\ \A s \in settled : s[1] < j => s[2] # id}
          named == {id \in Ids : status[id] # "absent" /\ InScope(id) /\ name[id] = args[j]}
      IN /\ cmd.scope = "domain" \/ args[j] \notin untouched
         /\ (cmd.lookup # "none" /\ \A id \in Ids : id = args[j] => status[id] = "absent") =>
              \A id \in untouched : named # {id}

\* "delete --wait" succeeds only when everything it deleted is gone.
WaitedDeletesAreGone ==
  (cmd.wait /\ report.kind = "ok") => \A s \in settled : status[s[2]] = "gone"

\* The command keeps the promise of BulkContract.
Contract == INSTANCE BulkContract
  WITH total <- Len(args), next <- i, executed <- SettledArgs,
       verdict <- [kind |-> report.kind, failures |-> report.failures]

KeepsContract == Contract!Spec

\* A command ends, however the cloud behaves.
Terminates == <>(pc = "done")
=============================================================================
