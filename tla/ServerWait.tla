----------------------------- MODULE ServerWait -----------------------------
(***************************************************************************)
(* One run of a server command that starts background operations.  The     *)
(* cloud works on them, other users change servers, requests fail, and a   *)
(* wait has a deadline.  One action of the client is one request and the   *)
(* handler's code up to the next one.                                      *)
(***************************************************************************)
EXTENDS WaitHandlers, Naturals, Sequences, FiniteSets

CONSTANTS
  Servers,      \* servers, or the images made of them
  Handlers,     \* the handler records a run may execute
  MaxFaulted,   \* bound on the arguments whose requests fail
  MaxMeddled,   \* bound on the servers other users touch
  MaxArguments  \* bound on the length of the command line

Statuses == {"absent", "BUILD", "ACTIVE", "SHUTOFF", "ERROR", "SHELVED", "SHELVED_OFFLOADED",
             "VERIFY_RESIZE", "queued", "active", "killed", "deleted"}

HandlerRecords ==
  [steps : {<<a>> : a \in Actions} \cup {<<"shelve", "shelveOffload">>},
   many : BOOLEAN, wait : BOOLEAN, targets : SUBSET Statuses,
   failures : SUBSET Statuses, task : BOOLEAN, reread : BOOLEAN]

\* What a poll waits for is never where a failure puts a server, nor where a
\* server is while it is made; only images are waited for without their task; and
\* what a poll takes for a failure is where nothing but a failure leads.
Unfinished == {"absent", "BUILD", "queued", "ERROR", "killed", "deleted"}

ASSUME HandlersAssumption ==
  /\ Handlers \subseteq HandlerRecords
  /\ \A h \in Handlers : /\ h.targets \cap Unfinished = {} /\ (~h.task => h.steps = <<"image">>)
                          /\ h.failures \subseteq {"ERROR", "killed", "deleted"}
ASSUME BoundsAssumption == {MaxFaulted, MaxMeddled} \subseteq Nat /\ MaxArguments \in Nat \ {0}

VARIABLES
  status,     \* of every server
  task,       \* the operation the cloud carries out on it, or "none"
  showsTask,  \* whether the cloud shows the caller the task
  cmd,        \* the handler
  args,       \* the servers named on the command line
  pc,         \* the next request
  i,          \* the argument being worked on
  k,          \* the step of the handler being worked on
  expired,    \* whether the deadline of the current wait has passed
  report,     \* what the command returned
  origin,     \* history: of every argument, its status when its operation began
  fate,       \* history: of every argument, what became of its operation
  accepted,   \* history: the arguments all of whose actions were accepted
  faulted,    \* history: the arguments one of whose requests failed
  meddled     \* history: the servers other users touched

cloudVars == <<status, task, showsTask, meddled>>
clientVars == <<cmd, args, pc, i, k, expired, report>>
vars == <<cloudVars, clientVars, origin, fate, accepted, faulted>>

Fates == {"none", "pending", "succeeded", "failed"}

TypeOK ==
  /\ status \in [Servers -> Statuses]
  /\ task \in [Servers -> Actions \cup {"none", "autoOffload"}]
  /\ showsTask \in BOOLEAN
  /\ cmd \in Handlers
  /\ args \in Seq(Servers) \ {<<>>}
  /\ pc \in {"lookup", "act", "poll", "reread", "end", "done"}
  /\ i \in 1..(Len(args) + 1)
  /\ k \in 1..Len(cmd.steps)
  /\ expired \in BOOLEAN
  /\ report \in {"running", "ok", "error", "failed", "timeout"}
  /\ origin \in [1..Len(args) -> Statuses]
  /\ fate \in [1..Len(args) -> Fates]
  /\ accepted \subseteq Nat
  /\ faulted \subseteq Nat
  /\ meddled \subseteq Servers

-----------------------------------------------------------------------------
(* The cloud.  An action is accepted in certain statuses and only while no *)
(* task is going on; accepting it starts the task before the reply is sent.*)

Accepts(action) ==
  CASE action \in {"create", "image"} -> {"absent"}
    [] action \in {"confirmResize", "revertResize"} -> {"VERIFY_RESIZE"}
    [] action = "shelveOffload" -> {"SHELVED"}
    [] action = "unshelve" -> {"SHELVED", "SHELVED_OFFLOADED"}
    [] action = "live-migrate" -> {"ACTIVE"}
    [] action \in {"resize", "migrate", "shelve"} -> {"ACTIVE", "SHUTOFF"}
    [] action \in {"reboot", "rebuild", "evacuate"} -> {"ACTIVE", "SHUTOFF", "ERROR"}

\* The status while the task goes on: that of before, for servers that existed.
During(action, before) ==
  IF action = "create" THEN "BUILD" ELSE IF action = "image" THEN "queued" ELSE before

\* Where an operation that succeeds may leave the server.  A server that was
\* stopped when it was shelved, rebuilt or resized is stopped again afterwards.
Outcomes(action, before) ==
  CASE action = "image" -> {"active"}
    [] action \in {"create", "reboot", "live-migrate"} -> {"ACTIVE"}
    [] action \in {"resize", "migrate"} -> {"VERIFY_RESIZE"}
    [] action \in {"confirmResize", "revertResize", "unshelve"} -> {"ACTIVE", "SHUTOFF"}
    [] action \in {"rebuild", "evacuate"} -> {IF before = "SHUTOFF" THEN "SHUTOFF" ELSE "ACTIVE"}
    [] action = "shelve" -> {"SHELVED"}
    [] action \in {"shelveOffload", "autoOffload"} -> {"SHELVED_OFFLOADED"}

\* Where one that fails may leave it: in error, or as it was.
FailedOutcomes(action, before) ==
  CASE action = "image" -> {"killed", "deleted", "absent"}
    [] action = "create" -> {"ERROR"}
    [] OTHER -> {"ERROR", before}

\* The operations of this command on a server come to this end.
Settle(s, end) ==
  fate' = [j \in DOMAIN fate |->
             IF args[j] = s /\ fate[j] = "pending" THEN end ELSE fate[j]]

\* A task ends.  Many clouds go on to offload what they have shelved; should that
\* fail, the server may stay shelved.
Finish(s) ==
  /\ pc # "done"
  /\ task[s] # "none"
  /\ \/ /\ \E after \in Outcomes(task[s], status[s]) : status' = [status EXCEPT ![s] = after]
        /\ \E next \in {"none"} \cup IF task[s] = "shelve" THEN {"autoOffload"} ELSE {} :
             /\ task' = [task EXCEPT ![s] = next]
             /\ IF next = "none" THEN Settle(s, "succeeded") ELSE UNCHANGED fate
     \/ /\ \E after \in FailedOutcomes(task[s], status[s]) :
             /\ status' = [status EXCEPT ![s] = after]
             /\ Settle(s, IF task[s] = "autoOffload" /\ after = "SHELVED" THEN "succeeded" ELSE "failed")
        /\ task' = [task EXCEPT ![s] = "none"]
  /\ UNCHANGED <<showsTask, meddled, clientVars, origin, accepted, faulted>>

\* Another user deletes the server, stops or starts it, or has it rebooted.
Meddle(s) ==
  /\ pc # "done"
  /\ s \in meddled \/ Cardinality(meddled) < MaxMeddled
  /\ meddled' = meddled \cup {s}
  /\ \/ status[s] # "absent" /\ status' = [status EXCEPT ![s] = "absent"]
        /\ task' = [task EXCEPT ![s] = "none"]
     \/ /\ status[s] \in {"ACTIVE", "SHUTOFF"} /\ task[s] = "none"
        /\ \/ \E other \in {"ACTIVE", "SHUTOFF"} \ {status[s]} :
                status' = [status EXCEPT ![s] = other] /\ UNCHANGED task
           \/ task' = [task EXCEPT ![s] = "reboot"] /\ UNCHANGED status
  /\ UNCHANGED <<showsTask, clientVars, origin, fate, accepted, faulted>>

-----------------------------------------------------------------------------
Exists(s) == status[s] # "absent"

\* Whether a request goes wrong for a reason the cloud's state does not show.
Fault ==
  /\ i \in faulted \/ Cardinality(faulted) < MaxFaulted
  /\ faulted' = faulted \cup {i}

NoFault == UNCHANGED faulted

Return(result) ==
  report' = result /\ pc' = "done" /\ UNCHANGED <<i, k, expired>>

GoTo(next) == pc' = next /\ UNCHANGED <<i, k, expired, report>>

\* Done with the current argument.
NextArgument ==
  /\ i' = i + 1
  /\ k' = 1
  /\ pc' = IF i = Len(args) THEN "end" ELSE "lookup"
  /\ UNCHANGED <<expired, report>>

\* Mutant: a server that is not found is passed over.
MutantSkipMissing ==
  /\ pc = "lookup"
  /\ \/ /\ NoFault
        /\ IF Exists(args[i]) \/ cmd.steps[1] \in {"create", "image"} THEN GoTo("act") ELSE NextArgument
     \/ Fault /\ Return("error")
  /\ UNCHANGED <<cloudVars, cmd, args, origin, fate, accepted>>

\* All reads that come before the first action: of the server, and of the
\* flavor, image, networks and volumes the request refers to.
Lookup ==
  /\ pc = "lookup"
  /\ \/ /\ NoFault
        /\ IF Exists(args[i]) \/ cmd.steps[1] \in {"create", "image"} THEN GoTo("act") ELSE Return("error")
     \/ Fault /\ Return("error")
  /\ UNCHANGED <<cloudVars, cmd, args, origin, fate, accepted>>

\* The cloud accepts the action.
Start(action) ==
  LET s == args[i]
  IN /\ task[s] = "none" /\ status[s] \in Accepts(action)
     /\ task' = [task EXCEPT ![s] = action]
     /\ status' = [status EXCEPT ![s] = During(action, @)]
     /\ origin' = [origin EXCEPT ![i] = status[s]]
     /\ fate' = [fate EXCEPT ![i] = "pending"]
     /\ accepted' = IF k = Len(cmd.steps) THEN accepted \cup {i} ELSE accepted
     /\ UNCHANGED <<showsTask, meddled>>

\* Mutant: one step too many.
MutantStepTooMany ==
  IF k <= Len(cmd.steps)
  THEN k' = k + 1 /\ UNCHANGED <<i, pc, expired, report>>
  ELSE NextArgument

\* What follows an accepted action: the next one, at once; the wait, with a
\* deadline of its own; the next argument.
AfterAction ==
  IF k < Len(cmd.steps)
  THEN k' = k + 1 /\ UNCHANGED <<i, pc, expired, report>>
  ELSE IF cmd.wait
       THEN /\ pc' = "poll" /\ expired' = FALSE
            /\ UNCHANGED <<i, k, report>>
       ELSE NextArgument

Act ==
  /\ pc = "act"
  /\ \/ NoFault /\ Start(cmd.steps[k]) /\ AfterAction
     \/ Fault /\ Start(cmd.steps[k]) /\ Return("error")
     \/ /\ Fault \/ (NoFault /\ ~(task[args[i]] = "none" /\ status[args[i]] \in Accepts(cmd.steps[k])))
        /\ Return("error")
        /\ UNCHANGED <<cloudVars, origin, fate, accepted>>
  /\ UNCHANGED <<cmd, args>>

\* The status a poll may see: some tasks have a status of their own.
Shown(s) == IF task[s] = "none" THEN {status[s]} ELSE {status[s], "BUSY"}

\* The key is missing from the reply, or its value is empty.
serverRawTaskStateCleared(s) == ~showsTask \/ task[s] = "none"

\* Mutants: the task is not looked at; the deadline is looked at first.
MutantStatusOnly(s, shown) == shown \in cmd.targets

MutantDeadlineFirst(s, shown) ==
  ~expired /\ shown \in cmd.targets /\ (cmd.task => serverRawTaskStateCleared(s))

Reached(s, shown) ==
  shown \in cmd.targets /\ (cmd.task => serverRawTaskStateCleared(s))

\* Mutant: whatever is not a target is a failure.
MutantAnythingElse(shown) == shown \notin cmd.targets

Failing(shown) == shown \in cmd.failures

\* Mutant: the deadline is computed anew at every poll.
MutantMovingDeadline == FALSE

\* time.Now().After(deadline), where the deadline is set once for every wait.
DeadlinePassed == expired

\* waitForServerStatus, waitForImageStatus: one poll.  The target comes before
\* the failures, and both before the deadline.
Poll ==
  /\ pc = "poll"
  /\ \/ NoFault /\ ~Exists(args[i]) /\ Return("error")
     \/ Fault /\ Return("error")
     \/ /\ NoFault /\ Exists(args[i])
        /\ \E shown \in Shown(args[i]) :
             \/ /\ Reached(args[i], shown)
                /\ IF cmd.reread THEN GoTo("reread") ELSE NextArgument
             \/ /\ ~Reached(args[i], shown) /\ Failing(shown)
                /\ Return("failed")
             \/ /\ ~Reached(args[i], shown) /\ ~Failing(shown) /\ DeadlinePassed
                /\ Return("timeout")
             \/ /\ ~Reached(args[i], shown) /\ ~Failing(shown) /\ ~DeadlinePassed
                /\ UNCHANGED <<pc, i, k, expired, report>>
  /\ UNCHANGED <<cloudVars, cmd, args, origin, fate, accepted>>

\* create and rebuild read the server they have waited for.
Reread ==
  /\ pc = "reread"
  /\ \/ NoFault /\ IF Exists(args[i]) THEN NextArgument ELSE Return("error")
     \/ Fault /\ Return("error")
  /\ UNCHANGED <<cloudVars, cmd, args, origin, fate, accepted>>

\* What is shown in the end is read again, or not; that may fail unnoticed.
End ==
  /\ pc = "end"
  /\ Return("ok")
  /\ UNCHANGED <<cloudVars, cmd, args, origin, fate, accepted, faulted>>

\* Half an hour of waiting passes.
Expire ==
  /\ pc = "poll" /\ ~expired
  /\ expired' = TRUE
  /\ UNCHANGED <<cloudVars, cmd, args, pc, i, k, report, origin, fate, accepted, faulted>>

-----------------------------------------------------------------------------
InitialStatuses(action) ==
  IF action \in {"create", "image"} THEN {"absent"}
  ELSE Statuses \ {"BUILD", "queued", "active", "killed", "deleted"}

Init ==
  /\ cmd \in Handlers
  /\ args \in UNION {[1..n -> Servers] : n \in 1..(IF cmd.many THEN MaxArguments ELSE 1)}
  /\ status \in [Servers -> InitialStatuses(cmd.steps[1])]
  /\ task = [s \in Servers |-> "none"]
  /\ showsTask \in BOOLEAN
  /\ pc = "lookup"
  /\ i = 1
  /\ k = 1
  /\ expired = FALSE
  /\ report = "running"
  /\ origin = [j \in 1..Len(args) |-> "absent"]
  /\ fate = [j \in 1..Len(args) |-> "none"]
  /\ accepted = {}
  /\ faulted = {}
  /\ meddled = {}

Client == Lookup \/ Act \/ Poll \/ Reread \/ End

World == \E s \in Servers : Finish(s) \/ Meddle(s)

Next == Client \/ Expire \/ World

Spec == Init /\ [][Next]_vars

\* The process runs and time passes; the cloud may never finish anything.
FairSpec == Spec /\ WF_vars(Client /\ NoFault) /\ WF_vars(Expire)

-----------------------------------------------------------------------------
(* Properties.                                                             *)

\* A handler that waits goes on to the next argument, and in the end reports
\* success, only when the operation it started has succeeded.  It cannot tell a
\* failure that leaves the server in a status it waits for; and it cannot tell
\* anything when the cloud hides the task or other users interfere.
WaitedOperationsSucceeded ==
  (cmd.wait /\ (showsTask \/ ~cmd.task) /\ meddled = {}) =>
    \A j \in 1..(i - 1) :
      \/ fate[j] = "succeeded"
      \/ fate[j] = "failed" /\ origin[j] \in cmd.targets

\* "Entered ERROR status" is said only of an operation that failed, unless the
\* server was in that status before.
FailureIsReal ==
  (report = "failed" /\ meddled = {} /\ origin[i] \notin cmd.failures) => fate[i] = "failed"

\* A wait that times out has not reached what it waited for: what the cloud
\* finishes between the last poll before the deadline and the first one after
\* it still counts.
DeadlineIsLast ==
  (report = "timeout" /\ showsTask) => ~(task[args[i]] = "none" /\ status[args[i]] \in cmd.targets)

\* A handler that waits for every status in which its operation may end well.
Last(h) == h.steps[Len(h.steps)]
Expects(h) ==
  /\ \A before \in Statuses : Outcomes(Last(h), before) \subseteq h.targets
  /\ Last(h) = "shelve" => Outcomes("autoOffload", "SHELVED") \subseteq h.targets

\* A wait never gives up on an operation that has succeeded.
TimeoutMeansUnfinished ==
  (report = "timeout" /\ meddled = {}) => fate[i] # "succeeded"

\* The command keeps the promise of BulkContract, an argument being executed
\* when the cloud has accepted its actions.
Contract == INSTANCE BulkContract
  WITH total <- Len(args), next <- IF i \in accepted THEN i + 1 ELSE i, executed <- accepted,
       verdict <- [kind |-> IF report \in {"running", "ok"} THEN report ELSE "error", failures |-> 0]

KeepsContract == Contract!Spec

\* A command ends, however long the cloud takes.
Terminates == <>(pc = "done")
=============================================================================
