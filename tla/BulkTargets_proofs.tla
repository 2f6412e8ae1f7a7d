-------------------------- MODULE BulkTargets_proofs --------------------------
(***************************************************************************)
(* What a bulk command does to single resources: that it addresses what    *)
(* its arguments denote, whatever others do, for any number of arguments,  *)
(* resources, failures and interferences.                                  *)
(***************************************************************************)
EXTENDS BulkCommand_proofs

\* What a step may do to the cloud and to the histories.
CloudMoves ==
  /\ UNCHANGED <<cmd, args>>
  /\ meddled \subseteq meddled' /\ faulted \subseteq faulted' /\ settled \subseteq settled'
  /\ meddled' \subseteq Ids
  /\ \A id \in Ids : \/ name'[id] = name[id]
                     \/ id \in meddled'
  /\ \A id \in Ids : \/ status'[id] = status[id]
                     \/ status[id] = "deleting" /\ status'[id] = "gone"
                     \/ status[id] # "gone" /\ id \in meddled' /\ status'[id] # "absent"
                     \/ /\ status[id] \in {"live", "deleting"} /\ <<i, id>> \in settled'
                        /\ status'[id] \in {"deleting", "gone"} /\ InLoop

LEMMA CloudSteps ==
  ASSUME TypeOK, [Next]_vars
  PROVE  CloudMoves
<1>1. CASE Setup \/ Get \/ List \/ Confirm \/ AfterLoop
  BY <1>1 DEF Setup, Get, List, Confirm, AfterLoop, OnlyReads, cloudVars, CloudMoves,
              Fault, NoFault, TypeOK
<1>2. CASE Call
  <2>1. CASE Execute
    <3>1. UNCHANGED <<cmd, args, name, meddled>> /\ faulted \subseteq faulted'
      BY <1>2, <2>1 DEF Call, Execute, Fault, NoFault
    <3>2. settled' = settled \cup {<<i, target>>} /\ InLoop
      BY <1>2, <2>1 DEF Call, Execute, InLoop
    <3>3. \A id \in Ids : \/ status'[id] = status[id]
                          \/ /\ status[id] \in {"live", "deleting"} /\ id = target
                             /\ status'[id] \in {"deleting", "gone"}
      BY <2>1 DEF Execute, Exists, TypeOK
    <3>. QED
      BY <3>1, <3>2, <3>3 DEF CloudMoves, TypeOK
  <2>2. CASE UNCHANGED cloudVars /\ settled \subseteq settled'
    BY <1>2, <2>2 DEF Call, cloudVars, CloudMoves, Fault, NoFault, TypeOK
  <2>. QED
    BY <1>2, <2>1, <2>2 DEF Call
<1>3. CASE Wait \/ Expire \/ UNCHANGED vars
  BY <1>3 DEF Wait, Expire, vars, clientVars, cloudVars, CloudMoves, Fault, NoFault, TypeOK
<1>4. ASSUME NEW id \in Ids, Meddle(id)
      PROVE  CloudMoves
  <2>1. UNCHANGED <<cmd, args, faulted, settled>> /\ meddled' = meddled \cup {id}
    BY <1>4 DEF Meddle, clientVars
  <2>2. \A v \in Ids : name'[v] = name[v] \/ v = id
    BY <1>4 DEF Meddle, TypeOK
  <2>3. \A v \in Ids : \/ status'[v] = status[v]
                       \/ v = id /\ status[v] # "gone" /\ status'[v] # "absent"
    BY <1>4 DEF Meddle, Exists, TypeOK
  <2>. QED
    BY <2>1, <2>2, <2>3 DEF CloudMoves, TypeOK
<1>5. ASSUME NEW id \in Ids, Reap(id)
      PROVE  CloudMoves
  BY <1>5 DEF Reap, clientVars, CloudMoves, TypeOK
<1>. QED
  BY <1>1, <1>2, <1>3, <1>4, <1>5 DEF Next, Client, World

\* Turning to the next argument: without a lookup, it is the target.
Turned ==
  /\ i' = i + 1
  /\ pc' \in {"setup", "get", "list", "call", "after"}
  /\ pc' = "call" => cmd.lookup = "none"
  /\ pc' = "list" => cmd.lookup \in ListFirst \/ (cmd.lookup = "id-list" /\ args[i'] \notin Ids)
  /\ pc' = "get" => cmd.lookup \notin ListFirst \cup {"none"}
  /\ pc' # "after" => i' \in 1..Len(args)
  /\ pc' # "after" /\ cmd.lookup = "none" => target' = args[i']

LEMMA TurnTurns ==
  ASSUME IInv, Turn(i + 1)
  PROVE  Turned
<1>1. i + 1 \in Nat \ {0} /\ Len(args) \in Nat /\ i \in Nat
  BY ArgType DEF IInv, TypeOK
<1>2. i' = i + 1
  BY DEF Turn
<1>3. CASE i + 1 > Len(args)
  BY <1>1, <1>3 DEF Turn, Turned
<1>4. CASE ~(i + 1 > Len(args))
  <2>1. pc' = FirstRequest({"each"}, args[i + 1]) /\ target' = FirstTarget(args[i + 1])
    BY <1>4 DEF Turn
  <2>2. i' \in 1..Len(args)
    BY <1>1, <1>2, <1>4
  <2>3. pc' \in {"setup", "get", "list", "call"}
    BY <2>1, RequestType
  <2>4. pc' = "call" => cmd.lookup = "none"
    BY <2>1 DEF FirstRequest, LookupRequest
  <2>5. pc' = "list" => cmd.lookup \in ListFirst \/ (cmd.lookup = "id-list" /\ args[i'] \notin Ids)
    BY <1>2, <2>1 DEF FirstRequest, LookupRequest
  <2>7. pc' = "get" => cmd.lookup \notin ListFirst \cup {"none"}
    BY <2>1 DEF FirstRequest, LookupRequest
  <2>6. cmd.lookup = "none" => target' = args[i']
    BY <1>2, <2>1 DEF FirstTarget
  <2>. QED
    BY <1>2, <2>2, <2>3, <2>4, <2>5, <2>6, <2>7 DEF Turned
<1>. QED
  BY <1>3, <1>4

LEMMA FailTurns ==
  ASSUME IInv, NEW kind, Fail(kind)
  PROVE  \/ Turned /\ failures' = failures + 1 /\ report' = report
         \/ pc' = "done" /\ report' = Error /\ i' = i /\ target' = target
<1>1. CASE kind \in cmd.fatal
  BY <1>1 DEF Fail
<1>2. CASE kind \notin cmd.fatal
  BY <1>2, TurnTurns DEF Fail
<1>. QED
  BY <1>1, <1>2

-----------------------------------------------------------------------------
(* Which requests a lookup makes.                                          *)

Route ==
  /\ pc = "get" => cmd.lookup \notin ListFirst \cup {"none"}
  /\ pc = "list" => cmd.lookup # "none"
  /\ pc = "confirm" => cmd.lookup \in ListFirst
  /\ InLoop /\ cmd.lookup = "none" => target = args[i]

\* The handler's step: on to the next argument, over, or one of these.
LEMMA ClientRoute ==
  ASSUME IInv, Route, Client
  PROVE  \/ Turned
         \/ pc' \in {"done", "wait"}
         \/ pc = "setup" /\ GoTo(LookupRequest(args[i]))
         \/ pc = "get" /\ (GoTo("list") \/ Resolve(args[i], "call"))
         \/ /\ pc = "list"
            /\ \/ \E id \in Picks(MatchedByListing(args[i])) :
                    Resolve(id, IF cmd.lookup = "list-confirm" THEN "confirm" ELSE "call")
               \/ cmd.lookup \in ListFirst /\ Resolve(args[i], "confirm")
         \/ pc = "confirm" /\ GoTo("call")
<1>0. ASSUME NEW kind, Fail(kind)
      PROVE  pc' = "done" \/ Turned
  BY <1>0, FailTurns
<1>1. CASE Setup
  BY <1>0, <1>1 DEF Setup, Return
<1>2. CASE Get
  BY <1>0, <1>2 DEF Get
<1>3. CASE List
  BY <1>0, <1>3 DEF List, ListFirst
<1>4. CASE Confirm
  BY <1>0, <1>4 DEF Confirm
<1>5. CASE Call
  BY <1>0, <1>5, TurnTurns DEF Call, Succeed
<1>6. CASE AfterLoop
  BY <1>6 DEF AfterLoop, Return, GoTo
<1>7. CASE Wait
  BY <1>7 DEF Wait, Return, GoTo
<1>. QED
  BY <1>1, <1>2, <1>3, <1>4, <1>5, <1>6, <1>7 DEF Client

LEMMA ElsewhereStays ==
  ASSUME [Next]_vars, ~Client
  PROVE  UNCHANGED <<cmd, args, pc, i, target, failures, deleted, report, settled, faulted>>
BY DEF Next, Expire, World, Meddle, Reap, vars, clientVars

LEMMA RouteInit == Init => Route
<1>. SUFFICES ASSUME Init
              PROVE  Route
  OBVIOUS
<1>1. pc = FirstRequest({"each", "once"}, args[1]) /\ i = 1 /\ target = FirstTarget(args[1])
  BY DEF Init
<1>. QED
  BY <1>1 DEF FirstRequest, LookupRequest, FirstTarget, Route

LEMMA RouteStep == IInv /\ Route /\ [Next]_vars => Route'
<1>. SUFFICES ASSUME IInv, Route, [Next]_vars
              PROVE  Route'
  OBVIOUS
<1>1. UNCHANGED <<cmd, args>>
  BY CloudSteps DEF CloudMoves, IInv
<1>2. CASE ~Client
  BY <1>2, ElsewhereStays DEF Route, InLoop
<1>3. CASE Turned
  BY <1>1, <1>3 DEF Turned, Route, InLoop, ListFirst
<1>4. CASE pc' \in {"done", "wait"}
  BY <1>4 DEF Route, InLoop
<1>5. CASE pc = "setup" /\ GoTo(LookupRequest(args[i]))
  BY <1>1, <1>5 DEF GoTo, LookupRequest, Route, InLoop, ListFirst
<1>6. CASE pc = "get" /\ (GoTo("list") \/ Resolve(args[i], "call"))
  BY <1>1, <1>6 DEF GoTo, Resolve, Route, InLoop, ListFirst
<1>7. ASSUME NEW v, NEW next \in {"call", "confirm"}, pc = "list", Resolve(v, next),
             next = "confirm" => cmd.lookup \in ListFirst
      PROVE  Route'
  BY <1>1, <1>7 DEF Resolve, Route, InLoop
<1>8. CASE pc = "confirm" /\ GoTo("call")
  BY <1>1, <1>8 DEF GoTo, Route, InLoop
<1>9. "list-confirm" \in ListFirst
  BY DEF ListFirst
<1>. QED
  BY <1>2, <1>3, <1>4, <1>5, <1>6, <1>7, <1>8, <1>9, ClientRoute

LEMMA RouteHolds == Spec => [](IInv /\ Route)
BY InitInvariant, NextInvariant, RouteInit, RouteStep, PTL DEF Spec

-----------------------------------------------------------------------------
(* The target of a call is what the argument denotes.                      *)

Denotes(v, a) == v = a \/ v \in meddled \/ (v \in Ids /\ name[v] = a)
Targeted ==
  /\ \A s \in settled : Denotes(s[2], args[s[1]])
  /\ pc \in {"call", "confirm"} => Denotes(target, args[i])

LEMMA DenotesStays ==
  ASSUME TypeOK, [Next]_vars, NEW v, NEW a, Denotes(v, a)
  PROVE  Denotes(v, a)'
BY CloudSteps DEF CloudMoves, Denotes

\* Only a call settles anything, and it settles the target.
LEMMA OnlyTheTarget ==
  ASSUME [Next]_vars
  PROVE  \/ settled' = settled
         \/ Call /\ pc = "call" /\ settled' = settled \cup {<<i, target>>}
<1>1. CASE Setup \/ Get \/ List \/ Confirm \/ AfterLoop \/ Wait
  BY <1>1 DEF Setup, Get, List, Confirm, AfterLoop, Wait, OnlyReads
<1>2. CASE Call
  BY <1>2 DEF Call, Execute
<1>3. CASE ~Client
  BY <1>3, ElsewhereStays
<1>. QED
  BY <1>1, <1>2, <1>3 DEF Client

LEMMA TargetedStep == IInv /\ Route /\ Targeted /\ [Next]_vars => Targeted'
<1>. SUFFICES ASSUME IInv, Route, Targeted, [Next]_vars
              PROVE  Targeted'
  OBVIOUS
<1>1. UNCHANGED <<cmd, args>> /\ TypeOK
  BY CloudSteps DEF CloudMoves, IInv
<1>2. ASSUME NEW s \in settled'
      PROVE  Denotes(s[2], args[s[1]])'
  <2>1. CASE s \in settled
    BY <1>1, <2>1, DenotesStays DEF Targeted, Denotes
  <2>2. CASE s = <<i, target>> /\ pc = "call"
    BY <1>1, <2>2, DenotesStays DEF Targeted, Denotes
  <2>. QED
    BY <2>1, <2>2, OnlyTheTarget
<1>3. ASSUME pc' \in {"call", "confirm"}
      PROVE  Denotes(target, args[i])'
  <2>1. CASE ~Client
    BY <1>1, <1>3, <2>1, ElsewhereStays, DenotesStays DEF Targeted, Denotes
  <2>2. CASE Turned
    BY <1>1, <1>3, <2>2 DEF Turned, Denotes
  <2>3. CASE pc = "setup" /\ GoTo(LookupRequest(args[i]))
    BY <1>1, <1>3, <2>3 DEF GoTo, LookupRequest, Route, InLoop, Denotes
  <2>4. CASE Resolve(args[i], "call") \/ Resolve(args[i], "confirm")
    BY <1>1, <2>4 DEF Resolve, Denotes
  <2>5. ASSUME NEW id \in Picks(MatchedByListing(args[i])), NEW next, Resolve(id, next)
        PROVE  Denotes(target, args[i])'
    <3>1. id \in Ids /\ (name[id] = args[i] \/ id = args[i])
      BY DEF Picks, MatchedByListing
    <3>2. id = args[i] \/ id \in meddled' \/ (id \in Ids /\ name'[id] = args[i])
      BY <1>1, <3>1, CloudSteps DEF CloudMoves
    <3>. QED
      BY <1>1, <2>5, <3>2 DEF Resolve, Denotes
  <2>6. CASE pc = "confirm" /\ GoTo("call")
    BY <1>1, <2>6, DenotesStays DEF GoTo, Targeted, Denotes
  <2>7. CASE pc = "get" /\ GoTo("list")
    BY <1>3, <2>7 DEF GoTo
  <2>. QED
    BY <1>3, <2>1, <2>2, <2>3, <2>4, <2>5, <2>6, <2>7, ClientRoute
<1>. QED
  BY <1>2, <1>3 DEF Targeted

(* A command never touches a resource whose ID or name is not on its       *)
(* command line; in particular no target is left over from an earlier      *)
(* argument.                                                               *)
THEOREM NothingElse == Spec => []OnlyWhatWasNamed
<1>1. Init => Targeted
  <2>. SUFFICES ASSUME Init
                PROVE  Targeted
    OBVIOUS
  <2>1. pc \in {"setup", "call", "list", "get"} /\ (pc = "call" => cmd.lookup = "none")
    BY RequestType DEF Init, FirstRequest, LookupRequest
  <2>. QED
    BY <2>1 DEF Init, Targeted, FirstTarget, Denotes
<1>2. Targeted => OnlyWhatWasNamed
  BY DEF Targeted, Denotes, OnlyWhatWasNamed
<1>. QED
  BY <1>1, <1>2, TargetedStep, RouteHolds, PTL DEF Spec

-----------------------------------------------------------------------------
(* What was deleted and is waited for.                                     *)

Remembered(v) == v \in Ids /\ status[v] # "absent" /\ (status[v] = "gone" \/ v \in {deleted[k] : k \in 1..Len(deleted)})
Awaited ==
  /\ cmd.wait /\ report.kind \in {"running", "ok"} /\ failures = 0 =>
       \A s \in settled : Remembered(s[2])
  /\ report.kind = "ok" => deleted = <<>>

LEMMA RememberedStays ==
  ASSUME TypeOK, [Next]_vars, NEW v, Remembered(v),
         {deleted[k] : k \in 1..Len(deleted)} \subseteq {deleted'[k] : k \in 1..Len(deleted')}
  PROVE  Remembered(v)'
BY CloudSteps DEF CloudMoves, Remembered, TypeOK

LEMMA AwaitedCall ==
  ASSUME IInv, Awaited, Call, WaitsForDeletes
  PROVE  Awaited'
<1>1. UNCHANGED <<cmd, args>> /\ [Next]_vars /\ TypeOK /\ pc = "call" /\ pc # "done"
  BY DEF Call, Next, Client, IInv
<1>2. report.kind = "running" /\ failures \in Nat /\ deleted \in Seq(Values)
  BY <1>1 DEF IInv, Books, Running, TypeOK
<1>3. ASSUME NEW kind, Fail(kind)
      PROVE  Awaited'
  BY <1>2, <1>3 DEF Fail, Awaited, Error, Running
<1>4. CASE Execute /\ Succeed /\ cmd.wait
  <2>1. deleted' = Append(deleted, target) /\ UNCHANGED <<failures, report>>
    BY <1>4 DEF Succeed
  <2>2. {deleted'[k] : k \in 1..Len(deleted')} = {deleted[k] : k \in 1..Len(deleted)} \cup {target}
    <3>1. Len(deleted) \in Nat /\ Len(deleted') = Len(deleted) + 1 /\ deleted'[Len(deleted) + 1] = target
      BY <1>2, <2>1, <1>4 DEF Execute, Exists, Values
    <3>2. \A k \in 1..Len(deleted) : deleted'[k] = deleted[k]
      BY <1>2, <2>1, <1>4 DEF Execute, Exists, Values
    <3>. QED
      BY <3>1, <3>2
  <2>3. ASSUME NEW v, v = target
        PROVE  Remembered(v)'
    <3>1. cmd.effect = "delete"
      BY <1>1, <1>4 DEF WaitsForDeletes, TypeOK
    <3>2. target \in Ids /\ status'[target] \in {"deleting", "gone"}
      BY <1>1, <1>4, <3>1 DEF Execute, Exists, TypeOK
    <3>. QED
      BY <2>2, <2>3, <3>2 DEF Remembered
  <2>4. ASSUME failures = 0, NEW s \in settled'
        PROVE  Remembered(s[2])'
    <3>1. CASE s \in settled
      BY <1>1, <1>2, <1>4, <2>2, <2>4, <3>1, RememberedStays DEF Awaited
    <3>2. CASE s = <<i, target>>
      BY <2>3, <3>2
    <3>. QED
      BY <1>4, <3>1, <3>2 DEF Execute
  <2>. QED
    BY <1>1, <1>2, <2>1, <2>4 DEF Awaited
<1>5. CASE ~cmd.wait /\ Succeed
  BY <1>1, <1>2, <1>5 DEF Succeed, Awaited
<1>6. cmd.wait => ~cmd.ignoreMissing
  BY <1>1 DEF WaitsForDeletes, TypeOK
<1>. QED
  BY <1>3, <1>4, <1>5, <1>6 DEF Call

LEMMA AwaitedWait ==
  ASSUME IInv, Awaited, Wait
  PROVE  Awaited'
<1>1. UNCHANGED <<cmd, args, settled, status, failures>> /\ TypeOK /\ pc = "wait"
  BY DEF Wait, cloudVars, IInv, GoTo, Return
<1>2. report.kind = "running" /\ deleted \in Seq(Values) /\ deleted # <<>>
  BY <1>1 DEF IInv, Books, Running, TypeOK, Awaiting
<1>3. CASE Return(Error)
  BY <1>3 DEF Return, Awaited, Error, Running
<1>4. CASE /\ ~Exists(Head(deleted)) /\ deleted' = Tail(deleted)
           /\ IF Tail(deleted) = <<>> THEN Return(Ok) ELSE GoTo("wait")
  <2>1. ASSUME cmd.wait, failures = 0, NEW s \in settled
        PROVE  Remembered(s[2])'
    <3>1. Remembered(s[2])
      BY <1>2, <2>1 DEF Awaited
    <3>2. CASE status[s[2]] = "gone"
      BY <1>1, <3>1, <3>2 DEF Remembered
    <3>3. ASSUME NEW k \in 1..Len(deleted), s[2] = deleted[k]
          PROVE  Remembered(s[2])'
      <4>1. CASE k = 1
        BY <1>1, <1>2, <1>4, <3>1, <3>3, <4>1 DEF Remembered, Exists, TypeOK
      <4>2. CASE k # 1
        <5>1. k - 1 \in 1..Len(deleted') /\ deleted'[k - 1] = deleted[k]
          BY <1>2, <1>4, <4>2
        <5>. QED
          BY <1>1, <3>1, <3>3, <5>1 DEF Remembered
      <4>. QED
        BY <4>1, <4>2
    <3>. QED
      BY <3>1, <3>2, <3>3 DEF Remembered
  <2>2. report'.kind = "ok" => deleted' = <<>>
    BY <1>2, <1>4 DEF Return, GoTo
  <2>. QED
    BY <1>1, <2>1, <2>2 DEF Awaited
<1>. QED
  BY <1>3, <1>4 DEF Wait

LEMMA AwaitedElsewhere ==
  ASSUME IInv, Awaited, [Next]_vars, ~Call, ~Wait
  PROVE  Awaited'
<1>1. TypeOK /\ UNCHANGED <<cmd, args>>
  BY CloudSteps DEF CloudMoves, IInv
<1>2. UNCHANGED <<deleted, settled>>
  <2>1. CASE Client
    BY <2>1 DEF Client, Setup, Get, List, Confirm, AfterLoop, OnlyReads
  <2>. QED
    BY <2>1, ElsewhereStays
<1>3. \/ UNCHANGED <<report, failures>>
      \/ report'.kind \in {"error", "count"}
      \/ failures' > 0 /\ report' = report
      \/ UNCHANGED failures /\ report.kind = "running" /\ report'.kind = "ok" /\ deleted = <<>>
  <2>1. ASSUME NEW kind, Fail(kind)
        PROVE  report'.kind = "error" \/ (failures' > 0 /\ report' = report)
    BY <1>1, <2>1 DEF Fail, Error, Running, TypeOK
  <2>2. CASE Setup \/ Get \/ List \/ Confirm
    BY <2>1, <2>2 DEF Setup, Get, List, Confirm, GoTo, Resolve, Return, Error, Running
  <2>3. CASE AfterLoop
    <3>1. report.kind = "running"
      BY <2>3 DEF AfterLoop, IInv, Books
    <3>. QED
      BY <2>3, <3>1 DEF AfterLoop, Return, GoTo, Count, Ok, Running
  <2>4. CASE ~Client
    BY <2>4, ElsewhereStays
  <2>. QED
    BY <2>2, <2>3, <2>4 DEF Client
<1>4. ASSUME NEW v, Remembered(v)
      PROVE  Remembered(v)'
  BY <1>1, <1>2, <1>4, RememberedStays
<1>. QED
  BY <1>1, <1>2, <1>3, <1>4 DEF Awaited, IInv, TypeOK

(* A "delete --wait" that succeeds leaves nothing behind of what it has    *)
(* deleted.                                                                *)
THEOREM WaitedAreGone ==
  ASSUME WaitsForDeletes
  PROVE  Spec => []WaitedDeletesAreGone
<1>1. Init => Awaited
  BY DEF Init, Awaited, Running
<1>2. IInv /\ Awaited /\ [Next]_vars => Awaited'
  BY AwaitedCall, AwaitedWait, AwaitedElsewhere
<1>3. IInv /\ Awaited => WaitedDeletesAreGone
  <2>. SUFFICES ASSUME IInv, Awaited, cmd.wait, report.kind = "ok", NEW s \in settled
                PROVE  status[s[2]] = "gone"
    BY DEF WaitedDeletesAreGone
  <2>1. failures = 0 /\ deleted = <<>>
    BY DEF IInv, Books, Awaited
  <2>. QED
    BY <2>1 DEF Awaited, Remembered
<1>. QED
  BY <1>1, <1>2, <1>3, Invariant, PTL DEF Spec

-----------------------------------------------------------------------------
(* An argument that is the ID of a resource.                               *)

\* The argument k is no ID of a resource that is there and nobody else touches.
NoSuchId(k) == args[k] \notin Ids \ meddled \/ status[args[k]] \in {"absent", "gone"}
Excused(k) ==
  \/ cmd.lookup \in {"get-list", "id-list"} /\ k \in faulted
  \/ cmd.lookup \in ListFirst
  \/ cmd.scope = "domain" /\ args[k] \in Foreign
IdFirst(v, k) == v = args[k] \/ NoSuchId(k) \/ Excused(k)
\* Whether the lookup by ID has failed for a reason.
Missed(k) == NoSuchId(k) \/ Excused(k) \/ (cmd.lookup = "get-listany" /\ k \in faulted)
IdsFirst ==
  /\ \A s \in settled : IdFirst(s[2], s[1])
  /\ pc = "list" => Missed(i)
  /\ pc \in {"call", "confirm"} => IdFirst(target, i)

LEMMA IdFirstStays ==
  ASSUME TypeOK, [Next]_vars, NEW k
  PROVE  /\ NoSuchId(k) => NoSuchId(k)'
         /\ Excused(k) => Excused(k)'
         /\ Missed(k) => Missed(k)'
         /\ \A v : IdFirst(v, k) => IdFirst(v, k)'
<1>1. CloudMoves
  BY CloudSteps
<1>2. NoSuchId(k) => NoSuchId(k)'
  BY <1>1 DEF CloudMoves, NoSuchId, TypeOK
<1>3. Excused(k) => Excused(k)'
  BY <1>1 DEF CloudMoves, Excused
<1>4. Missed(k) => Missed(k)'
  BY <1>1, <1>2, <1>3 DEF CloudMoves, Missed
<1>5. \A v : IdFirst(v, k) => IdFirst(v, k)'
  BY <1>1, <1>2, <1>3 DEF CloudMoves, IdFirst
<1>. QED
  BY <1>2, <1>3, <1>4, <1>5

\* A listing that shows IDs too does not take another resource for that ID.
LEMMA PickIsIdFirst ==
  ASSUME TypeOK, Missed(i), ListsShowIds, NEW id \in Picks(MatchedByListing(args[i]))
  PROVE  IdFirst(id, i)
<1>1. CASE NoSuchId(i) \/ Excused(i)
  BY <1>1 DEF IdFirst
<1>2. CASE cmd.lookup = "get-listany" /\ ~NoSuchId(i) /\ ~Excused(i)
  <2>1. args[i] \in Ids /\ status[args[i]] \in {"live", "deleting"}
    BY <1>2 DEF NoSuchId, TypeOK
  <2>2. InScope(args[i])
    <3>1. cmd \in Handlers /\ cmd.scope \in {"mine", "all", "domain"}
      BY HandlersAssumption DEF TypeOK, HandlerRecords
    <3>2. cmd.scope # "mine"
      BY <1>2, <3>1 DEF ListsShowIds
    <3>. QED
      BY <1>2, <3>1, <3>2 DEF InScope, Excused
  <2>3. args[i] \in MatchedByListing(args[i])
    BY <1>2, <2>1, <2>2 DEF MatchedByListing, Exists
  <2>4. MatchedByListing(args[i]) = {id}
    <3>1. Cardinality(MatchedByListing(args[i])) = 1 /\ id \in MatchedByListing(args[i])
      BY <1>2 DEF Picks, ListFirst
    <3>2. IsFiniteSet(MatchedByListing(args[i]))
      BY IdsAssumption, FS_Subset DEF MatchedByListing
    <3>. QED
      BY <3>1, <3>2, FS_Singleton
  <2>. QED
    BY <2>3, <2>4 DEF IdFirst
<1>. QED
  BY <1>1, <1>2 DEF Missed

LEMMA GetMisses ==
  ASSUME IInv, Route, Get, GoTo("list")
  PROVE  Missed(i)'
<1>1. UNCHANGED <<status, meddled, cmd, args, i>> /\ TypeOK
  BY DEF Get, OnlyReads, cloudVars, GoTo, IInv
<1>2. cmd.lookup \in {"get-list", "get-listany", "get404-list", "id-list"} /\ cmd.scope \in {"mine", "all", "domain"}
  BY <1>1, HandlersAssumption DEF Get, Route, TypeOK, HandlerRecords, Lookups, ListFirst
<1>3. CASE ~Gettable(args[i])
  <2>1. CASE ~Exists(args[i])
    BY <1>1, <2>1 DEF Exists, TypeOK, Missed, NoSuchId
  <2>2. CASE cmd.scope = "domain" /\ ~InScope(args[i])
    BY <1>1, <2>2 DEF InScope, Missed, Excused
  <2>. QED
    BY <1>3, <2>1, <2>2 DEF Gettable
<1>4. CASE Fault /\ cmd.lookup # "get404-list"
  BY <1>1, <1>2, <1>4 DEF Fault, Missed, Excused
<1>5. Gettable(args[i]) => Fault /\ (cmd.lookup = "get404-list" => Fail("lookup"))
  BY DEF Get, GoTo, Resolve
<1>6. ~Fail("lookup")
  BY <1>1, FailTurns DEF Turned, GoTo, TypeOK
<1>. QED
  BY <1>3, <1>4, <1>5, <1>6

LEMMA GetIsNext ==
  ASSUME Client, pc = "get"
  PROVE  Get
BY DEF Client, Setup, List, Confirm, Call, AfterLoop, Wait

LEMMA IdsFirstStep ==
  ASSUME IInv, Route, IdsFirst, [Next]_vars, ListsShowIds
  PROVE  IdsFirst'
<1>1. UNCHANGED <<cmd, args>> /\ TypeOK
  BY CloudSteps DEF CloudMoves, IInv
<1>2. ASSUME NEW s \in settled'
      PROVE  IdFirst(s[2], s[1])'
  <2>1. CASE s \in settled
    BY <1>1, <2>1, IdFirstStays DEF IdsFirst
  <2>2. CASE s = <<i, target>> /\ pc = "call"
    <3>1. IdFirst(s[2], s[1])
      BY <2>2 DEF IdsFirst
    <3>. QED
      BY <1>1, <3>1, IdFirstStays
  <2>. QED
    BY <2>1, <2>2, OnlyTheTarget
<1>3. CASE UNCHANGED <<i, target>> /\ pc' \in {pc, "done", "wait", "setup", "get"}
  <2>1. Missed(i) => Missed(i)'
    BY <1>1, <1>3, IdFirstStays DEF Missed, NoSuchId, Excused
  <2>2. IdFirst(target, i) => IdFirst(target, i)'
    BY <1>1, <1>3, IdFirstStays DEF IdFirst, NoSuchId, Excused
  <2>. QED
    BY <1>2, <1>3, <2>1, <2>2 DEF IdsFirst
<1>4. CASE Turned
  BY <1>1, <1>2, <1>4 DEF Turned, IdsFirst, IdFirst, Missed, NoSuchId, Excused
<1>5. CASE pc' \in {"done", "wait"}
  BY <1>2, <1>5 DEF IdsFirst
<1>6. CASE pc = "setup" /\ GoTo(LookupRequest(args[i]))
  <2>1. UNCHANGED <<i, target>> /\ pc' = LookupRequest(args[i])
    BY <1>6 DEF GoTo
  <2>2. pc' \in {"call", "list", "get"} /\ (pc' = "call" => cmd.lookup = "none")
    BY <2>1 DEF LookupRequest
  <2>3. pc' = "list" => Missed(i)'
    BY <1>1, <2>1 DEF LookupRequest, Missed, NoSuchId, Excused
  <2>4. pc' = "call" => IdFirst(target, i)'
    BY <1>1, <1>6, <2>1, <2>2 DEF IdFirst, Route, InLoop
  <2>. QED
    BY <1>2, <2>2, <2>3, <2>4 DEF IdsFirst
<1>7. CASE pc = "get" /\ GoTo("list")
  <2>1. Get
    BY <1>7, GetIsNext, ElsewhereStays DEF GoTo
  <2>. QED
    BY <1>2, <1>7, <2>1, GetMisses DEF IdsFirst, GoTo
<1>8. CASE Resolve(args[i], "call") \/ Resolve(args[i], "confirm")
  BY <1>1, <1>2, <1>8 DEF Resolve, IdsFirst, IdFirst
<1>9. ASSUME pc = "list", NEW id \in Picks(MatchedByListing(args[i])),
             NEW next \in {"call", "confirm"}, Resolve(id, next)
      PROVE  IdsFirst'
  <2>1. IdFirst(id, i)
    BY <1>1, <1>9, PickIsIdFirst DEF IdsFirst
  <2>2. target' = id /\ i' = i /\ pc' = next
    BY <1>9 DEF Resolve
  <2>3. IdFirst(target, i)'
    BY <1>1, <2>1, <2>2, IdFirstStays DEF IdFirst, NoSuchId, Excused
  <2>. QED
    BY <1>2, <1>9, <2>2, <2>3 DEF IdsFirst
<1>10. CASE pc = "confirm" /\ GoTo("call")
  <2>1. UNCHANGED <<i, target>> /\ pc' = "call" /\ IdFirst(target, i)
    BY <1>10 DEF GoTo, IdsFirst
  <2>2. IdFirst(target, i)'
    BY <1>1, <2>1, IdFirstStays DEF IdFirst, NoSuchId, Excused
  <2>. QED
    BY <1>2, <2>1, <2>2 DEF IdsFirst
<1>11. CASE ~Client
  BY <1>3, <1>11, ElsewhereStays
<1>. QED
  BY <1>4, <1>5, <1>6, <1>7, <1>8, <1>9, <1>10, <1>11, ClientRoute

(* An argument that is the ID of an existing resource is not taken for the *)
(* name of another one, but where a request that reads it by ID failed or  *)
(* the finder lists first.                                                 *)
THEOREM IdsComeFirst ==
  ASSUME ListsShowIds
  PROVE  Spec => []IdWinsOverName
<1>1. Init => IdsFirst
  <2>. SUFFICES ASSUME Init
                PROVE  IdsFirst
    OBVIOUS
  <2>1. pc = FirstRequest({"each", "once"}, args[1]) /\ i = 1 /\ target = FirstTarget(args[1]) /\ settled = {}
    BY DEF Init
  <2>2. pc \in {"setup", "call", "list", "get"} /\ (pc = "call" => cmd.lookup = "none")
    BY <2>1, RequestType DEF FirstRequest, LookupRequest
  <2>3. pc = "list" => Missed(i)
    BY <2>1 DEF FirstRequest, LookupRequest, Missed, NoSuchId, Excused
  <2>. QED
    BY <2>1, <2>2, <2>3 DEF IdsFirst, FirstTarget, IdFirst
<1>2. IdsFirst => IdWinsOverName
  BY DEF IdsFirst, IdFirst, NoSuchId, Excused, IdWinsOverName
<1>3. IInv /\ Route /\ IdsFirst /\ [Next]_vars => IdsFirst'
  BY IdsFirstStep
<1>. QED
  BY <1>1, <1>2, <1>3, RouteHolds, PTL DEF Spec

-----------------------------------------------------------------------------
(* Names that several resources share, where nobody else interferes.       *)

Touched(id, k) == \E t \in settled : t[1] < k /\ t[2] = id
OurDoing ==
  meddled = {} =>
    \A id \in Ids : status[id] \in {"deleting", "gone"} => \E t \in settled : t[2] = id
Alone(v, k) ==
  v = args[k] \/ \A id \in Ids \ {v} :
                   (name[id] = args[k] /\ status[id] # "absent" /\ InScope(id)) => Touched(id, k)
Refusing ==
  meddled = {} /\ cmd.lookup \notin ListFirst =>
    /\ \A s \in settled : Alone(s[2], s[1])
    /\ pc = "call" => Alone(target, i)

\* The cloud when nobody else touches it.
LEMMA Undisturbed ==
  ASSUME TypeOK, [Next]_vars, meddled' = {}
  PROVE  /\ meddled = {} /\ UNCHANGED <<cmd, args>> /\ settled \subseteq settled'
         /\ \A id \in Ids : /\ name'[id] = name[id]
                            /\ status'[id] = "absent" <=> status[id] = "absent"
                            /\ status'[id] \in {"deleting", "gone"} =>
                                 \/ status[id] \in {"deleting", "gone"}
                                 \/ <<i, id>> \in settled'
BY CloudSteps DEF CloudMoves, TypeOK

LEMMA OurDoingStep ==
  ASSUME TypeOK, OurDoing, [Next]_vars
  PROVE  OurDoing'
<1>1. ASSUME meddled' = {}, NEW id \in Ids, status'[id] \in {"deleting", "gone"}
      PROVE  \E t \in settled' : t[2] = id
  <2>1. CASE status[id] \in {"deleting", "gone"}
    BY <1>1, <2>1, Undisturbed DEF OurDoing
  <2>2. CASE <<i, id>> \in settled'
    BY <2>2
  <2>. QED
    BY <1>1, <2>1, <2>2, Undisturbed
<1>. QED
  BY <1>1 DEF OurDoing

\* What is on its way out was addressed by an earlier argument.
LEMMA GoneIsTouched ==
  ASSUME IInv, OurDoing, InLoop, meddled = {},
         NEW id \in Ids, status[id] \in {"deleting", "gone"}
  PROVE  Touched(id, i)
<1>1. PICK t \in settled : t[2] = id
  BY DEF OurDoing
<1>2. t[1] \in SettledArgs
  BY DEF SettledArgs
<1>3. t[1] < i
  BY <1>2 DEF IInv, Books, TypeOK
<1>. QED
  BY <1>1, <1>3 DEF Touched

LEMMA TouchedStays ==
  ASSUME TypeOK, [Next]_vars, NEW id, NEW k, Touched(id, k)
  PROVE  Touched(id, k)'
BY CloudSteps DEF CloudMoves, Touched

LEMMA AloneStays ==
  ASSUME TypeOK, [Next]_vars, meddled' = {}, NEW v, NEW k, Alone(v, k)
  PROVE  Alone(v, k)'
<1>1. CASE v = args[k]
  BY <1>1, Undisturbed DEF Alone
<1>2. CASE \A id \in Ids \ {v} :
             (name[id] = args[k] /\ status[id] # "absent" /\ InScope(id)) => Touched(id, k)
  <2>1. ASSUME NEW id \in Ids \ {v}, name'[id] = args'[k], status'[id] # "absent", InScope(id)'
        PROVE  Touched(id, k)'
    <3>1. name[id] = args[k] /\ status[id] # "absent" /\ InScope(id)
      BY <2>1, Undisturbed DEF InScope
    <3>. QED
      BY <1>2, <3>1, TouchedStays
  <2>. QED
    BY <2>1 DEF Alone
<1>. QED
  BY <1>1, <1>2 DEF Alone

\* singleMatch takes a match only if nothing else is left of that name.
LEMMA PickIsAlone ==
  ASSUME IInv, OurDoing, InLoop, meddled = {}, cmd.lookup \notin ListFirst,
         NEW v \in Picks(MatchedByListing(args[i]))
  PROVE  Alone(v, i)
<1>1. MatchedByListing(args[i]) = {v}
  <2>1. Cardinality(MatchedByListing(args[i])) = 1 /\ v \in MatchedByListing(args[i])
    BY DEF Picks
  <2>2. IsFiniteSet(MatchedByListing(args[i]))
    BY IdsAssumption, FS_Subset DEF MatchedByListing
  <2>. QED
    BY <2>1, <2>2, FS_Singleton
<1>2. ASSUME NEW id \in Ids \ {v}, name[id] = args[i], status[id] # "absent", InScope(id)
      PROVE  Touched(id, i)
  <2>1. ~Exists(id)
    BY <1>1, <1>2 DEF MatchedByListing
  <2>2. status[id] = "gone"
    BY <1>2, <2>1 DEF Exists, IInv, TypeOK
  <2>. QED
    BY <2>2, GoneIsTouched
<1>. QED
  BY <1>2 DEF Alone

LEMMA RefusingStep ==
  ASSUME IInv, Route, OurDoing, Refusing, [Next]_vars
  PROVE  Refusing'
<1>. SUFFICES ASSUME meddled' = {}, cmd.lookup \notin ListFirst
              PROVE  /\ \A s \in settled' : Alone(s[2], s[1])'
                     /\ pc' = "call" => Alone(target, i)'
  BY CloudSteps DEF CloudMoves, Refusing, IInv
<1>1. TypeOK /\ meddled = {} /\ UNCHANGED <<cmd, args>>
  BY Undisturbed DEF IInv
<1>2. ASSUME NEW s \in settled'
      PROVE  Alone(s[2], s[1])'
  <2>1. CASE s \in settled
    BY <1>1, <2>1, AloneStays DEF Refusing
  <2>2. CASE s = <<i, target>> /\ pc = "call"
    <3>1. Alone(s[2], s[1])
      BY <1>1, <2>2 DEF Refusing
    <3>. QED
      BY <1>1, <3>1, AloneStays
  <2>. QED
    BY <2>1, <2>2, OnlyTheTarget
<1>3. ASSUME pc' = "call"
      PROVE  Alone(target, i)'
  <2>1. ASSUME target' = args[i']
        PROVE  Alone(target, i)'
    BY <1>1, <2>1 DEF Alone
  <2>2. CASE Turned
    BY <1>3, <2>1, <2>2 DEF Turned
  <2>3. CASE pc = "setup" /\ GoTo(LookupRequest(args[i]))
    BY <1>3, <2>1, <2>3 DEF GoTo, LookupRequest, Route, InLoop
  <2>4. CASE Resolve(args[i], "call")
    BY <2>1, <2>4 DEF Resolve
  <2>5. ASSUME pc = "list", NEW v \in Picks(MatchedByListing(args[i])), NEW next, Resolve(v, next)
        PROVE  Alone(target, i)'
    <3>1. \A k : k = i => Alone(v, k)
      BY <1>1, <2>5, PickIsAlone DEF InLoop
    <3>2. \A k : k = i => Alone(v, k)'
      BY <1>1, <3>1, AloneStays
    <3>3. target' = v /\ i' = i
      BY <2>5 DEF Resolve
    <3>. QED
      BY <3>2, <3>3 DEF Alone, Touched, InScope
  <2>6. CASE ~Client
    <3>1. UNCHANGED <<target, i>> /\ pc = "call"
      BY <1>3, <2>6, ElsewhereStays
    <3>2. \A v, k : v = target /\ k = i => Alone(v, k)
      BY <1>1, <3>1 DEF Refusing
    <3>3. \A v, k : v = target /\ k = i => Alone(v, k)'
      BY <1>1, <3>2, AloneStays
    <3>. QED
      BY <3>1, <3>3 DEF Alone, Touched, InScope
  <2>7. ~(pc = "confirm")
    BY DEF Route
  <2>. QED
    BY <1>3, <2>2, <2>3, <2>4, <2>5, <2>6, <2>7, ClientRoute DEF GoTo, Resolve
<1>. QED
  BY <1>2, <1>3

(* A name that several resources share is refused, unless the others were  *)
(* addressed by earlier arguments.                                         *)
THEOREM AmbiguityIsRefused == Spec => []AmbiguousNameIsRefused
<1>1. Init => OurDoing /\ Refusing
  <2>. SUFFICES ASSUME Init
                PROVE  OurDoing /\ Refusing
    OBVIOUS
  <2>1. pc = FirstRequest({"each", "once"}, args[1]) /\ i = 1 /\ target = FirstTarget(args[1]) /\ settled = {}
    BY DEF Init
  <2>2. \A id \in Ids : status[id] \in {"absent", "live"}
    BY DEF Init
  <2>3. pc = "call" => cmd.lookup = "none"
    BY <2>1 DEF FirstRequest, LookupRequest
  <2>. QED
    BY <2>1, <2>2, <2>3 DEF OurDoing, Refusing, FirstTarget, Alone
<1>2. IInv /\ Route /\ OurDoing /\ Refusing /\ [Next]_vars => OurDoing' /\ Refusing'
  BY OurDoingStep, RefusingStep DEF IInv
<1>3. Refusing => AmbiguousNameIsRefused
  BY DEF Refusing, Alone, Touched, AmbiguousNameIsRefused
<1>. QED
  BY <1>1, <1>2, <1>3, RouteHolds, PTL DEF Spec

-----------------------------------------------------------------------------
(* The fate of an argument is its own, where nobody else interferes and    *)
(* every failure is counted.                                               *)

Untouched(id, k) == id \in Ids /\ status[id] # "absent" /\ ~Touched(id, k)
Bearing(a) == {id \in Ids : status[id] # "absent" /\ InScope(id) /\ name[id] = a}
NotByName(k) ==
  (cmd.lookup # "none" /\ \A id \in Ids : id = args[k] => status[id] = "absent") =>
    \A id \in Ids : Untouched(id, k) => Bearing(args[k]) # {id}
NotById(k) == cmd.scope = "domain" \/ ~Untouched(args[k], k)
\* What the lookup of argument k has taken it for.
Took(v, k) ==
  /\ v \in Ids /\ status[v] # "absent"
  /\ v = args[k] \/ (name[v] = args[k] /\ InScope(v) /\ NotById(k))
Plain == cmd.fatal = {} /\ meddled = {} /\ cmd.lookup \notin ListFirst
Fates ==
  Plain =>
    /\ \A k \in 1..i - 1 : k \in faulted \cup SettledArgs \/ (NotById(k) /\ NotByName(k))
    /\ pc = "list" => i \in faulted \/ NotById(i)
    /\ pc = "call" => i \in faulted \/ cmd.lookup = "none" \/ Took(target, i)

LEMMA FatesStay ==
  ASSUME TypeOK, [Next]_vars, meddled' = {}, NEW k
  PROVE  /\ \A id : Untouched(id, k)' => Untouched(id, k)
         /\ Bearing(args[k])' = Bearing(args[k])
         /\ NotById(k) => NotById(k)'
         /\ NotByName(k) => NotByName(k)'
         /\ \A v : Took(v, k) => Took(v, k)'
         /\ k \in faulted \cup SettledArgs => k \in (faulted \cup SettledArgs)'
<1>1. /\ UNCHANGED <<cmd, args>>
      /\ \A id \in Ids : name'[id] = name[id] /\ (status'[id] = "absent" <=> status[id] = "absent")
  BY Undisturbed
<1>2. ASSUME NEW id, Untouched(id, k)'
      PROVE  Untouched(id, k)
  BY <1>1, <1>2, TouchedStays DEF Untouched
<1>3. Bearing(args[k])' = Bearing(args[k])
  BY <1>1 DEF Bearing, InScope
<1>4. NotById(k) => NotById(k)'
  BY <1>1, <1>2 DEF NotById
<1>5. NotByName(k) => NotByName(k)'
  BY <1>1, <1>2, <1>3 DEF NotByName
<1>6. \A v : Took(v, k) => Took(v, k)'
  BY <1>1, <1>4 DEF Took, InScope
<1>7. k \in faulted \cup SettledArgs => k \in (faulted \cup SettledArgs)'
  BY CloudSteps DEF CloudMoves, SettledArgs
<1>. QED
  BY <1>2, <1>3, <1>4, <1>5, <1>6, <1>7

\* What does not exist is not among the untouched.
LEMMA NotThere ==
  ASSUME IInv, OurDoing, InLoop, meddled = {}, NEW v, ~Exists(v)
  PROVE  ~Untouched(v, i)
<1>1. v \in Ids /\ status[v] # "absent" => status[v] = "gone"
  BY DEF Exists, IInv, TypeOK
<1>. QED
  BY <1>1, GoneIsTouched DEF Untouched

\* A listing from which nothing is picked.
LEMMA NothingToPick ==
  ASSUME IInv, OurDoing, InLoop, meddled = {}, cmd.lookup \notin ListFirst,
         Picks(MatchedByListing(args[i])) = {}
  PROVE  NotByName(i)
<1>. DEFINE M == MatchedByListing(args[i])
<1>. SUFFICES ASSUME \A id \in Ids : id = args[i] => status[id] = "absent",
                     NEW v \in Ids, Untouched(v, i), Bearing(args[i]) = {v}
              PROVE  FALSE
  BY DEF NotByName
<1>1. Exists(v) /\ v \in Bearing(args[i])
  BY NotThere
<1>2. v \in M
  BY <1>1 DEF Bearing, MatchedByListing
<1>3. \A id \in M : id \in Bearing(args[i])
  BY DEF Bearing, MatchedByListing, Exists
<1>4. M = {v}
  BY <1>2, <1>3
<1>5. Cardinality(M) = 1
  BY <1>4, FS_Singleton
<1>. QED
  BY <1>4, <1>5 DEF Picks

\* A call to something that is not there any more.
LEMMA NothingToCall ==
  ASSUME IInv, Route, OurDoing, Fates, Plain, pc = "call", ~Exists(target), i \notin faulted
  PROVE  NotById(i) /\ NotByName(i)
<1>1. InLoop /\ meddled = {}
  BY DEF InLoop, Plain
<1>2. CASE cmd.lookup = "none"
  <2>1. target = args[i]
    BY <1>1, <1>2 DEF Route
  <2>. QED
    BY <1>1, <1>2, <2>1, NotThere DEF NotById, NotByName
<1>3. CASE Took(target, i)
  <2>1. ~Untouched(target, i)
    BY <1>1, NotThere
  <2>2. CASE target = args[i]
    BY <1>3, <2>1, <2>2 DEF Took, NotById, NotByName
  <2>3. CASE name[target] = args[i] /\ InScope(target) /\ NotById(i)
    <3>1. target \in Bearing(args[i])
      BY <1>3, <2>3 DEF Took, Bearing
    <3>. QED
      BY <2>1, <2>3, <3>1 DEF NotByName
  <2>. QED
    BY <1>3, <2>2, <2>3 DEF Took
<1>. QED
  BY <1>2, <1>3 DEF Fates

LEMMA StaysOrTurns ==
  ASSUME IInv, Client
  PROVE  Turned \/ i' = i
<1>1. \A kind : Fail(kind) => Turned \/ i' = i
  BY FailTurns
<1>2. Succeed => Turned
  BY TurnTurns DEF Succeed
<1>3. CASE Setup \/ Get \/ Confirm \/ Call
  BY <1>1, <1>2, <1>3 DEF Setup, Get, Confirm, Call, GoTo, Resolve, Return
<1>4. CASE List
  BY <1>1, <1>4 DEF List, Resolve
<1>5. CASE AfterLoop \/ Wait
  BY <1>5 DEF AfterLoop, Wait, GoTo, Return
<1>. QED
  BY <1>3, <1>4, <1>5 DEF Client

\* An argument is left behind for a reason.
LEMMA TurnedForAReason ==
  ASSUME IInv, Route, OurDoing, Fates, Plain, Client, Turned
  PROVE  i \in (faulted \cup SettledArgs)' \/ (NotById(i) /\ NotByName(i))
<1>1. i' # i /\ i \in Nat
  BY DEF Turned, IInv, TypeOK
<1>2. Fault => i \in faulted'
  BY DEF Fault
<1>3. faulted \subseteq faulted'
  BY CloudSteps DEF CloudMoves, IInv, Next
<1>4. CASE Setup
  BY <1>1, <1>2, <1>4 DEF Setup, GoTo
<1>5. CASE Get
  BY <1>1, <1>2, <1>5 DEF Get, GoTo, Resolve
<1>6. CASE List
  <2>1. CASE Fault
    BY <1>2, <2>1
  <2>2. CASE Picks(MatchedByListing(args[i])) = {}
    <3>1. pc = "list" /\ InLoop /\ meddled = {} /\ cmd.lookup \notin ListFirst
      BY <1>6 DEF List, InLoop, Plain
    <3>2. NotByName(i)
      BY <2>2, <3>1, NothingToPick
    <3>3. i \in faulted \/ NotById(i)
      BY <3>1 DEF Fates
    <3>. QED
      BY <1>3, <3>2, <3>3
  <2>3. CASE \E id \in Picks(MatchedByListing(args[i])) :
               Resolve(id, IF cmd.lookup = "list-confirm" THEN "confirm" ELSE "call")
    BY <1>1, <2>3 DEF Resolve
  <2>. QED
    BY <1>6, <2>1, <2>2, <2>3 DEF List
<1>7. CASE Confirm
  BY <1>7 DEF Confirm, Route, Plain
<1>8. CASE Call
  <2>1. CASE settled' = settled \cup {<<i, target>>}
    <3>1. <<i, target>> \in settled' /\ <<i, target>>[1] = i
      BY <2>1
    <3>2. i \in SettledArgs'
      BY <3>1 DEF SettledArgs
    <3>. QED
      BY <3>2
  <2>2. CASE Fault
    BY <1>2, <2>2
  <2>3. CASE ~Exists(target)
    BY <1>3, <1>8, <2>3, NothingToCall DEF Call
  <2>. QED
    BY <1>8, <2>1, <2>2, <2>3 DEF Call, Execute
<1>9. CASE AfterLoop \/ Wait
  BY <1>1, <1>9 DEF AfterLoop, Wait, GoTo, Return
<1>. QED
  BY <1>4, <1>5, <1>6, <1>7, <1>8, <1>9 DEF Client

\* The requests that lead on within an argument.
LEMMA OnTheWay ==
  ASSUME IInv, Route, OurDoing, Fates, Plain, [Next]_vars, meddled' = {}, i' = i
  PROVE  /\ pc' = "list" => i \in faulted' \/ NotById(i)
         /\ pc' = "call" => i \in faulted' \/ cmd.lookup = "none" \/ Took(target', i)
<1>1. faulted \subseteq faulted' /\ cmd \in HandlerRecords
  BY CloudSteps, HandlersAssumption DEF CloudMoves, IInv, TypeOK
<1>2. i \in Nat /\ meddled = {}
  BY Undisturbed DEF IInv, TypeOK
<1>3. CASE UNCHANGED <<pc, target>>
  BY <1>1, <1>3 DEF Fates
<1>4. CASE Turned
  BY <1>2, <1>4 DEF Turned
<1>5. CASE pc = "setup" /\ GoTo(LookupRequest(args[i]))
  <2>1. pc' = "call" => cmd.lookup = "none"
    BY <1>5 DEF GoTo, LookupRequest
  <2>2. pc' = "list" => args[i] \notin Ids
    BY <1>5 DEF GoTo, LookupRequest, Plain
  <2>. QED
    BY <2>1, <2>2 DEF NotById, Untouched
<1>6. CASE pc = "get" /\ Client
  <2>1. Get /\ InLoop
    BY <1>6, GetIsNext DEF InLoop
  <2>2. pc' = "list" => i \in faulted' \/ ~Gettable(args[i])
    BY <1>4, <2>1, FailTurns DEF Get, Resolve, Fault
  <2>3. ~Gettable(args[i]) => NotById(i)
    BY <1>2, <2>1, NotThere DEF Gettable, NotById
  <2>4. pc' = "call" => (Resolve(args[i], "call") /\ Gettable(args[i])) \/ i \in faulted'
    BY <2>1 DEF Get, GoTo, Fault
  <2>5. Resolve(args[i], "call") /\ Gettable(args[i]) => Took(target', i)
    BY DEF Resolve, Gettable, Exists, Took
  <2>. QED
    BY <2>2, <2>3, <2>4, <2>5
<1>7. ASSUME pc = "list", NEW v \in Picks(MatchedByListing(args[i])), NEW next, Resolve(v, next)
      PROVE  pc' \in {"list", "call"} => i \in faulted' \/ Took(target', i)
  <2>1. v \in Ids /\ status[v] # "absent" /\ InScope(v) /\ (name[v] = args[i] \/ v = args[i])
    BY DEF Picks, MatchedByListing, Exists
  <2>2. i \in faulted \/ NotById(i)
    BY <1>7 DEF Fates
  <2>. QED
    BY <1>1, <1>7, <2>1, <2>2 DEF Resolve, Took
<1>8. CASE pc' \in {"done", "wait", "confirm"}
  BY <1>8
<1>9. pc # "confirm"
  BY DEF Route, Plain
<1>10. CASE ~Client
  BY <1>3, <1>10, ElsewhereStays
<1>11. CASE pc = "list" /\ Client
  <2>1. pc' \in {"done", "wait", "confirm"} \/ Turned
        \/ \E v \in Picks(MatchedByListing(args[i])) :
               Resolve(v, IF cmd.lookup = "list-confirm" THEN "confirm" ELSE "call")
    BY <1>11, ClientRoute DEF Resolve
  <2>2. cmd.lookup # "list-confirm"
    BY DEF Plain, ListFirst
  <2>3. ASSUME NEW v \in Picks(MatchedByListing(args[i])), Resolve(v, "call")
        PROVE  /\ pc' = "list" => i \in faulted' \/ NotById(i)
               /\ pc' = "call" => i \in faulted' \/ cmd.lookup = "none" \/ Took(target', i)
    BY <1>7, <1>11, <2>3 DEF Resolve
  <2>. QED
    BY <1>4, <1>8, <2>1, <2>2, <2>3
<1>. QED
  BY <1>4, <1>5, <1>6, <1>8, <1>9, <1>10, <1>11, ClientRoute

LEMMA FatesStep ==
  ASSUME IInv, Route, OurDoing, Fates, [Next]_vars
  PROVE  Fates'
<1>. SUFFICES ASSUME Plain'
              PROVE  /\ \A k \in 1..i' - 1 : k \in (faulted \cup SettledArgs)' \/ (NotById(k) /\ NotByName(k))'
                     /\ pc' = "list" => i' \in faulted' \/ NotById(i)'
                     /\ pc' = "call" => i' \in faulted' \/ cmd'.lookup = "none" \/ Took(target, i)'
  BY DEF Fates
<1>1. TypeOK /\ UNCHANGED <<cmd, args>> /\ meddled' = {} /\ Plain /\ i \in Nat
  BY CloudSteps, Undisturbed DEF CloudMoves, IInv, Plain, TypeOK
<1>2. ASSUME NEW k, k \in faulted \cup SettledArgs \/ (NotById(k) /\ NotByName(k))
      PROVE  k \in (faulted \cup SettledArgs)' \/ (NotById(k) /\ NotByName(k))'
  BY <1>1, <1>2, FatesStay
<1>3. \A k \in 1..i - 1 : k \in (faulted \cup SettledArgs)' \/ (NotById(k) /\ NotByName(k))'
  BY <1>1, <1>2 DEF Fates
<1>4. CASE i' = i
  <2>1. \A k : k = i => (NotById(k) => NotById(k)')
    BY <1>1, FatesStay
  <2>2. \A v, k : Took(v, k) => Took(v, k)'
    BY <1>1, FatesStay
  <2>3. pc' = "list" => i' \in faulted' \/ NotById(i)'
    BY <1>1, <1>4, <2>1, OnTheWay DEF NotById, Untouched, Touched
  <2>4. pc' = "call" => i' \in faulted' \/ cmd'.lookup = "none" \/ Took(target, i)'
    BY <1>1, <1>4, <2>2, OnTheWay DEF Took, NotById, Untouched, Touched, InScope
  <2>. QED
    BY <1>3, <1>4, <2>3, <2>4
<1>5. CASE Turned /\ Client
  <2>1. \A k : k = i => k \in (faulted \cup SettledArgs)' \/ (NotById(k) /\ NotByName(k))'
    <3>1. \A k : k = i => k \in (faulted \cup SettledArgs)' \/ (NotById(k) /\ NotByName(k))
      BY <1>1, <1>5, TurnedForAReason
    <3>2. \A k : NotById(k) /\ NotByName(k) => (NotById(k) /\ NotByName(k))'
      BY <1>1, FatesStay
    <3>. QED
      BY <3>1, <3>2
  <2>2. \A k \in 1..i' - 1 : k \in 1..i - 1 \/ k = i
    BY <1>1, <1>5 DEF Turned
  <2>3. pc' = "list" => args[i'] \notin Ids
    BY <1>1, <1>5 DEF Turned, Plain
  <2>4. pc' = "call" => cmd.lookup = "none"
    BY <1>5 DEF Turned
  <2>. QED
    BY <1>1, <1>3, <2>1, <2>2, <2>3, <2>4 DEF NotById, Untouched
<1>6. CASE ~Client
  BY <1>4, <1>6, ElsewhereStays
<1>. QED
  BY <1>4, <1>5, <1>6, StaysOrTurns

(* Where failures are counted, an argument that denotes a resource nobody  *)
(* else touches, and none of whose own requests fails, is executed,        *)
(* whatever happened to the arguments before it.                           *)
THEOREM Independence == Spec => []ArgumentsAreIndependent
<1>1. Init => OurDoing /\ Fates
  <2>. SUFFICES ASSUME Init
                PROVE  OurDoing /\ Fates
    OBVIOUS
  <2>1. pc = FirstRequest({"each", "once"}, args[1]) /\ i = 1
    BY DEF Init
  <2>2. \A id \in Ids : status[id] \in {"absent", "live"}
    BY DEF Init
  <2>3. pc = "call" => cmd.lookup = "none"
    BY <2>1 DEF FirstRequest, LookupRequest
  <2>4. pc = "list" => cmd.lookup \in ListFirst \/ args[i] \notin Ids
    BY <2>1 DEF FirstRequest, LookupRequest
  <2>. QED
    BY <2>1, <2>2, <2>3, <2>4 DEF OurDoing, Fates, Plain, NotById, Untouched
<1>2. IInv /\ Route /\ OurDoing /\ Fates /\ [Next]_vars => OurDoing' /\ Fates'
  BY OurDoingStep, FatesStep DEF IInv
<1>3. IInv /\ Fates => ArgumentsAreIndependent
  <2>. SUFFICES ASSUME IInv, Fates, Plain, report.kind \in {"ok", "count"},
                       NEW j \in (1..Len(args)) \ (faulted \cup SettledArgs)
                PROVE  LET untouched == {id \in Ids : /\ status[id] # "absent"
                                                       /\ \A s \in settled : s[1] < j => s[2] # id}
                           named == {id \in Ids : status[id] # "absent" /\ InScope(id) /\ name[id] = args[j]}
                       IN /\ cmd.scope = "domain" \/ args[j] \notin untouched
                          /\ (cmd.lookup # "none" /\ \A id \in Ids : id = args[j] => status[id] = "absent") =>
                               \A id \in untouched : named # {id}
    BY DEF ArgumentsAreIndependent, Plain
  <2>1. j \in 1..i - 1
    BY ArgType DEF IInv, Position
  <2>2. NotById(j) /\ NotByName(j)
    BY <2>1 DEF Fates
  <2>. QED
    BY <2>2 DEF NotById, NotByName, Untouched, Touched, Bearing
<1>. QED
  BY <1>1, <1>2, <1>3, RouteHolds, PTL DEF Spec
=============================================================================
