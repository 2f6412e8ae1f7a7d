------------------------- MODULE BulkCommand_proofs -------------------------
(***************************************************************************)
(* What holds of a bulk command for any number of arguments, resources,    *)
(* failures and interferences.                                             *)
(***************************************************************************)
EXTENDS BulkCommand, FiniteSetTheorems, TLAPS

PCs == {"setup", "get", "list", "confirm", "call", "after", "wait", "done"}

\* The pieces of state the handler's helpers write.
HandlerType ==
  /\ pc \in PCs
  /\ i \in Nat \ {0}
  /\ target \in Values \cup {NoValue}
  /\ failures \in Nat
  /\ report \in [kind : {"running", "ok", "count", "error"}, failures : Nat, total : Nat]

LEMMA ArgType ==
  ASSUME TypeOK
  PROVE  /\ args \in Seq(Values)
         /\ Len(args) \in Nat \ {0}
         /\ \A k \in 1..Len(args) : args[k] \in Values
         /\ cmd \in HandlerRecords
BY ArgListsAssumption, HandlersAssumption DEF TypeOK

\* The first request of an argument is one of the program's requests.
LEMMA RequestType ==
  ASSUME NEW v, NEW setups
  PROVE  /\ FirstRequest(setups, v) \in {"setup", "call", "list", "get"}
         /\ LookupRequest(v) \in {"call", "list", "get"}
BY DEF FirstRequest, LookupRequest

LEMMA TurnType ==
  ASSUME TypeOK, NEW k \in Nat \ {0}, Turn(k)
  PROVE  /\ pc' \in PCs
         /\ i' \in Nat \ {0}
         /\ target' \in Values \cup {NoValue}
<1>1. pc' \in PCs
  BY RequestType DEF Turn, PCs
<1>2. i' \in Nat \ {0}
  BY DEF Turn
<1>3. target' \in Values \cup {NoValue}
  BY ArgType DEF Turn, FirstTarget, TypeOK
<1> QED BY <1>1, <1>2, <1>3

LEMMA FailType ==
  ASSUME TypeOK, NEW kind, Fail(kind)
  PROVE  HandlerType'
<1>1. CASE kind \in cmd.fatal
  BY <1>1 DEF Fail, TypeOK, HandlerType, PCs, Error, Running
<1>2. CASE kind \notin cmd.fatal
  <2>1. i + 1 \in Nat \ {0}
    BY DEF TypeOK
  <2>2. Turn(i + 1) /\ failures' = failures + 1 /\ UNCHANGED report
    BY <1>2 DEF Fail
  <2>3. failures' \in Nat
    BY <2>2 DEF TypeOK
  <2> QED BY <2>1, <2>2, <2>3, TurnType DEF HandlerType, TypeOK
<1> QED BY <1>1, <1>2

LEMMA GoToType ==
  ASSUME TypeOK, NEW next \in PCs, GoTo(next)
  PROVE  HandlerType'
BY DEF GoTo, TypeOK, HandlerType, PCs

LEMMA ResolveType ==
  ASSUME TypeOK, NEW v \in Values, NEW next \in PCs, Resolve(v, next)
  PROVE  HandlerType'
BY DEF Resolve, TypeOK, HandlerType, PCs

LEMMA ReturnType ==
  ASSUME TypeOK, Return(Ok) \/ Return(Error) \/ Return(Count(failures))
  PROVE  HandlerType'
<1>1. NamespaceLength \in Nat
  BY BoundsAssumption
<1>2. Ok \in [kind : {"running", "ok", "count", "error"}, failures : Nat, total : Nat]
  BY DEF Ok, Running
<1>3. Error \in [kind : {"running", "ok", "count", "error"}, failures : Nat, total : Nat]
  BY DEF Error, Running
<1>4. Count(failures) \in [kind : {"running", "ok", "count", "error"}, failures : Nat, total : Nat]
  BY <1>1, ArgType DEF Count, TypeOK
<1> QED BY <1>2, <1>3, <1>4 DEF Return, TypeOK, HandlerType, PCs

\* What the history of failed requests can become.
LEMMA FaultType ==
  ASSUME TypeOK, Fault \/ NoFault
  PROVE  faulted' \subseteq Nat
BY DEF Fault, NoFault, TypeOK

LEMMA ReadStepType ==
  ASSUME TypeOK, HandlerType', Fault \/ NoFault \/ UNCHANGED faulted, OnlyReads
  PROVE  TypeOK'
BY FaultType DEF TypeOK, HandlerType, PCs, OnlyReads, cloudVars, NoFault

LEMMA SettledType ==
  ASSUME TypeOK, target \in Values
  PROVE  settled \cup {<<i, target>>} \subseteq Nat \X Values
BY DEF TypeOK

-----------------------------------------------------------------------------
LEMMA InitType == Init => TypeOK
<1> SUFFICES ASSUME Init PROVE TypeOK
  OBVIOUS
<1>1. args \in Seq(Values) /\ args # <<>> /\ args[1] \in Values
  BY ArgListsAssumption DEF Init
<1>2. pc \in PCs
  BY RequestType DEF Init, PCs
<1>3. target \in Values \cup {NoValue}
  BY <1>1 DEF Init, FirstTarget
<1>4. report \in [kind : {"running", "ok", "count", "error"}, failures : Nat, total : Nat]
  BY DEF Init, Running
<1>5. status \in [Ids -> {"absent", "live", "deleting", "gone"}]
  BY DEF Init
<1>6. deleted \in Seq(Values) /\ settled \subseteq Nat \X Values
  BY DEF Init
<1>7. cmd \in Handlers /\ args \in ArgLists /\ name \in [Ids -> Values]
  BY DEF Init
<1>8. expired \in BOOLEAN
  BY DEF Init
<1>9. i \in Nat \ {0} /\ failures \in Nat /\ faulted \subseteq Nat /\ meddled \subseteq Ids
  BY DEF Init
<1> QED BY <1>2, <1>3, <1>4, <1>5, <1>6, <1>7, <1>8, <1>9 DEF TypeOK, PCs

LEMMA SetupType == TypeOK /\ Setup => TypeOK'
<1> SUFFICES ASSUME TypeOK, Setup PROVE TypeOK'
  OBVIOUS
<1>1. LookupRequest(args[i]) \in PCs
  BY RequestType DEF PCs
<1>2. HandlerType'
  BY <1>1, GoToType, ReturnType, FailType DEF Setup
<1> QED BY <1>2, ReadStepType DEF Setup

\* While the loop runs, i is the position of an argument.
InLoop == pc \in {"setup", "get", "list", "confirm", "call"}

Position ==
  /\ InLoop => i \in 1..Len(args)
  /\ pc \in {"after", "wait"} => i = Len(args) + 1
  /\ report.kind \in {"ok", "count"} => i = Len(args) + 1
  /\ i \in 1..(Len(args) + 1)

LEMMA CurrentArgument ==
  ASSUME TypeOK, Position, InLoop
  PROVE  args[i] \in Values
BY ArgType DEF Position

LEMMA GetType == TypeOK /\ Position /\ Get => TypeOK'
<1> SUFFICES ASSUME TypeOK, Position, Get PROVE TypeOK'
  OBVIOUS
<1>1. args[i] \in Values
  BY CurrentArgument DEF Get, InLoop
<1>2. HandlerType'
  BY <1>1, GoToType, ResolveType, FailType DEF Get, PCs
<1> QED BY <1>2, ReadStepType DEF Get

LEMMA ListType == TypeOK /\ Position /\ List => TypeOK'
<1> SUFFICES ASSUME TypeOK, Position, List PROVE TypeOK'
  OBVIOUS
<1> DEFINE matches == MatchedByListing(args[i])
<1>1. args[i] \in Values
  BY CurrentArgument DEF List, InLoop
<1>2. Picks(matches) \subseteq Values
  BY DEF Picks, MatchedByListing, Values
<1>3. CASE \E id \in Picks(matches) :
             Resolve(id, IF cmd.lookup = "list-confirm" THEN "confirm" ELSE "call")
  <2>1. PICK id \in Picks(matches) :
          Resolve(id, IF cmd.lookup = "list-confirm" THEN "confirm" ELSE "call")
    BY <1>3
  <2>2. (IF cmd.lookup = "list-confirm" THEN "confirm" ELSE "call") \in PCs
    BY DEF PCs
  <2>3. HandlerType'
    BY <1>2, <2>1, <2>2, ResolveType
  <2> QED BY <2>3, ReadStepType DEF List
<1>4. CASE Resolve(args[i], "confirm")
  BY <1>1, <1>4, ResolveType, ReadStepType DEF List, PCs
<1>5. CASE \E kind : Fail(kind)
  BY <1>5, FailType, ReadStepType DEF List
<1>6. \/ \E id \in Picks(matches) :
             Resolve(id, IF cmd.lookup = "list-confirm" THEN "confirm" ELSE "call")
      \/ Resolve(args[i], "confirm")
      \/ \E kind : Fail(kind)
  BY DEF List
<1> QED BY <1>3, <1>4, <1>5, <1>6

LEMMA ConfirmType == TypeOK /\ Confirm => TypeOK'
<1> SUFFICES ASSUME TypeOK, Confirm PROVE TypeOK'
  OBVIOUS
<1>1. HandlerType'
  BY GoToType, FailType DEF Confirm, PCs
<1> QED BY <1>1, ReadStepType DEF Confirm

LEMMA ExecuteType ==
  ASSUME TypeOK, Execute
  PROVE  /\ status' \in [Ids -> {"absent", "live", "deleting", "gone"}]
         /\ name' \in [Ids -> Values]
         /\ meddled' \subseteq Ids
         /\ settled' \subseteq Nat \X Values
<1>1. target \in Values
  BY DEF Execute, Exists, Values
<1>2. settled' \subseteq Nat \X Values
  BY <1>1, SettledType DEF Execute
<1>3. status' \in [Ids -> {"absent", "live", "deleting", "gone"}]
  BY DEF Execute, TypeOK
<1> QED BY <1>2, <1>3 DEF Execute, TypeOK

LEMMA SucceedType ==
  ASSUME TypeOK, target \in Values, Succeed
  PROVE  HandlerType' /\ deleted' \in Seq(Values)
<1>1. i + 1 \in Nat \ {0}
  BY DEF TypeOK
<1>2. HandlerType'
  BY <1>1, TurnType DEF Succeed, HandlerType, TypeOK
<1>3. deleted' \in Seq(Values)
  BY DEF Succeed, TypeOK
<1> QED BY <1>2, <1>3

\* The call is addressed to something, once a lookup is done or not needed.
Aimed ==
  /\ pc \in {"call", "confirm"} => target \in Values
  /\ (InLoop /\ cmd.lookup = "none") => target \in Values

LEMMA CallType == TypeOK /\ Aimed /\ Call => TypeOK'
<1> SUFFICES ASSUME TypeOK, Aimed, Call PROVE TypeOK'
  OBVIOUS
<1>1. target \in Values
  BY DEF Aimed, Call
<1>2. faulted' \subseteq Nat
  BY FaultType DEF Call, NoFault
<1>3. UNCHANGED <<cmd, args, expired>>
  BY DEF Call
<1>4. HandlerType' /\ deleted' \in Seq(Values)
  BY <1>1, SucceedType, FailType DEF Call, TypeOK
<1>5. /\ status' \in [Ids -> {"absent", "live", "deleting", "gone"}]
      /\ name' \in [Ids -> Values]
      /\ meddled' \subseteq Ids
      /\ settled' \subseteq Nat \X Values
  <2>1. CASE Execute
    BY <2>1, ExecuteType
  <2>2. CASE UNCHANGED cloudVars /\ settled' = settled \cup {<<i, target>>}
    BY <1>1, <2>2, SettledType DEF TypeOK, cloudVars
  <2>3. CASE UNCHANGED <<cloudVars, settled>>
    BY <2>3 DEF TypeOK, cloudVars
  <2> QED BY <2>1, <2>2, <2>3 DEF Call
<1> QED BY <1>2, <1>3, <1>4, <1>5 DEF TypeOK, HandlerType, PCs

LEMMA AfterLoopType == TypeOK /\ AfterLoop => TypeOK'
<1> SUFFICES ASSUME TypeOK, AfterLoop PROVE TypeOK'
  OBVIOUS
<1>1. HandlerType'
  BY GoToType, ReturnType DEF AfterLoop, PCs
<1> QED BY <1>1, ReadStepType DEF AfterLoop

\* A wait has something to wait for.
Awaiting == pc = "wait" => deleted # <<>>

LEMMA WaitType == TypeOK /\ Awaiting /\ Wait => TypeOK'
<1> SUFFICES ASSUME TypeOK, Awaiting, Wait PROVE TypeOK'
  OBVIOUS
<1>1. HandlerType'
  BY GoToType, ReturnType DEF Wait, PCs
<1>2. Tail(deleted) \in Seq(Values)
  BY DEF Awaiting, Wait, TypeOK
<1>3. deleted' \in Seq(Values) /\ expired' \in BOOLEAN
  BY <1>2 DEF Wait, TypeOK
<1>4. faulted' \subseteq Nat
  BY FaultType DEF Wait
<1> QED BY <1>1, <1>3, <1>4 DEF Wait, TypeOK, HandlerType, PCs, cloudVars

LEMMA ExpireType == TypeOK /\ Expire => TypeOK'
BY DEF TypeOK, Expire, cloudVars

LEMMA WorldType == TypeOK /\ World => TypeOK'
<1> SUFFICES ASSUME TypeOK, NEW id \in Ids, Meddle(id) \/ Reap(id) PROVE TypeOK'
  BY DEF World
<1>1. UNCHANGED clientVars
  BY DEF Meddle, Reap
<1>2. /\ status' \in [Ids -> {"absent", "live", "deleting", "gone"}]
      /\ name' \in [Ids -> Values]
      /\ meddled' \subseteq Ids
  BY DEF Meddle, Reap, TypeOK
<1> QED BY <1>1, <1>2 DEF TypeOK, clientVars

-----------------------------------------------------------------------------
(* The invariant on which the rest is built.                               *)

\* How the counters, the history and the result hang together.
Books ==
  /\ (pc # "done") <=> (report = Running)
  /\ report.kind = "running" <=> report = Running
  /\ SettledArgs \subseteq 1..Len(args)
  /\ InLoop => SettledArgs \subseteq 1..(i - 1)
  /\ SettledArgs \subseteq 1..i
  /\ i - 1 <= failures + Cardinality(SettledArgs)
  /\ pc = "wait" => failures = 0
  /\ report.kind = "ok" => failures = 0
  /\ report.kind = "count" =>
       /\ failures > 0 /\ report.failures = failures
       /\ cmd.total = "arguments" => report.total = Len(args)

IInv == TypeOK /\ Position /\ Aimed /\ Awaiting /\ Books

\* What every step of the client must show, apart from the types.
Rest == Position /\ Aimed /\ Awaiting /\ Books

\* The arguments that were executed are finitely many.
LEMMA SettledIsFinite ==
  ASSUME TypeOK, Books
  PROVE  IsFiniteSet(SettledArgs) /\ Cardinality(SettledArgs) \in Nat
<1>1. Len(args) \in Nat
  BY ArgType
<1>2. IsFiniteSet(1..Len(args))
  BY <1>1, FS_Interval
<1>3. IsFiniteSet(SettledArgs)
  BY <1>2, FS_Subset DEF Books
<1> QED BY <1>3, FS_CardinalityType

\* One more argument executed.
LEMMA SettleOne ==
  ASSUME TypeOK, Books, InLoop, settled' = settled \cup {<<i, target>>}
  PROVE  /\ SettledArgs' = SettledArgs \cup {i}
         /\ IsFiniteSet(SettledArgs')
         /\ Cardinality(SettledArgs') = Cardinality(SettledArgs) + 1
<1>1. SettledArgs' = SettledArgs \cup {i}
  <2>1. <<i, target>> \in settled' /\ <<i, target>>[1] = i
    OBVIOUS
  <2>2. SettledArgs' \subseteq SettledArgs \cup {i}
    BY DEF SettledArgs
  <2>3. SettledArgs \subseteq SettledArgs'
    BY DEF SettledArgs
  <2>4. i \in SettledArgs'
    BY <2>1 DEF SettledArgs
  <2> QED BY <2>2, <2>3, <2>4
<1>2. i \notin SettledArgs
  BY DEF Books, TypeOK
<1> QED BY <1>1, <1>2, SettledIsFinite, FS_AddElement

\* Staying with the same argument.
LEMMA StayKeeps ==
  ASSUME IInv, InLoop, NEW next \in {"setup", "get", "list", "confirm", "call"},
         pc' = next, UNCHANGED <<i, failures, report, args, cmd, settled>>,
         target' \in Values \/
           (target' = target /\ (next = "call" => cmd.lookup = "none" \/ pc = "confirm")
                             /\ next # "confirm")
  PROVE  Rest'
<1>1. SettledArgs' = SettledArgs
  BY DEF SettledArgs
<1>2. InLoop' /\ pc' # "done"
  BY DEF InLoop
<1>3. Position'
  BY <1>2 DEF IInv, Position, InLoop
<1>4. Aimed'
  BY <1>2 DEF IInv, Aimed, InLoop
<1>5. Awaiting'
  BY DEF Awaiting
<1>6. Books'
  BY <1>1, <1>2 DEF IInv, Books, InLoop
<1> QED BY <1>3, <1>4, <1>5, <1>6 DEF Rest

\* Leaving the argument behind: it was executed, or it is counted.
LEMMA AdvanceKeeps ==
  ASSUME IInv, InLoop, Turn(i + 1), UNCHANGED <<report, args, cmd>>,
         \/ settled' = settled \cup {<<i, target>>} /\ failures' \in {failures, failures + 1}
         \/ settled' = settled /\ failures' = failures + 1
  PROVE  Rest'
<1>1. /\ SettledArgs' \subseteq SettledArgs \cup {i}
      /\ Cardinality(SettledArgs') \in Nat
      /\ i <= failures' + Cardinality(SettledArgs')
  <2>1. CASE settled' = settled \cup {<<i, target>>} /\ failures' \in {failures, failures + 1}
    <3>1. /\ SettledArgs' = SettledArgs \cup {i}
          /\ Cardinality(SettledArgs') = Cardinality(SettledArgs) + 1
      BY <2>1, SettleOne DEF IInv
    <3>2. Cardinality(SettledArgs) \in Nat /\ failures \in Nat /\ i \in Nat
      BY SettledIsFinite DEF IInv, TypeOK
    <3>3. i - 1 <= failures + Cardinality(SettledArgs)
      BY DEF IInv, Books
    <3> QED BY <2>1, <3>1, <3>2, <3>3
  <2>2. CASE settled' = settled /\ failures' = failures + 1
    <3>1. SettledArgs' = SettledArgs
      BY <2>2 DEF SettledArgs
    <3> QED BY <2>2, <3>1, SettledIsFinite DEF IInv, Books, TypeOK
  <2> QED BY <2>1, <2>2
<1>2. /\ i' = i + 1
      /\ i \in 1..Len(args)
      /\ Len(args) \in Nat
  BY ArgType DEF Turn, IInv, Position
<1>3. pc' \in {"setup", "call", "list", "get", "after"} /\ (pc' = "after" <=> i' > Len(args))
  BY <1>2, RequestType DEF Turn
<1>4. Position'
  BY <1>2, <1>3 DEF Position, InLoop, IInv, Books, Running
<1>5. Aimed'
  <2>1. CASE i' > Len(args)
    BY <1>3, <2>1 DEF Aimed, InLoop
  <2>2. CASE i' <= Len(args)
    <3>1. args[i'] \in Values /\ target' = FirstTarget(args[i'])
      BY <1>2, <2>2, ArgType DEF Turn, IInv
    <3>2. pc' = FirstRequest({"each"}, args[i'])
      BY <1>2, <2>2 DEF Turn
    <3>3. pc' = "call" => cmd.lookup = "none"
      BY <3>2 DEF FirstRequest, LookupRequest
    <3> QED BY <1>3, <3>1, <3>3 DEF Aimed, InLoop, FirstTarget
  <2> QED BY <1>2, <2>1, <2>2
<1>6. Awaiting'
  BY <1>3 DEF Awaiting
<1>7. Books'
  BY <1>1, <1>2, <1>3 DEF Books, IInv, InLoop, Running
<1> QED BY <1>4, <1>5, <1>6, <1>7 DEF Rest

\* Returning an error, with the current argument possibly executed.
LEMMA StopKeeps ==
  ASSUME IInv, pc # "done", pc' = "done", report' = Error, UNCHANGED <<i, failures, args, cmd>>,
         settled' = settled \/ (InLoop /\ settled' = settled \cup {<<i, target>>})
  PROVE  Rest'
<1>1. /\ SettledArgs' \subseteq 1..Len(args) /\ SettledArgs' \subseteq 1..i
      /\ i - 1 <= failures + Cardinality(SettledArgs')
  <2>1. CASE settled' = settled
    <3>1. SettledArgs' = SettledArgs
      BY <2>1 DEF SettledArgs
    <3> QED BY <3>1 DEF IInv, Books
  <2>2. CASE InLoop /\ settled' = settled \cup {<<i, target>>}
    <3>1. /\ SettledArgs' = SettledArgs \cup {i}
          /\ Cardinality(SettledArgs') = Cardinality(SettledArgs) + 1
      BY <2>2, SettleOne DEF IInv
    <3>2. Cardinality(SettledArgs) \in Nat /\ failures \in Nat /\ i \in 1..Len(args)
      BY <2>2, SettledIsFinite DEF IInv, TypeOK, Position
    <3>3. /\ i - 1 <= failures + Cardinality(SettledArgs)
          /\ SettledArgs \subseteq 1..Len(args) /\ SettledArgs \subseteq 1..i
      BY DEF IInv, Books
    <3> QED BY <3>1, <3>2, <3>3
  <2> QED BY <2>1, <2>2
<1>2. report'.kind = "error" /\ report' # Running
  BY DEF Error, Running
<1>3. Position' /\ Aimed' /\ Awaiting'
  BY <1>2 DEF IInv, Position, Aimed, Awaiting, InLoop
<1>4. Books'
  BY <1>1, <1>2 DEF IInv, Books, InLoop
<1> QED BY <1>3, <1>4 DEF Rest

\* Both ways an argument can fail.
LEMMA FailKeeps ==
  ASSUME IInv, InLoop, NEW kind, Fail(kind), UNCHANGED <<args, cmd>>,
         settled' = settled \/ settled' = settled \cup {<<i, target>>}
  PROVE  Rest'
<1>1. CASE kind \in cmd.fatal
  BY <1>1, StopKeeps DEF Fail, InLoop
<1>2. CASE kind \notin cmd.fatal
  BY <1>2, AdvanceKeeps DEF Fail
<1> QED BY <1>1, <1>2

LEMMA SetupKeeps == IInv /\ Setup => Rest'
<1> SUFFICES ASSUME IInv, Setup PROVE Rest'
  OBVIOUS
<1>1. InLoop /\ UNCHANGED <<args, cmd, settled>>
  BY DEF Setup, InLoop, OnlyReads
<1>2. CASE GoTo(LookupRequest(args[i]))
  <2>1. LookupRequest(args[i]) \in {"call", "list", "get"}
    BY RequestType
  <2>2. LookupRequest(args[i]) = "call" => cmd.lookup = "none"
    BY DEF LookupRequest
  <2> QED BY <1>1, <1>2, <2>1, <2>2, StayKeeps DEF GoTo
<1>3. CASE Return(Error)
  BY <1>1, <1>3, StopKeeps DEF Return, Setup
<1>4. CASE Fail("lookup")
  BY <1>1, <1>4, FailKeeps
<1> QED BY <1>2, <1>3, <1>4 DEF Setup

LEMMA GetKeeps == IInv /\ Get => Rest'
<1> SUFFICES ASSUME IInv, Get PROVE Rest'
  OBVIOUS
<1>1. InLoop /\ UNCHANGED <<args, cmd, settled>>
  BY DEF Get, InLoop, OnlyReads
<1>2. CASE Resolve(args[i], "call")
  BY <1>1, <1>2, StayKeeps, CurrentArgument DEF Resolve, IInv
<1>3. CASE GoTo("list")
  BY <1>1, <1>3, StayKeeps DEF GoTo
<1>4. CASE Fail("lookup")
  BY <1>1, <1>4, FailKeeps
<1> QED BY <1>2, <1>3, <1>4 DEF Get

LEMMA ListKeeps == IInv /\ List => Rest'
<1> SUFFICES ASSUME IInv, List PROVE Rest'
  OBVIOUS
<1> DEFINE matches == MatchedByListing(args[i])
           after == IF cmd.lookup = "list-confirm" THEN "confirm" ELSE "call"
<1>1. InLoop /\ UNCHANGED <<args, cmd, settled>>
  BY DEF List, InLoop, OnlyReads
<1>2. CASE \E id \in Picks(matches) : Resolve(id, after)
  <2>1. PICK id \in Picks(matches) : Resolve(id, after)
    BY <1>2
  <2>2. id \in Values
    BY DEF Picks, MatchedByListing, Values
  <2>3. after \in {"confirm", "call"}
    OBVIOUS
  <2> HIDE DEF after
  <2> QED BY <1>1, <2>1, <2>2, <2>3, StayKeeps DEF Resolve
<1>3. CASE Resolve(args[i], "confirm")
  BY <1>1, <1>3, StayKeeps, CurrentArgument DEF Resolve, IInv
<1>4. CASE \E kind : Fail(kind)
  BY <1>1, <1>4, FailKeeps
<1>5. \/ \E id \in Picks(matches) : Resolve(id, after)
      \/ Resolve(args[i], "confirm")
      \/ \E kind : Fail(kind)
  BY DEF List
<1> QED BY <1>2, <1>3, <1>4, <1>5

LEMMA ConfirmKeeps == IInv /\ Confirm => Rest'
<1> SUFFICES ASSUME IInv, Confirm PROVE Rest'
  OBVIOUS
<1>1. InLoop /\ UNCHANGED <<args, cmd, settled>>
  BY DEF Confirm, InLoop, OnlyReads
<1>2. CASE GoTo("call")
  BY <1>1, <1>2, StayKeeps DEF GoTo, Confirm
<1>3. CASE Fail("lookup")
  BY <1>1, <1>3, FailKeeps
<1> QED BY <1>2, <1>3 DEF Confirm

LEMMA CallKeeps == IInv /\ Call => Rest'
<1> SUFFICES ASSUME IInv, Call PROVE Rest'
  OBVIOUS
<1>1. InLoop /\ UNCHANGED <<args, cmd>>
  BY DEF Call, InLoop
<1>2. CASE Succeed /\ settled' = settled \cup {<<i, target>>}
  BY <1>1, <1>2, AdvanceKeeps DEF Succeed
<1>3. CASE /\ \E kind : Fail(kind)
           /\ settled' = settled \/ settled' = settled \cup {<<i, target>>}
  BY <1>1, <1>3, FailKeeps
<1> QED BY <1>2, <1>3 DEF Call, Execute

LEMMA AfterLoopKeeps == IInv /\ AfterLoop => Rest'
<1> SUFFICES ASSUME IInv, AfterLoop PROVE Rest'
  OBVIOUS
<1>1. /\ UNCHANGED <<args, cmd, deleted, settled, i, failures>>
      /\ SettledArgs' = SettledArgs
      /\ i = Len(args) + 1
  BY DEF AfterLoop, OnlyReads, Return, GoTo, IInv, Position, SettledArgs
<1>2. failures \in Nat
  BY DEF IInv, TypeOK
<1>3. CASE failures > 0 /\ Return(Count(failures))
  <2>1. /\ report'.kind = "count" /\ report'.failures = failures /\ pc' = "done"
        /\ cmd.total = "arguments" => report'.total = Len(args)
    BY <1>3 DEF Return, Count
  <2> QED BY <1>1, <1>3, <2>1 DEF Rest, IInv, Position, Aimed, Awaiting, Books, InLoop, Running
<1>4. CASE failures = 0 /\ deleted # <<>> /\ GoTo("wait")
  <2>1. pc' = "wait" /\ ~InLoop' /\ UNCHANGED <<target, report>>
    BY <1>4 DEF GoTo, InLoop
  <2>2. pc # "done"
    BY DEF AfterLoop
  <2>3. Position' /\ Aimed' /\ Awaiting'
    BY <1>1, <1>4, <2>1 DEF IInv, Position, Aimed, Awaiting, InLoop
  <2>4. Books'
    BY <1>1, <1>4, <2>1, <2>2 DEF IInv, Books, InLoop
  <2> QED BY <2>3, <2>4 DEF Rest
<1>5. CASE failures = 0 /\ Return(Ok)
  <2>1. report'.kind = "ok" /\ pc' = "done"
    BY <1>5 DEF Return, Ok, Running
  <2> QED BY <1>1, <1>5, <2>1 DEF Rest, IInv, Position, Aimed, Awaiting, Books, InLoop, Running
<1> QED BY <1>2, <1>3, <1>4, <1>5 DEF AfterLoop

LEMMA WaitKeeps == IInv /\ Wait => Rest'
<1> SUFFICES ASSUME IInv, Wait PROVE Rest'
  OBVIOUS
<1>1. /\ pc = "wait" /\ failures = 0 /\ i = Len(args) + 1
      /\ UNCHANGED <<args, cmd, settled, i, failures>>
      /\ SettledArgs' = SettledArgs
  BY DEF Wait, Return, GoTo, IInv, Position, Books, SettledArgs
<1>2. CASE Return(Error)
  BY <1>1, <1>2, StopKeeps DEF Return
<1>3. CASE Return(Ok)
  <2>1. report'.kind = "ok" /\ pc' = "done"
    BY <1>3 DEF Return, Ok, Running
  <2> QED BY <1>1, <2>1 DEF Rest, IInv, Position, Aimed, Awaiting, Books, InLoop, Running
<1>4. CASE GoTo("wait") /\ deleted' # <<>>
  BY <1>1, <1>4 DEF Rest, IInv, Position, Aimed, Awaiting, Books, InLoop, GoTo
<1> QED BY <1>2, <1>3, <1>4 DEF Wait

LEMMA OthersKeep == IInv /\ (Expire \/ World \/ UNCHANGED vars) => Rest'
<1> SUFFICES ASSUME IInv, Expire \/ World \/ UNCHANGED vars PROVE Rest'
  OBVIOUS
<1>1. UNCHANGED <<cmd, args, pc, i, target, failures, deleted, report, settled>>
  BY DEF Expire, World, Meddle, Reap, vars, clientVars
<1>2. SettledArgs' = SettledArgs
  BY <1>1 DEF SettledArgs
<1> QED BY <1>1, <1>2 DEF Rest, IInv, Position, Aimed, Awaiting, Books, InLoop

LEMMA InitInvariant == Init => IInv
<1> SUFFICES ASSUME Init PROVE IInv
  OBVIOUS
<1>1. TypeOK
  BY InitType
<1>2. Len(args) \in Nat \ {0} /\ args[1] \in Values
  BY <1>1, ArgType
<1>3. pc \in {"setup", "call", "list", "get"}
  BY RequestType DEF Init
<1>4. SettledArgs = {} /\ Cardinality(SettledArgs) = 0
  BY FS_EmptySet DEF Init, SettledArgs
<1>5. target = FirstTarget(args[1]) /\ (pc = "call" => cmd.lookup = "none")
  BY DEF Init, FirstRequest, LookupRequest
<1>6. Position /\ Aimed /\ Awaiting
  BY <1>2, <1>3, <1>5 DEF Init, Position, Aimed, Awaiting, InLoop, FirstTarget, Running
<1>7. Books
  BY <1>3, <1>4 DEF Init, Books, InLoop, Running
<1> QED BY <1>1, <1>6, <1>7 DEF IInv

LEMMA NextInvariant == IInv /\ [Next]_vars => IInv'
<1> SUFFICES ASSUME IInv, [Next]_vars PROVE IInv'
  OBVIOUS
<1>1. TypeOK'
  <2>1. CASE UNCHANGED vars
    BY <2>1 DEF IInv, TypeOK, vars, cloudVars, clientVars
  <2> QED BY <2>1, SetupType, GetType, ListType, ConfirmType, CallType, AfterLoopType,
             WaitType, ExpireType, WorldType DEF Next, Client, IInv
<1>2. Rest'
  BY SetupKeeps, GetKeeps, ListKeeps, ConfirmKeeps, CallKeeps, AfterLoopKeeps,
     WaitKeeps, OthersKeep DEF Next, Client
<1> QED BY <1>1, <1>2 DEF IInv, Rest

\* The types, the position in the loop, the target and the books together are
\* inductive.
THEOREM Invariant == Spec => []IInv
BY InitInvariant, NextInvariant, PTL DEF Spec

\* Every variable of a run of a bulk command keeps to its type.
THEOREM TypeCorrect == Spec => []TypeOK
<1>1. IInv => TypeOK
  BY DEF IInv
<1> QED BY <1>1, Invariant, PTL

\* The books prove the report right.
LEMMA BooksAreHonest ==
  IInv => /\ ReportIsHonest
          /\ report.kind = "count" => ReportedTotal = Len(args)
<1> SUFFICES ASSUME IInv
             PROVE  ReportIsHonest /\ (report.kind = "count" => ReportedTotal = Len(args))
  OBVIOUS
<1>1. /\ SettledArgs \subseteq 1..Len(args)
      /\ i - 1 <= failures + Cardinality(SettledArgs)
  BY DEF IInv, Books
<1>2. Len(args) \in Nat /\ Cardinality(SettledArgs) \in Nat /\ failures \in Nat
  BY ArgType, SettledIsFinite DEF IInv, TypeOK
<1>3. /\ Cardinality(SettledArgs) <= Len(args)
      /\ Len(args) <= Cardinality(SettledArgs) => SettledArgs = 1..Len(args)
  <2>1. IsFiniteSet(1..Len(args)) /\ Cardinality(1..Len(args)) = Len(args)
    <3>1. 1 \in Int /\ Len(args) \in Int /\ ~(1 > Len(args))
      BY ArgType DEF IInv
    <3>2. Cardinality(1..Len(args)) = Len(args) - 1 + 1
      BY <3>1, FS_Interval, Zenon
    <3> QED BY <1>2, <3>1, <3>2, FS_Interval
  <2>2. Cardinality(SettledArgs) <= Cardinality(1..Len(args))
    BY <1>1, <2>1, FS_Subset
  <2>3. ASSUME Len(args) <= Cardinality(SettledArgs) PROVE SettledArgs = 1..Len(args)
    <3>1. Cardinality(1..Len(args)) = Cardinality(SettledArgs)
      BY <1>2, <2>1, <2>2, <2>3
    <3> QED BY <1>1, <2>1, <3>1, FS_Subset
  <2> QED BY <2>1, <2>2, <2>3
<1>4. ASSUME report.kind = "ok" PROVE SettledArgs = 1..Len(args)
  <2>1. Len(args) <= Cardinality(SettledArgs)
    BY <1>1, <1>2, <1>4 DEF IInv, Books, Position
  <2> QED BY <1>3, <2>1
<1>5. ASSUME report.kind = "count" PROVE ReportedTotal = Len(args)
  BY <1>5 DEF IInv, Books, ReportedTotal
<1>6. ASSUME report.kind = "count"
      PROVE  report.failures > 0 /\ Len(args) <= report.failures + Cardinality(SettledArgs)
  BY <1>1, <1>2, <1>6 DEF IInv, Books, Position
<1> QED BY <1>3, <1>4, <1>5, <1>6 DEF ReportIsHonest

\* However many arguments a command has, and whatever fails or changes while it
\* runs: if it reports success, the cloud executed the call of each of them, and
\* if it reports n failures of m, that of m - n of them at least.
THEOREM Honesty == Spec => []ReportIsHonest
BY Invariant, BooksAreHonest, PTL

-----------------------------------------------------------------------------
(* Every step stays with its argument, leaves it behind, gives up or       *)
(* concludes.                                                              *)

\* The call of the current argument was executed in this step.
Executes == settled' = settled \cup {<<i, target>>}

StayStep == UNCHANGED <<cmd, args, i, report, settled>>

AdvanceStep ==
  /\ InLoop /\ i' = i + 1
  /\ Executes \/ (settled' = settled /\ ~(FailureKinds \subseteq cmd.fatal))
  /\ UNCHANGED <<cmd, args, report>>

StopStep ==
  /\ pc # "done" /\ report' = Error
  /\ settled' = settled \/ (InLoop /\ Executes)
  /\ UNCHANGED <<cmd, args, i>>

ConcludeStep ==
  /\ pc \in {"after", "wait"}
  /\ report' = Ok \/ report'.kind = "count"
  /\ UNCHANGED <<cmd, args, i, settled>>

\* What the failure of an argument amounts to.
LEMMA FailStep ==
  ASSUME InLoop, NEW kind \in FailureKinds, Fail(kind), UNCHANGED <<cmd, args>>,
         settled' = settled
  PROVE  AdvanceStep \/ StopStep
<1>1. CASE kind \in cmd.fatal
  BY <1>1 DEF Fail, StopStep, InLoop
<1>2. CASE kind \notin cmd.fatal
  BY <1>2 DEF Fail, Turn, AdvanceStep
<1> QED BY <1>1, <1>2

\* A call whose reply is lost: executed, and counted as a failure.
LEMMA LostReplyStep ==
  ASSUME InLoop, NEW kind, Fail(kind), UNCHANGED <<cmd, args>>, Executes
  PROVE  AdvanceStep \/ StopStep
<1>1. CASE kind \in cmd.fatal
  BY <1>1 DEF Fail, StopStep, InLoop
<1>2. CASE kind \notin cmd.fatal
  BY <1>2 DEF Fail, Turn, AdvanceStep
<1> QED BY <1>1, <1>2

LEMMA LookupSteps ==
  ASSUME Setup \/ Get \/ List \/ Confirm
  PROVE  StayStep \/ AdvanceStep \/ StopStep
<1>1. InLoop /\ UNCHANGED <<args, cmd, settled>>
  BY DEF Setup, Get, List, Confirm, InLoop, OnlyReads
<1>2. \/ UNCHANGED <<i, report>>
      \/ Return(Error)
      \/ \E kind \in FailureKinds : Fail(kind)
  <2>1. CASE Setup
    BY <2>1 DEF Setup, GoTo, FailureKinds
  <2>2. CASE Get
    BY <2>2 DEF Get, GoTo, Resolve, FailureKinds
  <2>3. CASE List
    <3> DEFINE matches == MatchedByListing(args[i])
    <3>1. CASE \E id \in Picks(matches) :
                 Resolve(id, IF cmd.lookup = "list-confirm" THEN "confirm" ELSE "call")
      BY <3>1 DEF Resolve
    <3>2. CASE Resolve(args[i], "confirm")
      BY <3>2 DEF Resolve
    <3>3. CASE Fail("missing") \/ Fail("ambiguous") \/ Fail("lookup")
      BY <3>3 DEF FailureKinds
    <3> HIDE DEF matches
    <3>4. QED BY <2>3, <3>1, <3>2, <3>3 DEF List, matches
  <2>4. CASE Confirm
    BY <2>4 DEF Confirm, GoTo, FailureKinds
  <2> QED BY <2>1, <2>2, <2>3, <2>4
<1>3. CASE UNCHANGED <<i, report>>
  BY <1>1, <1>3 DEF StayStep
<1>4. CASE Return(Error)
  BY <1>1, <1>4 DEF StopStep, Return, InLoop
<1>5. CASE \E kind \in FailureKinds : Fail(kind)
  BY <1>1, <1>5, FailStep
<1> QED BY <1>2, <1>3, <1>4, <1>5

LEMMA CallSteps ==
  ASSUME Call
  PROVE  AdvanceStep \/ StopStep
<1>1. InLoop /\ UNCHANGED <<cmd, args>>
  BY DEF Call, InLoop
<1>2. CASE Succeed /\ Executes
  BY <1>1, <1>2 DEF Succeed, Turn, AdvanceStep
<1>3. CASE Executes /\ Fail("call")
  BY <1>1, <1>3, LostReplyStep
<1>4. CASE settled' = settled /\ (Fail("call") \/ Fail("call404"))
  BY <1>1, <1>4, FailStep DEF FailureKinds
<1> QED BY <1>2, <1>3, <1>4 DEF Call, Execute, Executes

LEMMA EndSteps ==
  ASSUME AfterLoop \/ Wait
  PROVE  StayStep \/ StopStep \/ ConcludeStep
<1>1. pc \in {"after", "wait"} /\ UNCHANGED <<args, cmd, settled, i>>
  BY DEF AfterLoop, Wait, OnlyReads, GoTo, Return
<1>2. CASE GoTo("wait")
  BY <1>1, <1>2 DEF GoTo, StayStep
<1>3. CASE Return(Error)
  BY <1>1, <1>3 DEF Return, StopStep
<1>4. CASE Return(Ok)
  BY <1>1, <1>4 DEF Return, ConcludeStep
<1>5. CASE Return(Count(failures))
  BY <1>1, <1>5 DEF Return, ConcludeStep, Count
<1> QED BY <1>2, <1>3, <1>4, <1>5 DEF AfterLoop, Wait

LEMMA Steps ==
  ASSUME [Next]_vars
  PROVE  StayStep \/ AdvanceStep \/ StopStep \/ ConcludeStep
<1>1. CASE Expire \/ World \/ UNCHANGED vars
  BY <1>1 DEF Expire, World, Meddle, Reap, vars, clientVars, StayStep
<1> QED BY <1>1, LookupSteps, CallSteps, EndSteps DEF Next, Client

-----------------------------------------------------------------------------
(* First error stops.                                                      *)

\* Of a handler that returns the first error: what lies behind is done.
Prefix == cmd.fatal = FailureKinds => 1..(i - 1) \subseteq SettledArgs

LEMMA SettledGrows ==
  ASSUME settled' = settled \/ Executes
  PROVE  /\ SettledArgs \subseteq SettledArgs'
         /\ Executes => SettledArgs' = SettledArgs \cup {i}
         /\ settled' = settled => SettledArgs' = SettledArgs
<1>1. SettledArgs \subseteq SettledArgs'
  BY DEF SettledArgs, Executes
<1>2. ASSUME Executes PROVE SettledArgs' = SettledArgs \cup {i}
  <2>1. <<i, target>> \in settled' /\ <<i, target>>[1] = i
    BY <1>2 DEF Executes
  <2>2. SettledArgs' \subseteq SettledArgs \cup {i}
    BY <1>2 DEF SettledArgs, Executes
  <2>3. i \in SettledArgs'
    BY <2>1 DEF SettledArgs
  <2> QED BY <1>1, <2>2, <2>3
<1>3. ASSUME settled' = settled PROVE SettledArgs' = SettledArgs
  BY <1>3 DEF SettledArgs
<1> QED BY <1>1, <1>2, <1>3

LEMMA PrefixKept == IInv /\ Prefix /\ [Next]_vars => Prefix'
<1> SUFFICES ASSUME IInv, Prefix, [Next]_vars, (cmd.fatal = FailureKinds)'
             PROVE  (1..(i - 1))' \subseteq SettledArgs'
  BY DEF Prefix
<1>1. UNCHANGED cmd
  BY Steps DEF StayStep, AdvanceStep, StopStep, ConcludeStep
<1>2. 1..(i - 1) \subseteq SettledArgs
  BY <1>1 DEF Prefix
<1>3. CASE AdvanceStep
  <2>1. i' = i + 1 /\ i \in Nat
    BY <1>3 DEF AdvanceStep, IInv, TypeOK
  <2>2. Executes
    BY <1>1, <1>3 DEF AdvanceStep
  <2>3. SettledArgs' = SettledArgs \cup {i}
    BY <2>2, SettledGrows
  <2> QED BY <1>2, <2>1, <2>3
<1>4. CASE StayStep \/ StopStep \/ ConcludeStep
  <2>1. i' = i /\ (settled' = settled \/ Executes)
    BY <1>4 DEF StayStep, StopStep, ConcludeStep
  <2> QED BY <1>2, <2>1, SettledGrows
<1> QED BY <1>3, <1>4, Steps

\* However many arguments: a handler that returns the first error has executed
\* the call of every argument before it, and of none after it.
THEOREM StopsAtFirstError == Spec => []FirstErrorStops
<1>1. Init => Prefix
  <2> SUFFICES ASSUME Init PROVE 1..(i - 1) = {}
    BY DEF Prefix
  <2> QED BY DEF Init
<1>2. IInv /\ Prefix => FirstErrorStops
  BY DEF IInv, Books, Prefix, FirstErrorStops
<1>3. Spec => []Prefix
  BY <1>1, PrefixKept, Invariant, PTL DEF Spec
<1> QED BY <1>2, <1>3, Invariant, PTL

-----------------------------------------------------------------------------
(* The command implements its contract.                                    *)

LEMMA ContractInit == Init => Contract!Init
<1> SUFFICES ASSUME Init PROVE Contract!Init
  OBVIOUS
<1>1. Len(args) \in Nat \ {0}
  BY InitType, ArgType
<1>2. SettledArgs = {}
  BY DEF Init, SettledArgs
<1>3. i = 1 /\ [kind |-> report.kind, failures |-> report.failures] = Contract!Silent
  BY DEF Init, Running, Contract!Silent
<1> QED BY <1>1, <1>2, <1>3 DEF Contract!Init

\* Nothing has been said while the command runs.
LEMMA SilentWhileRunning ==
  ASSUME IInv, pc # "done"
  PROVE  [kind |-> report.kind, failures |-> report.failures] = Contract!Silent
BY DEF IInv, Books, Running, Contract!Silent

\* The contract's instance counts like the module itself.
LEMMA SameCount == \A S : Contract!Cardinality(S) = Cardinality(S)
BY DEF Contract!Cardinality, Cardinality

LEMMA ContractNext == IInv /\ IInv' /\ [Next]_vars => [Contract!Next]_(Contract!vars)
<1> SUFFICES ASSUME IInv, IInv', [Next]_vars
             PROVE  Contract!Next \/ UNCHANGED Contract!vars
  OBVIOUS
<1> DEFINE verdict == [kind |-> report.kind, failures |-> report.failures]
<1>1. Len(args) \in Nat /\ i \in Nat \ {0}
  BY ArgType DEF IInv, TypeOK
<1>6. ReportIsHonest' /\ (report.kind = "count" => ReportedTotal = Len(args))'
  BY BooksAreHonest, PTL
<1>2. CASE StayStep
  <2>1. SettledArgs' = SettledArgs
    BY <1>2, SettledGrows DEF StayStep
  <2> QED BY <1>2, <2>1 DEF StayStep, Contract!vars
<1>3. CASE AdvanceStep
  <2>1. i \in 1..Len(args) /\ i' = i + 1 /\ UNCHANGED <<args, report>>
    BY <1>3 DEF AdvanceStep, IInv, Position
  <2>2. verdict = Contract!Silent
    BY <1>3, SilentWhileRunning DEF AdvanceStep, InLoop
  <2>3. SettledArgs' \in {SettledArgs, SettledArgs \cup {i}}
    BY <1>3, SettledGrows DEF AdvanceStep
  <2>4. Contract!Take
    BY <1>1, <2>1, <2>2, <2>3 DEF Contract!Take
  <2> QED BY <2>4 DEF Contract!Next
<1>4. CASE StopStep
  <2>1. UNCHANGED <<args, i>> /\ report' = Error /\ pc # "done"
    BY <1>4 DEF StopStep
  <2>2. verdict = Contract!Silent
    BY <2>1, SilentWhileRunning
  <2>3. SettledArgs' \in {SettledArgs, SettledArgs \cup {i}}
    BY <1>4, SettledGrows DEF StopStep
  <2>4. SettledArgs' \subseteq 1..Len(args)
    BY <2>1 DEF IInv, Books
  <2>5. verdict' = [kind |-> "error", failures |-> 0]
    BY <2>1 DEF Error, Running
  <2>6. Contract!GiveUp
    BY <2>1, <2>2, <2>3, <2>4, <2>5 DEF Contract!GiveUp
  <2> QED BY <2>6 DEF Contract!Next
<1>5. CASE ConcludeStep
  <2>1. UNCHANGED <<args, i, settled>> /\ i = Len(args) + 1 /\ pc # "done"
    BY <1>5 DEF ConcludeStep, IInv, Position
  <2>2. verdict = Contract!Silent
    BY <2>1, SilentWhileRunning
  <2>3. SettledArgs' = SettledArgs
    BY <2>1, SettledGrows
  <2>4. CASE report'.kind = "count"
    <3>1. report'.failures \in Nat \ {0} /\ Len(args) <= report'.failures + Cardinality(SettledArgs)
      BY <1>6, <2>1, <2>3, <2>4 DEF IInv, ReportIsHonest, TypeOK
    <3>2. verdict' \in [kind : {"count"}, failures : Nat \ {0}]
      BY <2>4, <3>1
    <3> QED BY <2>1, <2>2, <2>3, <3>1, <3>2, SameCount DEF Contract!Conclude, Contract!Next
  <2>5. CASE report' = Ok
    <3>1. SettledArgs = 1..Len(args)
      BY <1>6, <2>1, <2>3, <2>5 DEF ReportIsHonest, Ok, Running
    <3>2. verdict' = [kind |-> "ok", failures |-> 0]
      BY <2>5 DEF Ok, Running
    <3> QED BY <2>1, <2>2, <2>3, <3>1, <3>2 DEF Contract!Conclude, Contract!Next
  <2> QED BY <1>5, <2>4, <2>5 DEF ConcludeStep
<1> QED BY <1>2, <1>3, <1>4, <1>5, Steps

\* Seen from outside, every run of a bulk command is a run of BulkContract.
THEOREM ImplementsContract == Spec => KeepsContract
BY Invariant, ContractInit, ContractNext, PTL DEF Spec, Contract!Spec, KeepsContract

-----------------------------------------------------------------------------
(* The end.                                                                *)

\* The steps a command may still take: some for each argument, and two for each
\* server it waits for (its deadline passes, and one more poll).
Place ==
  IF pc = "setup" THEN 0 ELSE IF pc = "get" THEN 1 ELSE IF pc = "list" THEN 2
  ELSE IF pc = "confirm" THEN 3 ELSE 4

Polls == 2 * Len(deleted)

Left ==
  IF pc = "done" THEN 0
  ELSE IF pc = "wait" THEN Polls + (IF expired THEN 0 ELSE 1)
  ELSE IF pc = "after" THEN Polls + 2
  ELSE 9 * (Len(args) + 1 - i) + Polls - Place

\* Whatever the client does is one of them; the others take none.
Shortens ==
  /\ Client \/ Expire => Left' < Left
  /\ World => Left' = Left

LEMMA LeftForms ==
  ASSUME TypeOK, Position, Awaiting
  PROVE  /\ Len(deleted) \in Nat /\ Polls = 2 * Len(deleted) /\ Left \in Nat
         /\ InLoop => Left = 9 * (Len(args) + 1 - i) + Polls - Place /\ Left >= Polls + 5
         /\ pc = "after" => Left = Polls + 2
         /\ pc = "wait" => Left >= Polls /\ Left <= Polls + 1 /\ Left >= 2 /\ Len(deleted) > 0
         /\ Place \in 0..4 /\ i \in Nat /\ Len(args) \in Nat
<1>1. Len(deleted) \in Nat /\ i \in Nat /\ Len(args) \in Nat /\ Place \in 0..4
  BY ArgType DEF TypeOK, Place
<1>2. pc = "wait" => Len(deleted) > 0
  BY DEF TypeOK, Awaiting
<1>3. CASE InLoop
  <2>1. i <= Len(args) /\ Left = 9 * (Len(args) + 1 - i) + Polls - Place
    BY <1>1, <1>3 DEF InLoop, Position, Left
  <2>. QED
    BY <1>1, <1>3, <2>1 DEF Polls, InLoop
<1>4. CASE ~InLoop
  BY <1>1, <1>2, <1>4 DEF InLoop, Left, Polls, TypeOK
<1> QED BY <1>3, <1>4

\* The next argument takes less than is left of this one.
LEMMA TurnShortens ==
  ASSUME TypeOK, Position, Awaiting, InLoop, Turn(i + 1), args' = args,
         Len(deleted') \in Nat, Len(deleted') <= Len(deleted) + 1
  PROVE  Left' < Left
<1>1. /\ Left = 9 * (Len(args) + 1 - i) + Polls - Place /\ Place \in 0..4
      /\ i \in Nat /\ Len(args) \in Nat /\ i <= Len(args) /\ Polls = 2 * Len(deleted)
      /\ Len(deleted) \in Nat /\ Polls \in Nat
  BY LeftForms DEF Position
<1>2. i' = i + 1 /\ Polls' <= Polls + 2 /\ Polls' \in Nat
  BY <1>1 DEF Turn, Polls
<1>3. CASE i + 1 > Len(args)
  <2>1. pc' = "after"
    BY <1>3 DEF Turn
  <2>2. Left' = Polls' + 2
    BY <2>1 DEF Left
  <2> QED BY <1>1, <1>2, <1>3, <2>2
<1>4. CASE ~(i + 1 > Len(args))
  <2>1. pc' \in {"setup", "call", "list", "get"}
    BY <1>4, RequestType DEF Turn
  <2>2. Left' = 9 * (Len(args) + 1 - (i + 1)) + Polls' - Place' /\ Place' \in 0..4
    BY <1>2, <2>1 DEF Left, Place
  <2>3. \A n, j, p, q \in Nat : \A x, y \in 0..4 :
          q <= p + 2 => 9 * (n + 1 - (j + 1)) + q - x < 9 * (n + 1 - j) + p - y
    OBVIOUS
  <2> QED BY <1>1, <1>2, <2>2, <2>3
<1> QED BY <1>3, <1>4

LEMMA FailShortens ==
  ASSUME TypeOK, Position, Awaiting, InLoop, NEW kind, Fail(kind), UNCHANGED <<args, deleted>>
  PROVE  Left' < Left
<1>1. CASE kind \in cmd.fatal
  <2>1. Left' = 0 /\ Left > 0
    BY <1>1, LeftForms DEF Fail, Left
  <2> QED BY <2>1
<1>2. CASE kind \notin cmd.fatal
  <2>1. Turn(i + 1) /\ Len(deleted) \in Nat
    BY <1>2, LeftForms DEF Fail
  <2> QED BY <2>1, TurnShortens
<1> QED BY <1>1, <1>2

\* A lookup goes on to a later request.
LEMMA LookupShortens ==
  ASSUME TypeOK, Position, Awaiting, Setup \/ Get \/ List \/ Confirm
  PROVE  Left' < Left
<1>1. InLoop /\ UNCHANGED <<args, deleted>>
  BY DEF Setup, Get, List, Confirm, InLoop, OnlyReads
<1>2. ASSUME pc' \in {"get", "list", "confirm", "call"}, i' = i, Place' > Place
      PROVE  Left' < Left
  <2>1. Left' = 9 * (Len(args) + 1 - i) + Polls - Place' /\ Place' \in 0..4
    BY <1>1, <1>2 DEF Left, Polls, Place
  <2>2. Left = 9 * (Len(args) + 1 - i) + Polls - Place
    BY <1>1, LeftForms
  <2>3. Len(args) \in Nat /\ i \in Nat /\ Polls \in Nat /\ Place \in 0..4
    BY LeftForms
  <2>4. \A n, j, p \in Nat : \A x, y \in 0..4 :
          x > y => 9 * (n + 1 - j) + p - x < 9 * (n + 1 - j) + p - y
    OBVIOUS
  <2> QED BY <1>2, <2>1, <2>2, <2>3, <2>4
<1>3. CASE Return(Error)
  BY <1>1, <1>3, LeftForms DEF Return, Left
<1>4. \/ pc' \in {"get", "list", "confirm", "call"} /\ i' = i /\ Place' > Place
      \/ Return(Error)
      \/ \E kind \in FailureKinds : Fail(kind)
  <2>1. CASE Setup
    BY <2>1, RequestType DEF Setup, GoTo, FailureKinds, Place
  <2>2. CASE Get
    BY <2>2 DEF Get, GoTo, Resolve, FailureKinds, Place
  <2>3. CASE List
    <3> DEFINE matches == MatchedByListing(args[i])
    <3>1. CASE \E id \in Picks(matches) :
                 Resolve(id, IF cmd.lookup = "list-confirm" THEN "confirm" ELSE "call")
      BY <2>3, <3>1 DEF List, Resolve, Place
    <3>2. CASE Resolve(args[i], "confirm")
      BY <2>3, <3>2 DEF List, Resolve, Place
    <3>3. CASE Fail("missing") \/ Fail("ambiguous") \/ Fail("lookup")
      BY <3>3 DEF FailureKinds
    <3> HIDE DEF matches
    <3>4. QED BY <2>3, <3>1, <3>2, <3>3 DEF List, matches
  <2>4. CASE Confirm
    BY <2>4 DEF Confirm, GoTo, FailureKinds, Place
  <2> QED BY <2>1, <2>2, <2>3, <2>4
<1> QED BY <1>1, <1>2, <1>3, <1>4, FailShortens

LEMMA CallShortens ==
  ASSUME TypeOK, Position, Awaiting, Call
  PROVE  Left' < Left
<1>1. InLoop /\ args' = args /\ deleted \in Seq(Values)
  BY DEF Call, InLoop, TypeOK
<1>2. CASE Succeed
  <2>1. Turn(i + 1) /\ deleted' = IF cmd.wait THEN Append(deleted, target) ELSE deleted
    BY <1>2 DEF Succeed
  <2>2. Len(deleted') \in Nat /\ Len(deleted') <= Len(deleted) + 1
    BY <1>1, <2>1
  <2> QED BY <1>1, <2>1, <2>2, TurnShortens
<1>3. CASE deleted' = deleted /\ (Fail("call") \/ Fail("call404"))
  BY <1>1, <1>3, FailShortens
<1> QED BY <1>2, <1>3 DEF Call

LEMMA EndShortens ==
  ASSUME TypeOK, Position, Awaiting, AfterLoop \/ Wait \/ Expire
  PROVE  Left' < Left
<1>1. /\ Len(deleted) \in Nat /\ Polls = 2 * Len(deleted)
      /\ pc = "after" => Left = Polls + 2
      /\ pc = "wait" => Left >= Polls /\ Left <= Polls + 1 /\ Left >= 2 /\ Len(deleted) > 0
      /\ Left \in Nat
  BY LeftForms
<1>2. CASE AfterLoop
  <2>1. pc = "after" /\ deleted' = deleted /\ (pc' = "done" \/ pc' = "wait")
    BY <1>2 DEF AfterLoop, Return, GoTo, OnlyReads
  <2>2. Left' <= Polls + 1 /\ Left' \in Nat
    BY <1>1, <2>1 DEF Left, Polls
  <2> QED BY <1>1, <2>1, <2>2
<1>3. CASE Wait
  <2>1. CASE pc' = "done"
    BY <1>1, <1>3, <2>1 DEF Wait, Left
  <2>2. CASE pc' # "done"
    <3>1. pc = "wait" /\ pc' = "wait" /\ deleted' = Tail(deleted) /\ expired' = FALSE
      BY <1>3, <2>2 DEF Wait, Return, GoTo
    <3>2. Len(deleted') = Len(deleted) - 1
      BY <1>1, <3>1 DEF TypeOK
    <3>3. Left' = 2 * Len(deleted') + 1
      BY <3>1 DEF Left, Polls
    <3> QED BY <1>1, <3>1, <3>2, <3>3
  <2> QED BY <2>1, <2>2
<1>4. CASE Expire
  BY <1>1, <1>4 DEF Expire, Left, Polls
<1> QED BY <1>2, <1>3, <1>4

\* The part of Terminates that needs no fairness: every step of the client uses
\* up one of at most nine per argument, whatever the cloud and other users do in
\* between.  (A poll that finds a server still there is not a step; the deadline
\* ends those.)
THEOREM StepsRunOut == Spec => [](Left \in 0..9 * Len(args)) /\ [][Shortens]_vars
<1>1. Init => Left <= 9 * Len(args)
  <2> SUFFICES ASSUME Init PROVE Left <= 9 * Len(args)
    OBVIOUS
  <2>1. IInv /\ InLoop
    BY InitInvariant, RequestType DEF Init, InLoop
  <2>2. Left = 9 * (Len(args) + 1 - i) + Polls - Place /\ Place \in 0..4 /\ Len(args) \in Nat
    BY <2>1, LeftForms DEF IInv
  <2>3. i = 1 /\ Polls = 0
    BY DEF Init, Polls
  <2> QED BY <2>2, <2>3
<1>2. IInv /\ [Next]_vars => [Shortens]_vars
  <2> SUFFICES ASSUME IInv PROVE Shortens
    OBVIOUS
  <2>1. TypeOK /\ Position /\ Awaiting
    BY DEF IInv
  <2>2. Client \/ Expire => Left' < Left
    BY <2>1, LookupShortens, CallShortens, EndShortens DEF Client
  <2>3. World => UNCHANGED clientVars
    BY DEF World, Meddle, Reap
  <2>4. World => Left' = Left
    BY <2>3 DEF clientVars, Left, Polls, Place
  <2> QED BY <2>2, <2>4 DEF Shortens
<1>3. IInv => Left \in Nat /\ Len(args) \in Nat
  BY LeftForms DEF IInv
<1>4. IInv' => (Left \in Nat)'
  BY <1>3, PTL
<1>5. IInv /\ IInv' /\ Left <= 9 * Len(args) /\ [Next]_vars => (Left <= 9 * Len(args))'
  <2> SUFFICES ASSUME IInv, IInv', Left <= 9 * Len(args), [Next]_vars PROVE (Left <= 9 * Len(args))'
    OBVIOUS
  <2>1. args' = args
    BY DEF Next, Client, Expire, World, Meddle, Reap, Setup, Get, List, Confirm, Call,
           AfterLoop, Wait, OnlyReads, clientVars, vars
  <2>2. Left \in Nat /\ Left' \in Nat /\ Len(args) \in Nat
    BY <1>3, <1>4
  <2>3. Left' = Left \/ Left' < Left
    <3>1. CASE UNCHANGED vars
      BY <3>1 DEF vars, clientVars, Left, Polls, Place
    <3>2. CASE Shortens /\ Next
      BY <3>2 DEF Shortens, Next
    <3> QED BY <1>2, <3>1, <3>2
  <2> QED BY <2>1, <2>2, <2>3
<1>6. IInv /\ Left <= 9 * Len(args) => Left \in 0..9 * Len(args)
  BY <1>3
<1> QED BY <1>1, <1>2, <1>5, <1>6, Invariant, PTL DEF Spec
=============================================================================
