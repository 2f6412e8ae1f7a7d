-------------------------- MODULE ServerWait_proofs --------------------------
(***************************************************************************)
(* What holds of a waiting command for any number of servers, failures and *)
(* interferences.                                                          *)
(***************************************************************************)
EXTENDS ServerWait, TLAPS

AtArgument == pc \in {"lookup", "act", "poll", "reread"}

\* While the command is at an argument, i is its position.
Position == AtArgument => i <= Len(args)

\* The operation of argument j went well, or failed without leaving a trace.
WentWell(j) == fate[j] = "succeeded" \/ (fate[j] = "failed" /\ origin[j] \in cmd.targets)

\* How the operation of the current argument stands while it is waited for:
\* the cloud works on it, offloads what it has shelved, or is through with it.
Working ==
  LET s == args[i]
  IN /\ task[s] \notin {"none", "autoOffload"} /\ fate[i] = "pending"
     /\ status[s] \in {"BUILD", "queued", origin[i]}
     /\ task[s] = "image" => status[s] = "queued"
     /\ task[s] = cmd.steps[k]

Offloading ==
  /\ task[args[i]] = "autoOffload" /\ fate[i] = "pending"
  /\ status[args[i]] = "SHELVED" /\ cmd.task

Over ==
  /\ task[args[i]] = "none"
  /\ \/ fate[i] = "succeeded"
     \/ fate[i] = "failed" /\ status[args[i]] \in Unfinished \cup {origin[i]}

Tracked == pc = "poll" /\ meddled = {} => Working \/ Offloading \/ Over

\* The arguments left behind by a handler that waits.
Behind ==
  cmd.wait /\ (showsTask \/ ~cmd.task) /\ meddled = {} =>
    /\ \A j \in 1..(i - 1) : WentWell(j)
    /\ pc = "reread" => WentWell(i)

IInv == TypeOK /\ Position /\ Tracked /\ Behind

-----------------------------------------------------------------------------
(* Types.                                                                  *)

LEMMA OutcomesType ==
  ASSUME NEW a \in Actions \cup {"autoOffload"}, NEW before \in Statuses
  PROVE  /\ Outcomes(a, before) \subseteq Statuses
         /\ FailedOutcomes(a, before) \subseteq Statuses
         /\ During(a, before) \in Statuses
<1>1. Outcomes(a, before) \subseteq Statuses
  BY DEF Outcomes, Statuses, Actions
<1>2. FailedOutcomes(a, before) \subseteq Statuses
  BY DEF FailedOutcomes, Statuses, Actions
<1>3. During(a, before) \in Statuses
  BY DEF During, Statuses
<1> QED BY <1>1, <1>2, <1>3

LEMMA HandlerFacts ==
  ASSUME TypeOK
  PROVE  /\ cmd \in HandlerRecords
         /\ Len(cmd.steps) \in 1..2
         /\ \A n \in 1..Len(cmd.steps) : cmd.steps[n] \in Actions
         /\ cmd.targets \subseteq Statuses
         /\ cmd.targets \cap Unfinished = {}
         /\ ~cmd.task => cmd.steps = <<"image">>
<1>1. cmd \in HandlerRecords
  BY HandlersAssumption DEF TypeOK
<1>2. cmd.targets \cap Unfinished = {} /\ (~cmd.task => cmd.steps = <<"image">>)
  BY HandlersAssumption DEF TypeOK
<1>3. cmd.steps \in {<<a>> : a \in Actions} \cup {<<"shelve", "shelveOffload">>}
  BY <1>1 DEF HandlerRecords
<1>4. CASE cmd.steps \in {<<a>> : a \in Actions}
  BY <1>1, <1>2, <1>4 DEF HandlerRecords
<1>5. CASE cmd.steps = <<"shelve", "shelveOffload">>
  BY <1>1, <1>2, <1>5 DEF HandlerRecords, Actions
<1> QED BY <1>3, <1>4, <1>5

LEMMA ArgumentFacts ==
  ASSUME TypeOK
  PROVE  args \in Seq(Servers) /\ Len(args) \in Nat /\ i \in Nat \ {0} /\ i <= Len(args) + 1
<1>1. args \in Seq(Servers) /\ Len(args) \in Nat
  BY DEF TypeOK
<1> QED BY <1>1 DEF TypeOK

\* What the helpers of the client write.
HandlerType ==
  /\ pc \in {"lookup", "act", "poll", "reread", "end", "done"}
  /\ i \in 1..(Len(args) + 1)
  /\ k \in 1..Len(cmd.steps)
  /\ expired \in BOOLEAN
  /\ report \in {"running", "ok", "error", "failed", "timeout"}
  /\ AtArgument => i <= Len(args)

LEMMA ReturnType ==
  ASSUME TypeOK, NEW result \in {"ok", "error", "failed", "timeout"}, Return(result),
         UNCHANGED <<args, cmd>>
  PROVE  HandlerType'
BY DEF TypeOK, Return, HandlerType, AtArgument

LEMMA GoToType ==
  ASSUME TypeOK, Position, AtArgument, NEW next \in {"act", "reread"}, GoTo(next),
         UNCHANGED <<args, cmd>>
  PROVE  HandlerType'
BY DEF TypeOK, Position, GoTo, HandlerType, AtArgument

LEMMA NextArgumentType ==
  ASSUME TypeOK, Position, AtArgument, NextArgument, UNCHANGED <<args, cmd>>
  PROVE  HandlerType'
<1>1. Len(args) \in Nat /\ i \in 1..Len(args)
  BY DEF TypeOK, Position
<1>2. i' \in 1..(Len(args) + 1) /\ (pc' = "lookup" => i' <= Len(args))
  BY <1>1 DEF NextArgument
<1>3. k' \in 1..Len(cmd'.steps)
  <2>1. Len(cmd.steps) \in 1..2
    BY HandlerFacts
  <2>2. k' = 1 /\ cmd' = cmd
    BY DEF NextArgument
  <2> QED BY <2>1, <2>2
<1> QED BY <1>2, <1>3 DEF TypeOK, NextArgument, HandlerType, AtArgument

LEMMA AfterActionType ==
  ASSUME TypeOK, Position, pc = "act", AfterAction, UNCHANGED <<args, cmd>>
  PROVE  HandlerType'
<1>1. CASE k < Len(cmd.steps)
  BY <1>1, HandlerFacts DEF AfterAction, TypeOK, Position, HandlerType, AtArgument
<1>2. CASE ~(k < Len(cmd.steps)) /\ cmd.wait
  <2>1. /\ pc' = "poll" /\ expired' = FALSE
        /\ UNCHANGED <<i, k, report>>
    BY <1>2 DEF AfterAction
  <2>2. i <= Len(args)
    BY DEF Position, AtArgument
  <2>3. expired' \in BOOLEAN
    BY <2>1
  <2>4. i' \in 1..(Len(args') + 1) /\ i' <= Len(args') /\ k' \in 1..Len(cmd'.steps)
    BY <2>1, <2>2 DEF TypeOK
  <2>5. pc' = "poll" /\ report' = report
    BY <2>1
  <2> HIDE <2>1
  <2> QED BY <2>3, <2>4, <2>5 DEF TypeOK, HandlerType
<1>3. CASE ~(k < Len(cmd.steps)) /\ ~cmd.wait
  BY <1>3, NextArgumentType DEF AfterAction, AtArgument
<1> QED BY <1>1, <1>2, <1>3

\* What the cloud and the history write.
CloudType ==
  /\ status \in [Servers -> Statuses]
  /\ task \in [Servers -> Actions \cup {"none", "autoOffload"}]
  /\ showsTask \in BOOLEAN
  /\ origin \in [1..Len(args) -> Statuses]
  /\ fate \in [1..Len(args) -> Fates]
  /\ accepted \subseteq Nat
  /\ faulted \subseteq Nat
  /\ meddled \subseteq Servers

LEMMA Typing ==
  ASSUME TypeOK, HandlerType', CloudType', UNCHANGED <<args, cmd>>
  PROVE  TypeOK' /\ Position'
BY DEF TypeOK, HandlerType, CloudType, Position

LEMMA FaultType == TypeOK /\ (Fault \/ NoFault) => faulted' \subseteq Nat
<1>1. ASSUME TypeOK, Fault PROVE faulted' \subseteq Nat
  <2>1. i \in Nat /\ faulted \subseteq Nat
    BY <1>1, ArgumentFacts DEF TypeOK
  <2> QED BY <1>1, <2>1 DEF Fault
<1>2. ASSUME TypeOK, NoFault PROVE faulted' \subseteq Nat
  BY <1>2 DEF TypeOK, NoFault
<1> QED BY <1>1, <1>2

LEMMA ReadsType ==
  ASSUME TypeOK, Fault \/ NoFault, UNCHANGED <<cloudVars, cmd, args, origin, fate, accepted>>
  PROVE  CloudType'
BY FaultType DEF TypeOK, CloudType, cloudVars

LEMMA StartType ==
  ASSUME TypeOK, Position, AtArgument, Fault \/ NoFault, Start(cmd.steps[k]),
         UNCHANGED <<cmd, args>>
  PROVE  CloudType'
<1> DEFINE action == cmd.steps[k]
<1>1. action \in Actions
  BY HandlerFacts DEF TypeOK
<1>2. i \in 1..Len(args) /\ args[i] \in Servers
  BY DEF TypeOK, Position
<1>3. status[args[i]] \in Statuses /\ During(action, status[args[i]]) \in Statuses
  BY <1>1, <1>2, OutcomesType DEF TypeOK
<1> HIDE DEF action
<1>4. Start(action)
  BY DEF action
<1>5. status' \in [Servers -> Statuses]
  BY <1>2, <1>3, <1>4 DEF Start, TypeOK
<1>6. task' \in [Servers -> Actions \cup {"none", "autoOffload"}]
  BY <1>1, <1>2, <1>4 DEF Start, TypeOK
<1>7. origin' \in [1..Len(args) -> Statuses]
  BY <1>2, <1>3, <1>4 DEF Start, TypeOK
<1>8. fate' \in [1..Len(args) -> Fates]
  BY <1>2, <1>4 DEF Start, TypeOK, Fates
<1>9. accepted' \subseteq Nat
  BY <1>2, <1>4 DEF Start, TypeOK
<1>10. showsTask' \in BOOLEAN /\ meddled' \subseteq Servers
  BY <1>4 DEF Start, TypeOK
<1> QED BY <1>5, <1>6, <1>7, <1>8, <1>9, <1>10, FaultType DEF CloudType

LEMMA LookupType == TypeOK /\ Position /\ Lookup => TypeOK' /\ Position'
<1> SUFFICES ASSUME TypeOK, Position, Lookup PROVE TypeOK' /\ Position'
  OBVIOUS
<1>1. HandlerType'
  BY GoToType, ReturnType DEF Lookup, AtArgument
<1>2. CloudType'
  BY ReadsType DEF Lookup
<1> QED BY <1>1, <1>2, Typing DEF Lookup

LEMMA ActType == TypeOK /\ Position /\ Act => TypeOK' /\ Position'
<1> SUFFICES ASSUME TypeOK, Position, Act PROVE TypeOK' /\ Position'
  OBVIOUS
<1>1. HandlerType'
  BY AfterActionType, ReturnType DEF Act
<1>2. CloudType'
  BY StartType, ReadsType DEF Act, AtArgument
<1> QED BY <1>1, <1>2, Typing DEF Act

\* The ways a poll ends.
LEMMA PollForms ==
  ASSUME Poll
  PROVE  /\ pc = "poll" /\ (Fault \/ NoFault)
         /\ UNCHANGED <<cloudVars, cmd, args, origin, fate, accepted>>
         /\ \/ Return("error") \/ Return("failed") \/ Return("timeout")
            \/ \E shown \in Shown(args[i]) :
                 Reached(args[i], shown) /\ (IF cmd.reread THEN GoTo("reread") ELSE NextArgument)
            \/ UNCHANGED <<pc, i, k, expired, report>>
<1>1. pc = "poll" /\ UNCHANGED <<cloudVars, cmd, args, origin, fate, accepted>>
  BY Zenon DEF Poll
<1>2. Fault \/ NoFault
  BY Zenon DEF Poll
<1>3. \/ Return("error") \/ Return("failed") \/ Return("timeout")
      \/ \E shown \in Shown(args[i]) :
           Reached(args[i], shown) /\ (IF cmd.reread THEN GoTo("reread") ELSE NextArgument)
      \/ UNCHANGED <<pc, i, k, expired, report>>
  BY Zenon DEF Poll
<1> QED BY <1>1, <1>2, <1>3

LEMMA PollType == TypeOK /\ Position /\ Poll => TypeOK' /\ Position'
<1> SUFFICES ASSUME TypeOK, Position, Poll PROVE TypeOK' /\ Position'
  OBVIOUS
<1>1. AtArgument /\ UNCHANGED <<args, cmd>>
  BY PollForms DEF AtArgument
<1>2. HandlerType'
  <2>1. CASE UNCHANGED <<pc, i, k, expired, report>>
    BY <1>1, <2>1 DEF TypeOK, Position, HandlerType, AtArgument
  <2>2. CASE Return("error") \/ Return("failed") \/ Return("timeout")
    BY <1>1, <2>2, ReturnType
  <2>3. CASE GoTo("reread") \/ NextArgument
    BY <1>1, <2>3, GoToType, NextArgumentType
  <2> QED BY <2>1, <2>2, <2>3, PollForms
<1>3. CloudType'
  BY PollForms, ReadsType
<1> QED BY <1>1, <1>2, <1>3, Typing

LEMMA RereadType == TypeOK /\ Position /\ Reread => TypeOK' /\ Position'
<1> SUFFICES ASSUME TypeOK, Position, Reread PROVE TypeOK' /\ Position'
  OBVIOUS
<1>1. HandlerType'
  BY NextArgumentType, ReturnType DEF Reread, AtArgument
<1>2. CloudType'
  BY ReadsType DEF Reread
<1> QED BY <1>1, <1>2, Typing DEF Reread

LEMMA EndType == TypeOK /\ Position /\ End => TypeOK' /\ Position'
<1> SUFFICES ASSUME TypeOK, Position, End PROVE TypeOK' /\ Position'
  OBVIOUS
<1>1. HandlerType'
  BY ReturnType DEF End
<1>2. CloudType'
  BY DEF End, TypeOK, CloudType, cloudVars
<1> QED BY <1>1, <1>2, Typing DEF End

LEMMA ExpireType == TypeOK /\ Position /\ Expire => TypeOK' /\ Position'
BY DEF TypeOK, Position, Expire, cloudVars, AtArgument

LEMMA FinishType ==
  ASSUME TypeOK, Position, NEW s \in Servers, Finish(s)
  PROVE  TypeOK' /\ Position'
<1>1. task[s] \in Actions \cup {"autoOffload"} /\ status[s] \in Statuses
  BY DEF Finish, TypeOK
<1>2. Outcomes(task[s], status[s]) \subseteq Statuses /\ FailedOutcomes(task[s], status[s]) \subseteq Statuses
  BY <1>1, OutcomesType
<1>3. status' \in [Servers -> Statuses]
  BY <1>2 DEF Finish, TypeOK
<1>4. task' \in [Servers -> Actions \cup {"none", "autoOffload"}]
  BY DEF Finish, TypeOK
<1>5. fate' \in [1..Len(args) -> Fates]
  BY DEF Finish, Settle, TypeOK, Fates
<1> QED BY <1>3, <1>4, <1>5 DEF TypeOK, Position, Finish, clientVars, AtArgument

LEMMA MeddleType ==
  ASSUME TypeOK, Position, NEW s \in Servers, Meddle(s)
  PROVE  TypeOK' /\ Position'
<1>1. status' \in [Servers -> Statuses]
  BY DEF Meddle, TypeOK, Statuses
<1>2. task' \in [Servers -> Actions \cup {"none", "autoOffload"}]
  BY DEF Meddle, TypeOK, Actions
<1> QED BY <1>1, <1>2 DEF TypeOK, Position, Meddle, clientVars, AtArgument

LEMMA NextType == TypeOK /\ Position /\ [Next]_vars => TypeOK' /\ Position'
<1> SUFFICES ASSUME TypeOK, Position, [Next]_vars PROVE TypeOK' /\ Position'
  OBVIOUS
<1>1. CASE UNCHANGED vars
  BY <1>1 DEF TypeOK, Position, vars, cloudVars, clientVars, AtArgument
<1> QED BY <1>1, LookupType, ActType, PollType, RereadType, EndType, ExpireType,
           FinishType, MeddleType DEF Next, Client, World

LEMMA InitType == Init => TypeOK /\ Position
<1> SUFFICES ASSUME Init PROVE TypeOK /\ Position
  OBVIOUS
<1>1. args \in Seq(Servers) \ {<<>>} /\ Len(args) \in Nat \ {0}
  <2>1. PICK n \in 1..(IF cmd.many THEN MaxArguments ELSE 1) : args \in [1..n -> Servers]
    BY DEF Init
  <2>2. n \in Nat \ {0}
    BY BoundsAssumption
  <2>3. args \in Seq(Servers) /\ Len(args) = n
    BY <2>1, <2>2
  <2> QED BY <2>2, <2>3
<1>2. InitialStatuses(cmd.steps[1]) \subseteq Statuses
  BY DEF InitialStatuses, Statuses
<1>3. cmd \in HandlerRecords /\ 1 \in 1..Len(cmd.steps)
  <2>1. cmd \in HandlerRecords
    BY HandlersAssumption DEF Init
  <2>2. cmd.steps \in {<<a>> : a \in Actions} \cup {<<"shelve", "shelveOffload">>}
    BY <2>1 DEF HandlerRecords
  <2> QED BY <2>1, <2>2
<1>4. status \in [Servers -> Statuses] /\ origin \in [1..Len(args) -> Statuses]
  BY <1>2 DEF Init, Statuses
<1>5. fate \in [1..Len(args) -> Fates] /\ task \in [Servers -> Actions \cup {"none", "autoOffload"}]
  BY DEF Init, Fates
<1>6. i \in 1..(Len(args) + 1) /\ i <= Len(args) /\ k \in 1..Len(cmd.steps)
  BY <1>1, <1>3 DEF Init
<1>7. expired \in BOOLEAN /\ showsTask \in BOOLEAN /\ cmd \in Handlers
  BY DEF Init
<1> QED BY <1>1, <1>4, <1>5, <1>6, <1>7 DEF Init, TypeOK, Position

\* Every variable of a run of a waiting command keeps to its type.
THEOREM TypeCorrect == Spec => []TypeOK
<1>1. Spec => [](TypeOK /\ Position)
  BY InitType, NextType, PTL DEF Spec
<1> QED BY <1>1, PTL

-----------------------------------------------------------------------------
(* A handler that waits leaves behind what went well.                      *)

LEMMA FinishKeepsWentWell ==
  ASSUME TypeOK, NEW s \in Servers, Finish(s), NEW j \in 1..Len(args), WentWell(j)
  PROVE  WentWell(j)'
<1>1. fate[j] \in {"succeeded", "failed"} /\ fate \in [1..Len(args) -> Fates]
  BY DEF WentWell, TypeOK
<1>2. fate'[j] = fate[j]
  <2>1. ASSUME NEW end, Settle(s, end) PROVE fate'[j] = fate[j]
    BY <1>1, <2>1 DEF Settle
  <2> QED BY <2>1 DEF Finish
<1>3. UNCHANGED <<origin, cmd>>
  BY DEF Finish, clientVars
<1> QED BY <1>2, <1>3 DEF WentWell

LEMMA FinishBehind ==
  ASSUME IInv, NEW s \in Servers, Finish(s)
  PROVE  Behind'
<1>1. UNCHANGED <<cmd, showsTask, meddled, i, pc, args>>
  BY DEF Finish, clientVars
<1>2. Len(args) \in Nat /\ i \in Nat \ {0} /\ i <= Len(args) + 1 /\ (pc = "reread" => i <= Len(args))
  BY ArgumentFacts DEF IInv, Position, AtArgument
<1>3. \A j \in 1..Len(args) : WentWell(j) => WentWell(j)'
  BY FinishKeepsWentWell DEF IInv
<1>4. (pc = "reread" /\ WentWell(i)) => WentWell(i)'
  BY <1>1, <1>2, <1>3 DEF WentWell
<1> QED BY <1>1, <1>2, <1>3, <1>4 DEF IInv, Behind, WentWell

LEMMA FinishTracked ==
  ASSUME IInv, NEW s \in Servers, Finish(s)
  PROVE  Tracked'
<1> SUFFICES ASSUME pc' = "poll", meddled' = {}
             PROVE  (Working \/ Offloading \/ Over)'
  BY DEF Tracked
<1>1. /\ UNCHANGED <<cmd, showsTask, meddled, i, k, pc, args, origin>>
      /\ pc = "poll" /\ meddled = {}
  BY DEF Finish, clientVars
<1>2. i \in 1..Len(args) /\ args[i] \in Servers /\ fate \in [1..Len(args) -> Fates]
      /\ status \in [Servers -> Statuses]
      /\ task \in [Servers -> Actions \cup {"none", "autoOffload"}]
  BY <1>1, ArgumentFacts DEF IInv, Position, AtArgument, TypeOK
<1>3. Working \/ Offloading \/ Over
  BY <1>1 DEF IInv, Tracked
<1>4. CASE s # args[i]
  <2>1. status'[args[i]] = status[args[i]] /\ task'[args[i]] = task[args[i]]
    BY <1>2, <1>4 DEF Finish
  <2>2. fate'[i] = fate[i]
    BY <1>2, <1>4 DEF Finish, Settle
  <2> QED BY <1>1, <1>3, <2>1, <2>2 DEF Working, Offloading, Over
<1>5. CASE s = args[i]
  <2>1. task[s] # "none" /\ fate[i] = "pending" /\ (Working \/ Offloading)
    BY <1>3, <1>5 DEF Finish, Working, Offloading, Over
  <2>2. ASSUME NEW end, Settle(s, end) PROVE fate'[i] = end
    BY <1>2, <1>5, <2>1, <2>2 DEF Settle
  <2>3. CASE task'[s] = "none" /\ Settle(s, "succeeded")
    BY <1>1, <1>5, <2>2, <2>3 DEF Over
  <2>4. CASE /\ task[s] = "shelve" /\ task'[s] = "autoOffload" /\ UNCHANGED fate
             /\ status'[s] \in Outcomes(task[s], status[s])
    <3>1. status'[s] = "SHELVED" /\ fate'[i] = "pending"
      BY <2>1, <2>4 DEF Outcomes
    <3>2. Working /\ "shelve" = cmd.steps[k]
      BY <1>5, <2>1, <2>4 DEF Working, Offloading
    <3>3. cmd.task
      BY <3>2, HandlerFacts DEF IInv, TypeOK
    <3> QED BY <1>1, <1>5, <2>4, <3>1, <3>3 DEF Offloading
  <2>5. CASE /\ task'[s] = "none" /\ status'[s] \in FailedOutcomes(task[s], status[s])
             /\ Settle(s, IF task[s] = "autoOffload" /\ status'[s] = "SHELVED" THEN "succeeded" ELSE "failed")
    <3>1. CASE Offloading
      <4>1. status'[s] \in {"ERROR", "SHELVED"} /\ task[s] = "autoOffload"
        BY <1>5, <2>5, <3>1 DEF FailedOutcomes, Offloading
      <4>2. fate'[i] = "succeeded" \/ (fate'[i] = "failed" /\ status'[s] = "ERROR")
        BY <2>2, <2>5, <4>1
      <4> QED BY <1>1, <1>5, <2>5, <4>2 DEF Over, Unfinished
    <3>2. CASE Working
      <4>1. fate'[i] = "failed"
        BY <1>5, <2>2, <2>5, <3>2 DEF Working
      <4>2. status'[s] \in Unfinished \cup {origin[i]}
        BY <1>5, <2>5, <3>2 DEF Working, FailedOutcomes, Unfinished
      <4> QED BY <1>1, <1>5, <2>5, <4>1, <4>2 DEF Over
    <3> QED BY <2>1, <3>1, <3>2
  <2>6. \/ task'[s] = "none" /\ Settle(s, "succeeded")
        \/ /\ task[s] = "shelve" /\ task'[s] = "autoOffload" /\ UNCHANGED fate
           /\ status'[s] \in Outcomes(task[s], status[s])
        \/ /\ task'[s] = "none" /\ status'[s] \in FailedOutcomes(task[s], status[s])
           /\ Settle(s, IF task[s] = "autoOffload" /\ status'[s] = "SHELVED" THEN "succeeded" ELSE "failed")
    BY <1>2 DEF Finish
  <2> QED BY <2>3, <2>4, <2>5, <2>6
<1> QED BY <1>4, <1>5

\* Another user's step ends what is promised.
LEMMA MeddleKeeps ==
  ASSUME NEW s \in Servers, Meddle(s)
  PROVE  Tracked' /\ Behind'
<1>1. meddled' # {}
  BY DEF Meddle
<1> QED BY <1>1 DEF Tracked, Behind

LEMMA StartTracked ==
  ASSUME IInv, pc = "act", Start(cmd.steps[k]), UNCHANGED <<cmd, args, i, k>>
  PROVE  Working'
<1> DEFINE action == cmd.steps[k]
<1>1. i \in 1..Len(args) /\ args[i] \in Servers
  BY ArgumentFacts DEF IInv, Position, AtArgument, TypeOK
<1>2. action \in Actions /\ action \notin {"none", "autoOffload"}
  BY HandlerFacts DEF IInv, TypeOK, Actions
<1>3. /\ task' = [task EXCEPT ![args[i]] = action]
      /\ status' = [status EXCEPT ![args[i]] = During(action, status[args[i]])]
      /\ origin' = [origin EXCEPT ![i] = status[args[i]]]
      /\ fate' = [fate EXCEPT ![i] = "pending"]
  BY <1>1 DEF Start, IInv, TypeOK
<1>4. task'[args[i]] = action /\ fate'[i] = "pending" /\ origin'[i] = status[args[i]]
  BY <1>1, <1>3 DEF IInv, TypeOK
<1>5. status'[args[i]] = During(action, status[args[i]])
  BY <1>1, <1>3 DEF IInv, TypeOK
<1> QED BY <1>2, <1>4, <1>5 DEF Working, During

\* An action of the client that does not start anything leaves the past alone.
LEMMA PastKept ==
  ASSUME IInv, Behind, UNCHANGED <<showsTask, meddled, cmd, origin, fate>>,
         \/ i' = i /\ pc' # "reread"
         \/ i' = i /\ pc' = pc
         \/ /\ pc' # "reread" \/ i' = i
            /\ i' \in {i, i + 1}
            /\ cmd.wait /\ (showsTask \/ ~cmd.task) /\ meddled = {} => WentWell(i)
  PROVE  Behind'
BY ArgumentFacts DEF IInv, Behind, WentWell

LEMMA LookupWaits == IInv /\ Lookup => Tracked' /\ Behind'
<1> SUFFICES ASSUME IInv, Lookup PROVE Tracked' /\ Behind'
  OBVIOUS
<1>1. UNCHANGED <<showsTask, meddled, cmd, origin, fate>> /\ i' = i /\ pc' \in {"act", "done"}
  BY DEF Lookup, GoTo, Return, cloudVars
<1>2. Behind'
  BY <1>1, PastKept DEF IInv
<1> QED BY <1>1, <1>2 DEF Tracked

LEMMA ActWaits == IInv /\ Act => Tracked' /\ Behind'
<1> SUFFICES ASSUME IInv, Act PROVE Tracked' /\ Behind'
  OBVIOUS
<1>1. pc = "act" /\ UNCHANGED <<cmd, args>> /\ i \in Nat \ {0}
  BY ArgumentFacts DEF Act, IInv
<1>2. CASE Return("error") /\ UNCHANGED <<cloudVars, origin, fate, accepted>>
  <2>1. UNCHANGED <<showsTask, meddled, cmd, origin, fate>> /\ i' = i /\ pc' = "done"
    BY <1>1, <1>2 DEF Return, cloudVars
  <2> QED BY <2>1, PastKept DEF IInv, Tracked
<1>3. ASSUME Start(cmd.steps[k]), i' = i, pc' \in {"act", "poll", "done"}
      PROVE  Behind'
  <2>1. UNCHANGED <<showsTask, meddled, cmd>>
    BY <1>1, <1>3 DEF Start
  <2>2. \A j \in 1..(i - 1) : fate'[j] = fate[j] /\ origin'[j] = origin[j]
    BY <1>1, <1>3, ArgumentFacts DEF Start, IInv, TypeOK
  <2> QED BY <1>1, <1>3, <2>1, <2>2 DEF IInv, Behind, WentWell
<1>4. CASE Start(cmd.steps[k]) /\ Return("error")
  <2>1. i' = i /\ pc' = "done"
    BY <1>4 DEF Return
  <2> QED BY <1>3, <1>4, <2>1 DEF Tracked
<1>5. CASE Start(cmd.steps[k]) /\ AfterAction
  <2>1. CASE k < Len(cmd.steps)
    <3>1. i' = i /\ pc' = "act"
      BY <1>1, <1>5, <2>1 DEF AfterAction
    <3> QED BY <1>3, <1>5, <3>1 DEF Tracked
  <2>2. CASE ~(k < Len(cmd.steps)) /\ cmd.wait
    <3>1. i' = i /\ k' = k /\ pc' = "poll"
      BY <1>5, <2>2 DEF AfterAction
    <3>2. Working'
      BY <1>1, <1>5, <3>1, StartTracked
    <3> QED BY <1>3, <1>5, <3>1, <3>2 DEF Tracked
  <2>3. CASE ~(k < Len(cmd.steps)) /\ ~cmd.wait
    <3>1. pc' \in {"lookup", "end"} /\ ~cmd'.wait
      BY <1>1, <1>5, <2>3 DEF AfterAction, NextArgument
    <3> QED BY <3>1 DEF Tracked, Behind
  <2> QED BY <2>1, <2>2, <2>3
<1>6. \/ Return("error") /\ UNCHANGED <<cloudVars, origin, fate, accepted>>
      \/ Start(cmd.steps[k]) /\ Return("error")
      \/ Start(cmd.steps[k]) /\ AfterAction
  BY Zenon DEF Act
<1> QED BY <1>2, <1>4, <1>5, <1>6

\* What a poll takes for the end of the operation is its end.
LEMMA ReachedWentWell ==
  ASSUME IInv, pc = "poll", meddled = {}, showsTask \/ ~cmd.task,
         NEW shown \in Shown(args[i]), Reached(args[i], shown)
  PROVE  WentWell(i)
<1> DEFINE s == args[i]
<1>1. s \in Servers /\ status[s] \in Statuses
  BY ArgumentFacts DEF IInv, Position, AtArgument, TypeOK
<1>2. shown \in Statuses /\ shown \notin Unfinished /\ shown = status[s]
  <2>1. shown \in cmd.targets /\ shown \in {status[s], "BUSY"}
    BY DEF Reached, Shown
  <2> QED BY <2>1, HandlerFacts DEF IInv, Statuses
<1>3. Working \/ Offloading \/ Over
  BY DEF IInv, Tracked
<1>4. CASE Over
  BY <1>2, <1>4 DEF Over, WentWell, Reached
<1>5. CASE Working \/ Offloading
  <2>1. task[s] # "none"
    BY <1>5 DEF Working, Offloading
  <2>2. ~cmd.task
    BY <2>1 DEF Reached, serverRawTaskStateCleared
  <2>3. Working /\ cmd.steps = <<"image">> /\ k = 1
    BY <1>5, <2>2, HandlerFacts DEF IInv, TypeOK, Offloading
  <2>4. status[s] = "queued"
    BY <2>3 DEF Working
  <2> QED BY <1>2, <2>4 DEF Unfinished
<1> QED BY <1>3, <1>4, <1>5

LEMMA PollWaits == IInv /\ Poll => Tracked' /\ Behind'
<1> SUFFICES ASSUME IInv, Poll PROVE Tracked' /\ Behind'
  OBVIOUS
<1>1. pc = "poll" /\ UNCHANGED <<status, task, showsTask, meddled, cmd, args, origin, fate>>
  BY PollForms DEF cloudVars
<1>2. CASE Return("error") \/ Return("failed") \/ Return("timeout")
  <2>1. i' = i /\ pc' = "done"
    BY <1>2 DEF Return
  <2> QED BY <1>1, <2>1, PastKept DEF IInv, Tracked
<1>3. CASE UNCHANGED <<pc, i, k, expired, report>>
  <2>1. Behind'
    BY <1>1, <1>3, PastKept DEF IInv
  <2> QED BY <1>1, <1>3, <2>1 DEF IInv, Tracked, Working, Offloading, Over
<1>4. ASSUME NEW shown \in Shown(args[i]), Reached(args[i], shown),
             IF cmd.reread THEN GoTo("reread") ELSE NextArgument
      PROVE  Tracked' /\ Behind'
  <2>1. cmd.wait /\ (showsTask \/ ~cmd.task) /\ meddled = {} => WentWell(i)
    BY <1>1, <1>4, ReachedWentWell
  <2>2. \/ pc' = "reread" /\ i' = i
        \/ pc' \in {"lookup", "end"} /\ i' = i + 1
    BY <1>4 DEF GoTo, NextArgument
  <2>3. Behind'
    BY <1>1, <2>1, <2>2, PastKept DEF IInv
  <2> QED BY <2>2, <2>3 DEF Tracked
<1> QED BY <1>2, <1>3, <1>4, PollForms

LEMMA RereadWaits == IInv /\ Reread => Tracked' /\ Behind'
<1> SUFFICES ASSUME IInv, Reread PROVE Tracked' /\ Behind'
  OBVIOUS
<1>1. pc = "reread" /\ UNCHANGED <<showsTask, meddled, cmd, origin, fate>>
  BY DEF Reread, cloudVars
<1>2. \/ pc' = "done" /\ i' = i
      \/ pc' \in {"lookup", "end"} /\ i' = i + 1
  BY DEF Reread, NextArgument, Return
<1>3. cmd.wait /\ (showsTask \/ ~cmd.task) /\ meddled = {} => WentWell(i)
  BY <1>1 DEF IInv, Behind
<1>4. Behind'
  BY <1>1, <1>2, <1>3, PastKept DEF IInv
<1> QED BY <1>2, <1>4 DEF Tracked

LEMMA EndWaits == IInv /\ End => Tracked' /\ Behind'
<1> SUFFICES ASSUME IInv, End PROVE Tracked' /\ Behind'
  OBVIOUS
<1>1. UNCHANGED <<showsTask, meddled, cmd, origin, fate>> /\ i' = i /\ pc' = "done"
  BY DEF End, Return, cloudVars
<1> QED BY <1>1, PastKept DEF IInv, Tracked

LEMMA QuietWaits ==
  ASSUME IInv, UNCHANGED <<status, task, showsTask, meddled, cmd, args, origin, fate, pc, i, k>>
  PROVE  Tracked' /\ Behind'
<1>1. Behind'
  BY PastKept DEF IInv
<1> QED BY <1>1 DEF IInv, Tracked, Working, Offloading, Over

LEMMA NextKeeps == IInv /\ [Next]_vars => IInv'
<1> SUFFICES ASSUME IInv, [Next]_vars PROVE IInv'
  OBVIOUS
<1>1. TypeOK' /\ Position'
  BY NextType DEF IInv
<1>2. Tracked' /\ Behind'
  <2>1. CASE UNCHANGED vars
    BY <2>1, QuietWaits DEF vars, cloudVars, clientVars
  <2>2. CASE Expire
    BY <2>2, QuietWaits DEF Expire, cloudVars
  <2>3. CASE Client
    BY <2>3, LookupWaits, ActWaits, PollWaits, RereadWaits, EndWaits DEF Client
  <2>4. CASE World
    BY <2>4, FinishTracked, FinishBehind, MeddleKeeps DEF World
  <2> QED BY <2>1, <2>2, <2>3, <2>4 DEF Next
<1> QED BY <1>1, <1>2 DEF IInv

LEMMA InitKeeps == Init => IInv
<1> SUFFICES ASSUME Init PROVE IInv
  OBVIOUS
<1>1. TypeOK /\ Position
  BY InitType
<1>2. Tracked /\ Behind
  BY DEF Init, Tracked, Behind
<1> QED BY <1>1, <1>2 DEF IInv

\* A handler that waits goes on, and in the end reports success, only when the
\* operation it started has succeeded, or has failed without leaving a trace.
THEOREM WaitedSucceed == Spec => []WaitedOperationsSucceeded
<1>1. IInv => WaitedOperationsSucceeded
  BY DEF IInv, Behind, WaitedOperationsSucceeded, WentWell
<1> QED BY <1>1, InitKeeps, NextKeeps, PTL DEF Spec
-----------------------------------------------------------------------------
(* What a poll reports to have failed, has failed; what it gives up on, is *)
(* not there.                                                              *)

\* Where operations that succeed leave a server or an image.
Completed ==
  {"ACTIVE", "SHUTOFF", "VERIFY_RESIZE", "SHELVED", "SHELVED_OFFLOADED", "active"}

Landed ==
  pc = "poll" /\ meddled = {} /\ fate[i] = "succeeded" => status[args[i]] \in Completed

Verdict ==
  /\ report \in {"failed", "timeout"} => pc = "done"
  /\ FailureIsReal /\ DeadlineIsLast

VInv == IInv /\ Landed /\ Verdict

LEMMA OutcomesComplete ==
  ASSUME NEW a \in Actions \cup {"autoOffload"}, NEW before
  PROVE  Outcomes(a, before) \subseteq Completed
BY DEF Outcomes, Actions, Completed

LEMMA FinishLands ==
  ASSUME IInv, Landed, NEW s \in Servers, Finish(s)
  PROVE  Landed'
<1> SUFFICES ASSUME pc = "poll", meddled = {}, fate'[i] = "succeeded"
             PROVE  status'[args[i]] \in Completed
  BY DEF Landed, Finish, clientVars
<1>1. i \in 1..Len(args) /\ args[i] \in Servers /\ fate \in [1..Len(args) -> Fates]
      /\ status \in [Servers -> Statuses]
      /\ task \in [Servers -> Actions \cup {"none", "autoOffload"}]
  BY ArgumentFacts DEF IInv, Position, AtArgument, TypeOK
<1>2. ASSUME NEW end, Settle(s, end)
      PROVE  fate'[i] = IF args[i] = s /\ fate[i] = "pending" THEN end ELSE fate[i]
  BY <1>1, <1>2 DEF Settle
<1>3. CASE fate[i] = "succeeded"
  <2>1. task[args[i]] = "none"
    BY <1>3 DEF IInv, Tracked, Working, Offloading, Over
  <2>2. status'[args[i]] = status[args[i]]
    BY <1>1, <2>1 DEF Finish
  <2>. QED
    BY <1>3, <2>2 DEF Landed
<1>4. CASE fate[i] # "succeeded"
  <2>1. CASE /\ status'[s] \in Outcomes(task[s], status[s]) /\ task[s] # "none"
             /\ Settle(s, "succeeded") \/ UNCHANGED fate
    BY <1>1, <1>2, <1>4, <2>1, OutcomesComplete
  <2>2. CASE Settle(s, IF task[s] = "autoOffload" /\ status'[s] = "SHELVED" THEN "succeeded" ELSE "failed")
    BY <1>2, <1>4, <2>2 DEF Completed
  <2>. QED
    BY <1>1, <2>1, <2>2 DEF Finish
<1>. QED
  BY <1>3, <1>4

\* What a poll takes for a failure is one, or was there before.
LEMMA FailingFailed ==
  ASSUME IInv, Landed, pc = "poll", meddled = {}, origin[i] \notin cmd.failures,
         NEW shown \in Shown(args[i]), Failing(shown)
  PROVE  fate[i] = "failed"
<1>1. cmd.failures \subseteq {"ERROR", "killed", "deleted"}
  BY HandlersAssumption DEF IInv, TypeOK
<1>2. status[args[i]] \in cmd.failures
  BY <1>1 DEF Failing, Shown
<1>3. Working \/ Offloading \/ Over
  BY DEF IInv, Tracked
<1>4. ~Working /\ ~Offloading
  BY <1>1, <1>2 DEF Working, Offloading
<1>5. fate[i] # "succeeded"
  BY <1>1, <1>2 DEF Landed, Completed
<1>. QED
  BY <1>3, <1>4, <1>5 DEF Over

\* A target that is there is reached.
LEMMA ThereIsReached ==
  ASSUME NEW shown \in Shown(args[i]), ~Reached(args[i], shown)
  PROVE  ~(task[args[i]] = "none" /\ status[args[i]] \in cmd.targets)
BY DEF Shown, Reached, serverRawTaskStateCleared

\* What a poll may return.
LEMMA PollReturns ==
  ASSUME Poll, report \notin {"failed", "timeout"}
  PROVE  /\ report' = "failed" => \E shown \in Shown(args[i]) : Failing(shown)
         /\ report' = "timeout" => \E shown \in Shown(args[i]) : ~Reached(args[i], shown)
         /\ report' \in {"failed", "timeout"} => pc' = "done" /\ i' = i
<1>1. CASE Return("error") \/ UNCHANGED <<pc, i, k, expired, report>>
  BY <1>1 DEF Return
<1>2. ASSUME NEW shown \in Shown(args[i]), Reached(args[i], shown),
             IF cmd.reread THEN GoTo("reread") ELSE NextArgument
      PROVE  report' = report
  BY <1>2 DEF GoTo, NextArgument
<1>3. ASSUME NEW shown \in Shown(args[i]), Failing(shown), Return("failed")
      PROVE  report' = "failed" /\ pc' = "done" /\ i' = i
  BY <1>3 DEF Return
<1>4. ASSUME NEW shown \in Shown(args[i]), ~Reached(args[i], shown), Return("timeout")
      PROVE  report' = "timeout" /\ pc' = "done" /\ i' = i
  BY <1>4 DEF Return
<1>5. \/ Return("error") \/ UNCHANGED <<pc, i, k, expired, report>>
      \/ \E shown \in Shown(args[i]) :
           Reached(args[i], shown) /\ (IF cmd.reread THEN GoTo("reread") ELSE NextArgument)
      \/ \E shown \in Shown(args[i]) : Failing(shown) /\ Return("failed")
      \/ \E shown \in Shown(args[i]) : ~Reached(args[i], shown) /\ Return("timeout")
  BY Zenon DEF Poll
<1>. QED
  BY <1>1, <1>2, <1>3, <1>4, <1>5

LEMMA PollJudges ==
  ASSUME VInv, Poll
  PROVE  Landed' /\ Verdict'
<1>1. pc = "poll" /\ UNCHANGED <<status, task, showsTask, meddled, cmd, args, origin, fate>>
  BY PollForms DEF cloudVars
<1>2. report \notin {"failed", "timeout"}
  BY <1>1 DEF VInv, Verdict
<1>3. Landed'
  <2>1. pc' # "poll" \/ UNCHANGED <<pc, i>>
    BY PollForms DEF Return, GoTo, NextArgument
  <2>. QED
    BY <1>1, <2>1 DEF VInv, Landed
<1>4. FailureIsReal'
  BY <1>1, <1>2, PollReturns, FailingFailed DEF VInv, FailureIsReal
<1>5. DeadlineIsLast'
  BY <1>1, <1>2, PollReturns, ThereIsReached DEF VInv, DeadlineIsLast
<1>. QED
  BY <1>2, <1>3, <1>4, <1>5, PollReturns DEF Verdict

\* The other steps of the client judge nothing; a wait begins with its operation.
LEMMA ClientJudges ==
  ASSUME VInv, Lookup \/ Act \/ Reread \/ End \/ Expire
  PROVE  Landed' /\ Verdict'
<1>1. pc # "done" /\ report \notin {"failed", "timeout"}
  BY DEF VInv, Verdict, Lookup, Act, Reread, End, Expire
<1>2. report' \notin {"failed", "timeout"}
  BY <1>1 DEF Lookup, Act, Reread, End, Expire, Return, GoTo, NextArgument, AfterAction
<1>3. ASSUME Lookup \/ Reread \/ End PROVE Landed'
  BY <1>3 DEF Lookup, Reread, End, Return, GoTo, NextArgument, Landed
<1>4. ASSUME Expire PROVE Landed'
  BY <1>4 DEF Expire, cloudVars, VInv, Landed
<1>5. ASSUME Act PROVE Landed'
  <2>1. CASE Return("error")
    BY <2>1 DEF Return, Landed
  <2>2. CASE Start(cmd.steps[k]) /\ AfterAction
    <3>1. pc' = "poll" => i' = i
      BY <1>5, <2>2 DEF Act, AfterAction, NextArgument
    <3>2. i \in 1..Len(args)
      BY <1>5, ArgumentFacts DEF Act, VInv, IInv, Position, AtArgument
    <3>3. fate'[i] = "pending"
      BY <2>2, <3>2 DEF Start, VInv, IInv, TypeOK
    <3>. QED
      BY <3>1, <3>3 DEF Landed
  <2>. QED
    BY <1>5, <2>1, <2>2 DEF Act
<1>6. Landed'
  BY <1>3, <1>4, <1>5
<1>. QED
  BY <1>2, <1>6 DEF Verdict, FailureIsReal, DeadlineIsLast

\* Nor does the cloud, which nobody watches once the command is over.
LEMMA WorldJudges ==
  ASSUME VInv, World
  PROVE  Landed' /\ Verdict'
<1>1. report' = report /\ report \notin {"failed", "timeout"}
  BY DEF World, Finish, Meddle, clientVars, VInv, Verdict
<1>2. ASSUME NEW s \in Servers, Meddle(s) PROVE Landed'
  BY <1>2 DEF Meddle, Landed
<1>3. Landed'
  BY <1>2, FinishLands DEF World, VInv
<1>. QED
  BY <1>1, <1>3 DEF Verdict, FailureIsReal, DeadlineIsLast

LEMMA NextJudges == VInv /\ [Next]_vars => VInv'
<1> SUFFICES ASSUME VInv, [Next]_vars PROVE VInv'
  OBVIOUS
<1>1. IInv'
  BY NextKeeps DEF VInv
<1>2. CASE UNCHANGED vars
  BY <1>1, <1>2 DEF vars, cloudVars, clientVars, VInv, Landed, Verdict, FailureIsReal, DeadlineIsLast
<1>3. CASE Next
  BY <1>1, <1>3, PollJudges, ClientJudges, WorldJudges DEF Next, Client, VInv
<1>. QED
  BY <1>2, <1>3

LEMMA InitJudges == Init => VInv
BY InitKeeps DEF Init, VInv, Landed, Verdict, FailureIsReal, DeadlineIsLast

\* A wait that reports the failure of an operation is right, unless the server
\* was in that status before it began or others have touched servers.
THEOREM FailuresAreReal == Spec => []FailureIsReal
<1>1. VInv => FailureIsReal
  BY DEF VInv, Verdict
<1>. QED
  BY <1>1, InitJudges, NextJudges, PTL DEF Spec

\* A wait that gives up has not overlooked what it waited for: an operation that
\* ends between the last poll before the deadline and the first one after counts.
THEOREM DeadlinesComeLast == Spec => []DeadlineIsLast
<1>1. VInv => DeadlineIsLast
  BY DEF VInv, Verdict
<1>. QED
  BY <1>1, InitJudges, NextJudges, PTL DEF Spec

-----------------------------------------------------------------------------
(* A handler that waits for every status in which its operation may end    *)
(* well does not give up on one that did.                                  *)

Arrived == pc = "poll" /\ meddled = {} /\ fate[i] = "succeeded" => status[args[i]] \in cmd.targets
AtLast == pc = "poll" => k = Len(cmd.steps)
Shelving == pc = "poll" /\ meddled = {} /\ Offloading => Last(cmd) = "shelve"
Patient ==
  /\ report = "timeout" => pc = "done"
  /\ TimeoutMeansUnfinished

PInv == VInv /\ Arrived /\ AtLast /\ Shelving /\ Patient

LEMMA FinishArrives ==
  ASSUME PInv, Expects(cmd), NEW s \in Servers, Finish(s)
  PROVE  Arrived'
<1> SUFFICES ASSUME pc = "poll", meddled = {}, fate'[i] = "succeeded"
             PROVE  status'[args[i]] \in cmd.targets
  BY DEF Arrived, Finish, clientVars
<1>1. i \in 1..Len(args) /\ args[i] \in Servers /\ fate \in [1..Len(args) -> Fates]
      /\ status \in [Servers -> Statuses]
      /\ task \in [Servers -> Actions \cup {"none", "autoOffload"}]
  BY ArgumentFacts DEF PInv, VInv, IInv, Position, AtArgument, TypeOK
<1>2. ASSUME NEW end, Settle(s, end)
      PROVE  fate'[i] = IF args[i] = s /\ fate[i] = "pending" THEN end ELSE fate[i]
  BY <1>1, <1>2 DEF Settle
<1>3. Working \/ Offloading \/ Over
  BY DEF PInv, VInv, IInv, Tracked
<1>4. CASE fate[i] = "succeeded"
  <2>1. task[args[i]] = "none"
    BY <1>3, <1>4 DEF Working, Offloading, Over
  <2>2. status'[args[i]] = status[args[i]]
    BY <1>1, <2>1 DEF Finish
  <2>. QED
    BY <1>4, <2>2 DEF PInv, Arrived
<1>5. CASE fate[i] # "succeeded"
  <2>1. args[i] = s /\ fate[i] = "pending" /\ (Working \/ Offloading)
    BY <1>1, <1>2, <1>3, <1>5 DEF Finish, Over
  <2>2. \/ Working /\ task[s] = Last(cmd) /\ task[s] # "autoOffload"
        \/ task[s] = "autoOffload" /\ status[s] = "SHELVED" /\ Last(cmd) = "shelve"
    BY <2>1 DEF Working, Offloading, PInv, AtLast, Shelving, Last
  <2>3. CASE status'[s] \in Outcomes(task[s], status[s])
    <3>1. CASE task[s] = Last(cmd)
      BY <1>1, <2>1, <2>3, <3>1 DEF Expects
    <3>2. CASE task[s] = "autoOffload" /\ status[s] = "SHELVED" /\ Last(cmd) = "shelve"
      BY <2>1, <2>3, <3>2 DEF Expects
    <3>. QED
      BY <2>2, <3>1, <3>2
  <2>4. CASE Settle(s, IF task[s] = "autoOffload" /\ status'[s] = "SHELVED" THEN "succeeded" ELSE "failed")
    <3>1. task[s] = "autoOffload" /\ status'[s] = "SHELVED" /\ Last(cmd) = "shelve"
      BY <1>2, <2>1, <2>2, <2>4
    <3>2. Outcomes("shelve", "SHELVED") = {"SHELVED"} /\ "SHELVED" \in Statuses
      BY DEF Outcomes, Statuses
    <3>. QED
      BY <2>1, <3>1, <3>2 DEF Expects
  <2>. QED
    BY <1>1, <2>1, <2>3, <2>4 DEF Finish
<1>. QED
  BY <1>4, <1>5

LEMMA FinishShelving ==
  ASSUME PInv, NEW s \in Servers, Finish(s)
  PROVE  Shelving'
<1> SUFFICES ASSUME pc = "poll", meddled = {}, Offloading'
             PROVE  Last(cmd) = "shelve"
  BY DEF Shelving, Finish, clientVars, Last
<1>1. UNCHANGED <<i, args, cmd>> /\ args[i] \in Servers
      /\ task \in [Servers -> Actions \cup {"none", "autoOffload"}]
  BY ArgumentFacts DEF Finish, clientVars, PInv, VInv, IInv, Position, AtArgument, TypeOK
<1>2. task'[args[i]] = "autoOffload"
  BY <1>1 DEF Offloading
<1>3. Working \/ Offloading \/ Over
  BY DEF PInv, VInv, IInv, Tracked
<1>4. CASE Offloading
  BY <1>4 DEF PInv, Shelving
<1>5. CASE ~Offloading
  <2>1. task[args[i]] # "autoOffload"
    BY <1>3, <1>5 DEF Working, Over
  <2>2. s = args[i] /\ task[s] = "shelve"
    BY <1>1, <1>2, <2>1 DEF Finish
  <2>. QED
    BY <1>3, <1>5, <2>2 DEF Working, Over, PInv, AtLast, Last
<1>. QED
  BY <1>4, <1>5

LEMMA ReachedWhenArrived ==
  ASSUME PInv, pc = "poll", meddled = {}, NEW shown \in Shown(args[i]), ~Reached(args[i], shown)
  PROVE  fate[i] # "succeeded"
<1> SUFFICES ASSUME fate[i] = "succeeded" PROVE FALSE
  OBVIOUS
<1>1. task[args[i]] = "none"
  BY DEF PInv, VInv, IInv, Tracked, Working, Offloading, Over
<1>2. status[args[i]] \in cmd.targets
  BY DEF PInv, Arrived
<1>. QED
  BY <1>1, <1>2, ThereIsReached

LEMMA PollIsPatient ==
  ASSUME PInv, Poll
  PROVE  Arrived' /\ AtLast' /\ Shelving' /\ Patient'
<1>1. pc = "poll" /\ UNCHANGED <<status, task, showsTask, meddled, cmd, args, origin, fate>>
  BY PollForms DEF cloudVars
<1>2. report \notin {"failed", "timeout"}
  BY <1>1 DEF PInv, VInv, Verdict
<1>3. pc' # "poll" \/ UNCHANGED <<pc, i, k>>
  BY PollForms DEF Return, GoTo, NextArgument
<1>4. Arrived' /\ AtLast' /\ Shelving'
  BY <1>1, <1>3 DEF PInv, Arrived, AtLast, Shelving, Offloading, Last
<1>5. Patient'
  BY <1>1, <1>2, PollReturns, ReachedWhenArrived DEF Patient, TimeoutMeansUnfinished
<1>. QED
  BY <1>4, <1>5

LEMMA ClientIsPatient ==
  ASSUME PInv, Lookup \/ Act \/ Reread \/ End \/ Expire
  PROVE  Arrived' /\ AtLast' /\ Shelving' /\ Patient'
<1>1. pc # "done" /\ report # "timeout"
  BY DEF PInv, VInv, Verdict, Lookup, Act, Reread, End, Expire
<1>2. report' # "timeout"
  BY <1>1 DEF Lookup, Act, Reread, End, Expire, Return, GoTo, NextArgument, AfterAction
<1>3. ASSUME Lookup \/ Reread \/ End PROVE pc' # "poll"
  BY <1>3 DEF Lookup, Reread, End, Return, GoTo, NextArgument
<1>4. ASSUME Expire PROVE Arrived' /\ AtLast' /\ Shelving'
  BY <1>4 DEF Expire, cloudVars, PInv, Arrived, AtLast, Shelving, Offloading, Last
<1>5. ASSUME Act, pc' = "poll" PROVE Arrived' /\ AtLast' /\ Shelving'
  <2>1. Start(cmd.steps[k]) /\ AfterAction /\ UNCHANGED <<cmd, args>>
    BY <1>5 DEF Act, Return, AtArgument
  <2>2. ~(k < Len(cmd.steps)) /\ UNCHANGED <<i, k>>
    BY <1>5, <2>1 DEF Act, AfterAction, NextArgument
  <2>3. i \in 1..Len(args) /\ args[i] \in Servers
    BY <1>5, ArgumentFacts DEF Act, PInv, VInv, IInv, Position, AtArgument, TypeOK
  <2>4. fate'[i] = "pending" /\ task'[args[i]] = cmd.steps[k]
    BY <2>1, <2>3 DEF Start, PInv, VInv, IInv, TypeOK
  <2>5. k \in 1..Len(cmd.steps) /\ Len(cmd.steps) \in 1..2 /\ cmd.steps[k] \in Actions
    BY HandlerFacts DEF PInv, VInv, IInv, TypeOK
  <2>6. k = Len(cmd.steps) /\ cmd.steps[k] # "autoOffload"
    BY <2>2, <2>5 DEF Actions
  <2>. QED
    BY <2>1, <2>2, <2>4, <2>6 DEF Arrived, AtLast, Shelving, Offloading
<1>6. Arrived' /\ AtLast' /\ Shelving'
  BY <1>3, <1>4, <1>5 DEF Arrived, AtLast, Shelving
<1>. QED
  BY <1>2, <1>6 DEF Patient, TimeoutMeansUnfinished

LEMMA WorldIsPatient ==
  ASSUME PInv, Expects(cmd), World
  PROVE  Arrived' /\ AtLast' /\ Shelving' /\ Patient'
<1>1. UNCHANGED <<pc, i, k, cmd, args, report>> /\ pc # "done" /\ report # "timeout"
  BY DEF World, Finish, Meddle, clientVars, PInv, Patient
<1>2. ASSUME NEW s \in Servers, Meddle(s) PROVE Arrived' /\ Shelving'
  BY <1>2 DEF Meddle, Arrived, Shelving
<1>3. Arrived' /\ Shelving'
  BY <1>2, FinishArrives, FinishShelving DEF World
<1>. QED
  BY <1>1, <1>3 DEF PInv, AtLast, Patient, TimeoutMeansUnfinished

\* Where a handler waits for every status in which its operation may end well,
\* a timeout is never that of an operation that has succeeded: the violation that
\* the unshelving shows is one of the statuses waited for, not of the polls.
THEOREM TimeoutsAreReal ==
  ASSUME \A h \in Handlers : Expects(h)
  PROVE  Spec => []TimeoutMeansUnfinished
<1>1. Init => PInv
  BY InitJudges DEF Init, PInv, Arrived, AtLast, Shelving, Patient, TimeoutMeansUnfinished
<1>2. PInv /\ [Next]_vars => PInv'
  <2> SUFFICES ASSUME PInv, [Next]_vars PROVE PInv'
    OBVIOUS
  <2>1. VInv'
    BY NextJudges DEF PInv
  <2>2. CASE UNCHANGED vars
    BY <2>1, <2>2 DEF vars, cloudVars, clientVars, PInv, Arrived, AtLast, Shelving, Offloading, Last,
                      Patient, TimeoutMeansUnfinished
  <2>3. Expects(cmd)
    BY DEF PInv, VInv, IInv, TypeOK
  <2>4. CASE Next
    BY <2>1, <2>3, <2>4, PollIsPatient, ClientIsPatient, WorldIsPatient DEF Next, Client, PInv
  <2>. QED
    BY <2>2, <2>4
<1>3. PInv => TimeoutMeansUnfinished
  BY DEF PInv, Patient
<1>. QED
  BY <1>1, <1>2, <1>3, PTL DEF Spec

-----------------------------------------------------------------------------
(* Seen from outside, the command keeps the promise of BulkContract.       *)

\* What is accepted, at every place of the program.
Books ==
  /\ report = "running" <=> pc # "done"
  /\ pc \in {"lookup", "act"} => accepted = 1..(i - 1)
  /\ pc \in {"poll", "reread"} => accepted = 1..i
  /\ pc = "end" => i = Len(args) + 1 /\ accepted = 1..Len(args)

CInv == TypeOK /\ Position /\ Books

\* The arguments the promise counts as dealt with end before this one.
At == IF i \in accepted THEN i + 1 ELSE i

\* Every step of the command is one of these, seen from outside.
Stays == UNCHANGED <<At, accepted, report>>
Deals == At' = i + 1 /\ At = i /\ accepted' = accepted \cup {i} /\ UNCHANGED report
Fails ==
  /\ At' \in {At, At + 1} /\ accepted' \in {accepted, accepted \cup {At}} /\ accepted' \subseteq 1..Len(args)
  /\ report' \notin {"running", "ok"}
Ends == At = Len(args) + 1 /\ accepted = 1..Len(args) /\ report' = "ok" /\ UNCHANGED <<At, accepted>>

LEMMA PlaceFacts ==
  ASSUME CInv, AtArgument
  PROVE  /\ i \in 1..Len(args) /\ Len(args) \in Nat
         /\ accepted \subseteq 1..Len(args)
         /\ At \in Nat /\ report = "running"
<1>1. i \in 1..Len(args) /\ Len(args) \in Nat
  BY DEF CInv, TypeOK, Position
<1>2. accepted = 1..(i - 1) \/ accepted = 1..i
  BY DEF CInv, Books, AtArgument
<1>. QED
  BY <1>1, <1>2 DEF CInv, Books, AtArgument, At

\* A request that fails, or finds nothing, ends the command where it is.
LEMMA ReturnFails ==
  ASSUME CInv, AtArgument, NEW result \in {"error", "failed", "timeout"}, Return(result),
         UNCHANGED <<args, accepted>>
  PROVE  Fails /\ Books'
<1>1. UNCHANGED At /\ accepted \subseteq 1..Len(args)
  BY PlaceFacts DEF Return, At
<1>. QED
  BY <1>1 DEF Return, Fails, Books

LEMMA LookupStep == CInv /\ Lookup => Books' /\ (Stays \/ Fails)
<1> SUFFICES ASSUME CInv, Lookup PROVE Books' /\ (Stays \/ Fails)
  OBVIOUS
<1>1. AtArgument /\ pc = "lookup" /\ UNCHANGED <<args, accepted>>
  BY DEF Lookup, AtArgument
<1>2. CASE GoTo("act")
  BY <1>1, <1>2 DEF GoTo, CInv, Books, Stays, At
<1>. QED
  BY <1>1, <1>2, ReturnFails DEF Lookup

\* The argument is executed when its last action is accepted.
LEMMA StartAccepts ==
  ASSUME CInv, pc = "act", Start(cmd.steps[k])
  PROVE  /\ At = i /\ i \notin accepted
         /\ accepted' = IF k = Len(cmd.steps) THEN 1..i ELSE 1..(i - 1)
         /\ accepted' = IF k = Len(cmd.steps) THEN accepted \cup {i} ELSE accepted
<1>1. i \in 1..Len(args) /\ Len(args) \in Nat /\ accepted = 1..(i - 1)
  BY PlaceFacts DEF AtArgument, CInv, Books
<1>2. i \notin accepted /\ accepted \cup {i} = 1..i
  BY <1>1
<1>. QED
  BY <1>1, <1>2 DEF Start, At

LEMMA ActStep == CInv /\ Act => Books' /\ (Stays \/ Deals \/ Fails)
<1> SUFFICES ASSUME CInv, Act PROVE Books' /\ (Stays \/ Deals \/ Fails)
  OBVIOUS
<1>1. AtArgument /\ pc = "act" /\ UNCHANGED <<args, cmd>>
  BY DEF Act, AtArgument
<1>2. i \in 1..Len(args) /\ Len(args) \in Nat /\ accepted = 1..(i - 1) /\ report = "running"
      /\ k \in 1..Len(cmd.steps) /\ Len(cmd.steps) \in 1..2
  BY <1>1, PlaceFacts, HandlerFacts DEF CInv, Books, TypeOK
<1>3. CASE Start(cmd.steps[k]) /\ AfterAction
  <2>1. CASE k < Len(cmd.steps)
    <3>1. k # Len(cmd.steps) /\ UNCHANGED <<i, pc, report>>
      BY <1>2, <1>3, <2>1 DEF AfterAction
    <3>2. UNCHANGED accepted
      BY <1>1, <1>3, <3>1, StartAccepts
    <3>. QED
      BY <1>1, <3>1, <3>2 DEF Stays, At, CInv, Books
  <2>2. CASE ~(k < Len(cmd.steps))
    <3>1. k = Len(cmd.steps)
      BY <1>2, <2>2
    <3>2. accepted' = 1..i /\ accepted' = accepted \cup {i} /\ At = i
      BY <1>1, <1>3, <3>1, StartAccepts
    <3>3. CASE cmd.wait
      <4>1. pc' = "poll" /\ UNCHANGED <<i, report>>
        BY <1>3, <2>2, <3>3 DEF AfterAction
      <4>2. Deals
        BY <1>2, <3>2, <4>1 DEF Deals, At
      <4>. QED
        BY <1>1, <1>2, <3>2, <4>1, <4>2 DEF Books
    <3>4. CASE ~cmd.wait
      <4>1. NextArgument
        BY <1>3, <2>2, <3>4 DEF AfterAction
      <4>2. i' = i + 1 /\ report' = report /\ pc' = IF i = Len(args) THEN "end" ELSE "lookup"
        BY <4>1 DEF NextArgument
      <4>3. Deals
        BY <1>2, <3>2, <4>2 DEF Deals, At
      <4>. QED
        BY <1>1, <1>2, <3>2, <4>2, <4>3 DEF Books
    <3>. QED
      BY <3>3, <3>4
  <2>. QED
    BY <2>1, <2>2
<1>4. CASE Start(cmd.steps[k]) /\ Return("error")
  <2>1. At = i /\ accepted' \in {accepted, accepted \cup {i}} /\ i' = i
    BY <1>1, <1>4, StartAccepts DEF Return
  <2>2. At' \in {At, At + 1} /\ accepted' \subseteq 1..Len(args)
    BY <1>2, <2>1 DEF At
  <2>. QED
    BY <1>4, <2>1, <2>2 DEF Fails, Return, Books
<1>5. CASE Return("error") /\ UNCHANGED accepted
  BY <1>1, <1>5, ReturnFails
<1>. QED
  BY <1>3, <1>4, <1>5 DEF Act

\* What was executed stays so when the command goes on from it.
LEMMA NextStays ==
  ASSUME CInv, pc \in {"poll", "reread"}, NextArgument, UNCHANGED <<args, accepted>>
  PROVE  Stays /\ Books'
<1>1. i \in 1..Len(args) /\ Len(args) \in Nat /\ accepted = 1..i /\ report = "running"
  BY PlaceFacts DEF AtArgument, CInv, Books
<1>2. i' = i + 1 /\ report' = report /\ pc' = IF i = Len(args) THEN "end" ELSE "lookup"
  BY DEF NextArgument
<1>3. Stays
  BY <1>1, <1>2 DEF Stays, At
<1>. QED
  BY <1>1, <1>2, <1>3 DEF Books

LEMMA PollStep == CInv /\ Poll => Books' /\ (Stays \/ Fails)
<1> SUFFICES ASSUME CInv, Poll PROVE Books' /\ (Stays \/ Fails)
  OBVIOUS
<1>1. AtArgument /\ pc = "poll" /\ UNCHANGED <<args, accepted>>
  BY PollForms DEF AtArgument
<1>2. CASE GoTo("reread")
  BY <1>1, <1>2 DEF GoTo, CInv, Books, Stays, At
<1>3. CASE UNCHANGED <<pc, i, k, expired, report>>
  BY <1>1, <1>3 DEF CInv, Books, Stays, At
<1>. QED
  BY <1>1, <1>2, <1>3, PollForms, ReturnFails, NextStays

LEMMA RereadStep == CInv /\ Reread => Books' /\ (Stays \/ Fails)
BY ReturnFails, NextStays DEF Reread, AtArgument

LEMMA EndStep == CInv /\ End => Books' /\ Ends
<1> SUFFICES ASSUME CInv, End PROVE Books' /\ Ends
  OBVIOUS
<1>1. Len(args) \in Nat /\ i = Len(args) + 1 /\ accepted = 1..Len(args)
  BY ArgumentFacts DEF CInv, Books, End
<1>2. At = Len(args) + 1 /\ At' = At
  BY <1>1 DEF At, End, Return
<1>. QED
  BY <1>1, <1>2 DEF Ends, End, Return, Books

LEMMA QuietStep == CInv /\ (Expire \/ World \/ UNCHANGED vars) => Books' /\ Stays
BY DEF CInv, Books, Stays, At, Expire, World, Finish, Meddle, clientVars, cloudVars, vars

LEMMA ContractInit == Init => Contract!Init
<1> SUFFICES ASSUME Init PROVE Contract!Init
  OBVIOUS
<1>1. Len(args) \in Nat \ {0}
  BY InitType, ArgumentFacts DEF TypeOK
<1>. QED
  BY <1>1 DEF Init, Contract!Init, Contract!Silent

LEMMA BooksStep ==
  CInv /\ [Next]_vars => Books' /\ (Stays \/ (AtArgument /\ (Deals \/ Fails)) \/ (pc = "end" /\ Ends))
BY LookupStep, ActStep, PollStep, RereadStep, EndStep, QuietStep
DEF Next, Client, AtArgument, Lookup, Act, Poll, Reread, End

LEMMA BooksKept == CInv /\ [Next]_vars => CInv'
BY NextType, BooksStep DEF CInv

LEMMA ContractNext == CInv /\ [Next]_vars => [Contract!Next]_(Contract!vars)
<1> SUFFICES ASSUME CInv, [Next]_vars
             PROVE  Contract!Next \/ UNCHANGED Contract!vars
  OBVIOUS
<1>1. UNCHANGED args
  BY DEF Next, Client, Lookup, Act, Poll, Reread, End, Expire, World, Finish, Meddle, clientVars, vars
<1>2. CASE Stays
  BY <1>1, <1>2 DEF Stays, At, Contract!vars
<1>3. CASE AtArgument /\ Deals
  <2>1. i <= Len(args) /\ report = "running" /\ At = i
    BY <1>3, PlaceFacts DEF Deals
  <2>2. Contract!Take
    BY <1>1, <1>3, <2>1 DEF Deals, At, Contract!Take, Contract!Silent
  <2>. QED
    BY <2>2 DEF Contract!Next
<1>4. CASE AtArgument /\ Fails
  <2>1. report = "running"
    BY <1>4, PlaceFacts
  <2>2. Contract!GiveUp
    BY <1>1, <1>4, <2>1 DEF Fails, At, Contract!GiveUp, Contract!Silent
  <2>. QED
    BY <2>2 DEF Contract!Next
<1>5. CASE pc = "end" /\ Ends
  <2>1. report = "running"
    BY <1>5 DEF CInv, Books
  <2>2. Contract!Conclude
    BY <1>1, <1>5, <2>1 DEF Ends, At, Contract!Conclude, Contract!Silent
  <2>. QED
    BY <2>2 DEF Contract!Next
<1>. QED
  BY <1>2, <1>3, <1>4, <1>5, BooksStep

\* Seen from outside, every run of a waiting command is a run of BulkContract:
\* it takes its arguments in order, and says that all is well only if the cloud
\* accepted every action of every one of them.
THEOREM ImplementsContract == Spec => KeepsContract
<1>1. Init => CInv
  BY InitType DEF Init, CInv, Books
<1>. QED
  BY <1>1, BooksKept, ContractInit, ContractNext, PTL DEF Spec, Contract!Spec, KeepsContract

-----------------------------------------------------------------------------
(* The end.                                                                *)

\* What an argument may take: a lookup, two actions, a deadline, the poll that
\* ends the wait and a last reading.  Stage is how many of them are over or left out.
Stage ==
  IF pc = "act" THEN k
  ELSE IF pc = "poll" THEN IF expired THEN 4 ELSE 3
  ELSE IF pc = "reread" THEN 5 ELSE 0

\* The steps a command may still take.
Left ==
  IF pc = "done" THEN 0
  ELSE IF pc = "end" THEN 1
  ELSE 6 * (Len(args) + 1 - i) + 1 - Stage

\* Whatever the client does is one of them, and so is the deadline; the cloud and
\* other users take none.
Shortens ==
  /\ Client \/ Expire => Left' < Left
  /\ World => Left' = Left

LEMMA StepRange ==
  ASSUME TypeOK
  PROVE  k \in 1..2
<1>1. Len(cmd.steps) \in 1..2
  BY HandlerFacts
<1>2. k \in 1..Len(cmd.steps)
  BY DEF TypeOK
<1>3. \A n \in 1..2 : \A m \in 1..n : m \in 1..2
  OBVIOUS
<1>. QED
  BY <1>1, <1>2, <1>3, Zenon

LEMMA LeftForms ==
  ASSUME TypeOK, Position
  PROVE  /\ Len(args) \in Nat /\ i \in Nat /\ Stage \in 0..5 /\ Left \in Nat
         /\ AtArgument => Left = 6 * (Len(args) + 1 - i) + 1 - Stage /\ Left >= 2
<1>1. Len(args) \in Nat /\ i \in Nat
  BY ArgumentFacts
<1>2. Stage \in 0..5
  BY StepRange DEF Stage
<1>3. CASE AtArgument
  <2>1. i <= Len(args) /\ Left = 6 * (Len(args) + 1 - i) + 1 - Stage
    BY <1>3 DEF AtArgument, Position, Left
  <2>. QED
    BY <1>1, <1>2, <1>3, <2>1
<1>4. CASE ~AtArgument
  BY <1>1, <1>2, <1>4 DEF AtArgument, Left, TypeOK
<1>. QED
  BY <1>1, <1>2, <1>3, <1>4

LEMMA ReturnShortens ==
  ASSUME TypeOK, Position, AtArgument, NEW result, Return(result)
  PROVE  Left' < Left
BY LeftForms DEF Return, Left

LEMMA NextArgumentShortens ==
  ASSUME TypeOK, Position, AtArgument, NextArgument, args' = args
  PROVE  Left' < Left
<1>1. /\ Len(args) \in Nat /\ i \in Nat /\ Stage \in 0..5 /\ i <= Len(args)
      /\ Left = 6 * (Len(args) + 1 - i) + 1 - Stage
  BY LeftForms DEF Position
<1>2. CASE i = Len(args)
  BY <1>1, <1>2, LeftForms DEF NextArgument, Left
<1>3. CASE i # Len(args)
  <2>1. Left' = 6 * (Len(args) + 1 - (i + 1)) + 1
    BY <1>1, <1>3 DEF NextArgument, Left, Stage
  <2>2. \A n, j \in Nat : \A x \in 0..5 :
          6 * (n + 1 - (j + 1)) + 1 < 6 * (n + 1 - j) + 1 - x
    OBVIOUS
  <2>. QED
    BY <1>1, <2>1, <2>2
<1>. QED
  BY <1>2, <1>3

\* A step within an argument goes on to a later stage.
LEMMA StageShortens ==
  ASSUME TypeOK, Position, AtArgument, UNCHANGED <<args, i>>,
         pc' \in {"act", "poll", "reread"}, Stage' \in 0..5, Stage' > Stage
  PROVE  Left' < Left
<1>1. /\ Len(args) \in Nat /\ i \in Nat /\ Stage \in 0..5
      /\ Left = 6 * (Len(args) + 1 - i) + 1 - Stage
  BY LeftForms
<1>2. Left' = 6 * (Len(args) + 1 - i) + 1 - Stage'
  BY DEF Left
<1>3. \A n, j \in Nat : \A x, y \in 0..5 :
        x > y => 6 * (n + 1 - j) + 1 - x < 6 * (n + 1 - j) + 1 - y
  OBVIOUS
<1>. QED
  BY <1>1, <1>2, <1>3

LEMMA LookupShortens == TypeOK /\ Position /\ Lookup => Left' < Left
<1> SUFFICES ASSUME TypeOK, Position, Lookup PROVE Left' < Left
  OBVIOUS
<1>1. AtArgument /\ args' = args /\ pc = "lookup" /\ (GoTo("act") \/ Return("error"))
  BY DEF Lookup, AtArgument
<1>2. CASE GoTo("act")
  <2>1. Stage = 0 /\ Stage' = k /\ k \in 1..2
    BY <1>1, <1>2, StepRange DEF GoTo, Stage
  <2>. QED
    BY <1>1, <1>2, <2>1, StageShortens DEF GoTo
<1>3. CASE Return("error")
  BY <1>1, <1>3, ReturnShortens
<1>. QED
  BY <1>1, <1>2, <1>3

LEMMA ActShortens == TypeOK /\ Position /\ Act => Left' < Left
<1> SUFFICES ASSUME TypeOK, Position, Act PROVE Left' < Left
  OBVIOUS
<1>1. AtArgument /\ args' = args /\ pc = "act" /\ (AfterAction \/ Return("error"))
  BY DEF Act, AtArgument
<1>2. Stage = k /\ k \in 1..2 /\ k <= Len(cmd.steps) /\ Len(cmd.steps) \in 1..2
  BY <1>1, HandlerFacts DEF Stage, TypeOK
<1>3. CASE AfterAction /\ k < Len(cmd.steps)
  <2>1. k' = k + 1 /\ UNCHANGED <<i, pc>>
    BY <1>3 DEF AfterAction
  <2>2. Stage' = k + 1
    BY <1>1, <2>1 DEF Stage
  <2>. QED
    BY <1>1, <1>2, <2>1, <2>2, StageShortens
<1>4. CASE AfterAction /\ ~(k < Len(cmd.steps)) /\ cmd.wait
  <2>1. pc' = "poll" /\ i' = i
    BY <1>4 DEF AfterAction
  <2>2. Stage' \in 3..4
    BY <2>1 DEF Stage
  <2>. QED
    BY <1>1, <1>2, <2>1, <2>2, StageShortens
<1>5. CASE AfterAction /\ ~(k < Len(cmd.steps)) /\ ~cmd.wait
  BY <1>1, <1>5, NextArgumentShortens DEF AfterAction
<1>6. CASE Return("error")
  BY <1>1, <1>6, ReturnShortens
<1>. QED
  BY <1>1, <1>3, <1>4, <1>5, <1>6

\* A poll that finds the operation going on is no step at all.
LEMMA PollShortens == TypeOK /\ Position /\ Poll => Left' < Left \/ UNCHANGED vars
<1> SUFFICES ASSUME TypeOK, Position, Poll PROVE Left' < Left \/ UNCHANGED vars
  OBVIOUS
<1>1. AtArgument /\ args' = args /\ pc = "poll"
  BY PollForms DEF AtArgument
<1>2. \/ Return("error") \/ Return("failed") \/ Return("timeout")
      \/ GoTo("reread") \/ NextArgument
      \/ NoFault /\ UNCHANGED <<pc, i, k, expired, report>>
  BY Zenon DEF Poll
<1>3. CASE NoFault /\ UNCHANGED <<pc, i, k, expired, report>>
  BY <1>3, PollForms DEF NoFault, vars, clientVars
<1>4. CASE GoTo("reread")
  <2>1. Stage \in 3..4 /\ Stage' = 5
    BY <1>1, <1>4 DEF GoTo, Stage
  <2>. QED
    BY <1>1, <1>4, <2>1, StageShortens DEF GoTo
<1>5. CASE NextArgument
  BY <1>1, <1>5, NextArgumentShortens
<1>6. CASE Return("error") \/ Return("failed") \/ Return("timeout")
  BY <1>1, <1>6, ReturnShortens
<1>. QED
  BY <1>2, <1>3, <1>4, <1>5, <1>6

LEMMA EndShortens == TypeOK /\ Position /\ (Reread \/ End \/ Expire) => Left' < Left
<1> SUFFICES ASSUME TypeOK, Position PROVE Reread \/ End \/ Expire => Left' < Left
  OBVIOUS
<1>1. ASSUME Reread PROVE Left' < Left
  BY <1>1, ReturnShortens, NextArgumentShortens DEF Reread, AtArgument
<1>2. ASSUME End PROVE Left' < Left
  BY <1>2 DEF End, Return, Left
<1>3. ASSUME Expire PROVE Left' < Left
  <2>1. AtArgument /\ UNCHANGED <<args, i>> /\ pc' = "poll" /\ Stage = 3 /\ Stage' = 4
    BY <1>3 DEF Expire, AtArgument, Stage
  <2>. QED
    BY <2>1, StageShortens
<1>. QED
  BY <1>1, <1>2, <1>3

\* The part of Terminates that needs no fairness: every step of the client, and
\* every deadline, uses up one of six per argument and one for the end, whatever
\* the cloud and other users do in between.  (A poll that finds the operation
\* going on is not a step; the deadline ends those.)
THEOREM StepsRunOut == Spec => [](Left \in 0..6 * Len(args) + 1) /\ [][Shortens]_vars
<1> DEFINE I == TypeOK /\ Position
<1>1. Init => I /\ Left <= 6 * Len(args) + 1
  <2> SUFFICES ASSUME Init PROVE I /\ Left <= 6 * Len(args) + 1
    OBVIOUS
  <2>1. I /\ AtArgument /\ Stage = 0 /\ i = 1
    BY InitType DEF Init, AtArgument, Stage
  <2>2. Left = 6 * (Len(args) + 1 - i) + 1 - Stage /\ Len(args) \in Nat
    BY <2>1, LeftForms
  <2>. QED
    BY <2>1, <2>2
<1>2. I /\ [Next]_vars => I'
  BY NextType
<1>3. I /\ [Next]_vars => [Shortens]_vars
  <2> SUFFICES ASSUME I PROVE Shortens \/ UNCHANGED vars
    OBVIOUS
  <2>1. Client \/ Expire => Left' < Left \/ UNCHANGED vars
    BY LookupShortens, ActShortens, PollShortens, EndShortens DEF Client
  <2>2. World => UNCHANGED clientVars
    BY DEF World, Finish, Meddle
  <2>3. World => Left' = Left
    BY <2>2 DEF clientVars, Left, Stage
  <2>. QED
    BY <2>1, <2>3 DEF Shortens
<1>4. I => Left \in Nat /\ Len(args) \in Nat
  BY LeftForms
<1>5. I' => (Left \in Nat)'
  BY <1>4, PTL
<1>6. I /\ I' /\ Left <= 6 * Len(args) + 1 /\ [Next]_vars => (Left <= 6 * Len(args) + 1)'
  <2> SUFFICES ASSUME I, I', Left <= 6 * Len(args) + 1, [Next]_vars
               PROVE  (Left <= 6 * Len(args) + 1)'
    OBVIOUS
  <2>1. args' = args
    BY DEF Next, Client, Lookup, Act, Poll, Reread, End, Expire, World, Finish, Meddle, clientVars, vars
  <2>2. Left \in Nat /\ Left' \in Nat /\ Len(args) \in Nat
    BY <1>4, <1>5
  <2>3. Left' = Left \/ Left' < Left
    <3>1. CASE UNCHANGED vars
      BY <3>1 DEF vars, clientVars, Left, Stage
    <3>2. CASE Shortens /\ Next
      BY <3>2 DEF Shortens, Next
    <3>. QED
      BY <1>3, <3>1, <3>2
  <2>. QED
    BY <2>1, <2>2, <2>3
<1>7. I /\ Left <= 6 * Len(args) + 1 => Left \in 0..6 * Len(args) + 1
  BY <1>4
<1>. QED
  BY <1>1, <1>2, <1>3, <1>6, <1>7, PTL DEF Spec
=============================================================================
