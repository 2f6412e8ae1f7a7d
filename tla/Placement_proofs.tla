-------------------------- MODULE Placement_proofs ---------------------------
(***************************************************************************)
(* Generations make read-edit-write atomic, for any number of providers,   *)
(* of failures and of updates by other users.                              *)
(***************************************************************************)
EXTENDS Placement, FiniteSetTheorems, TLAPS

-----------------------------------------------------------------------------
(* Types.                                                                  *)

LEMMA HandlerFacts ==
  ASSUME NEW handler, handler \in Handlers
  PROVE  /\ handler.many \in BOOLEAN /\ handler.reads \in BOOLEAN /\ handler.dry \in BOOLEAN
         /\ handler.version \in Sources /\ handler.edit \in Edits
         /\ handler.reread \in BOOLEAN
<1>1. handler \in HandlerRecords
  BY HandlersAssumption
<1> QED BY <1>1 DEF HandlerRecords

LEMMA AppliedType ==
  ASSUME NEW edit, NEW amounts \in Contents, NEW delta \in Contents
  PROVE  Applied(edit, delta, amounts) \in Contents
<1>1. DOMAIN amounts = Keys /\ 0 \in 0..MaxAmount
  BY BoundsAssumption DEF Contents
<1>2. \A key \in Keys : amounts[key] \in 0..MaxAmount /\ delta[key] \in 0..MaxAmount
  BY DEF Contents
<1>3. CASE edit = "replace"
  BY <1>3 DEF Applied
<1>4. CASE edit = "clear"
  <2>1. Applied(edit, delta, amounts) = [key \in Keys |-> 0]
    BY <1>1, <1>4 DEF Applied
  <2> QED BY <1>1, <2>1 DEF Contents
<1>5. CASE edit = "override"
  <2>1. Applied(edit, delta, amounts) =
          [key \in Keys |-> IF delta[key] = 0 THEN amounts[key] ELSE delta[key]]
    BY <1>1, <1>5 DEF Applied
  <2> QED BY <1>2, <2>1 DEF Contents
<1>6. CASE edit \notin {"replace", "clear", "override"}
  <2>1. Applied(edit, delta, amounts) =
          [key \in Keys |-> IF delta[key] = 0 THEN amounts[key] ELSE 0]
    BY <1>1, <1>6 DEF Applied
  <2> QED BY <1>1, <1>2, <2>1 DEF Contents
<1> QED BY <1>3, <1>4, <1>5, <1>6

LEMMA EmptyType == Empty \in Contents
BY BoundsAssumption DEF Empty, Contents

LEMMA PayloadType == TypeOK => Payload \in Contents
BY AppliedType DEF TypeOK, Payload

\* An update by anyone leaves contents and generations well-formed.
LEMMA StoreType ==
  ASSUME TypeOK, NEW t \in Targets, NEW new \in Contents, Store(t, new)
  PROVE  content' \in [Targets -> Contents] /\ version' \in [Targets -> Nat]
<1>1. Bumped(t, new) \in Nat
  BY DEF Bumped, TypeOK
<1> QED BY <1>1 DEF Store, TypeOK

\* The positions that turning to the next target leads to.
LEMMA TurnType ==
  ASSUME TypeOK, NEW rest, rest \subseteq Targets, Turn(rest)
  PROVE  /\ pc' \in {"content", "write", "end"}
         /\ left' \subseteq rest
         /\ current' \in Targets
<1>1. CASE rest = {} /\ pc' = "end" /\ left' = {} /\ UNCHANGED current
  BY <1>1 DEF TypeOK
<1>2. CASE \E t \in rest : current' = t /\ left' = rest \ {t} /\ pc' = IF cmd.reads THEN "content" ELSE "write"
  BY <1>2
<1> QED BY <1>1, <1>2 DEF Turn

LEMMA FaultType == TypeOK /\ (Fault \/ NoFault) => faulted' \subseteq Targets
BY DEF TypeOK, Fault, NoFault

\* What the steps of the client do to the variables that say where it is.
Placed ==
  /\ pc' \in {"content", "write", "reread", "end", "done"}
  /\ left' \subseteq targets'
  /\ current' \in Targets
  /\ failures' \in Nat
  /\ report' \in {"running", "ok", "error", "count"}

LEMMA ReturnPlaced ==
  ASSUME TypeOK, NEW result \in {"ok", "error", "count"}, Return(result)
  PROVE  Placed /\ UNCHANGED <<targets, seen, base, failures>>
BY DEF Return, TypeOK, Placed

LEMMA FailedPlaced ==
  ASSUME TypeOK, Failed
  PROVE  Placed /\ UNCHANGED <<targets, seen, base>>
<1>1. CASE cmd.many
  <2>1. left \subseteq Targets
    BY DEF TypeOK
  <2> QED BY <1>1, <2>1, TurnType DEF Failed, Placed, TypeOK, CountFailure
<1>2. CASE ~cmd.many
  BY <1>2, ReturnPlaced DEF Failed
<1> QED BY <1>1, <1>2

LEMMA SucceededPlaced ==
  ASSUME TypeOK, Succeeded
  PROVE  Placed /\ UNCHANGED <<targets, seen, base, failures, report>>
<1>1. left \subseteq Targets
  BY DEF TypeOK
<1>2. CASE cmd.reread
  BY <1>2 DEF Succeeded, Placed, TypeOK
<1>3. CASE ~cmd.reread
  BY <1>1, <1>3, TurnType DEF Succeeded, Placed, TypeOK
<1> QED BY <1>2, <1>3

LEMMA ReadsType ==
  ASSUME TypeOK, NEW ts, Reads(ts)
  PROVE  /\ seen' \in [Targets -> Nat]
         /\ disturbed' \subseteq disturbed /\ reborn' \subseteq reborn
BY DEF TypeOK, Reads

LEMMA ReadVersionType == TypeOK /\ ReadVersion => TypeOK'
<1> SUFFICES ASSUME TypeOK, ReadVersion PROVE TypeOK'
  OBVIOUS
<1>1. UNCHANGED <<cloudVars, cmd, change, done, faulted, meddled>>
  BY DEF ReadVersion
<1>2. CASE \E ts \in (IF cmd.many THEN SUBSET Targets \ {{}} ELSE {targets}) :
              /\ targets' = ts /\ Reads(ts) /\ Turn(ts) /\ UNCHANGED <<base, failures, report>>
  <2>1. PICK ts \in (IF cmd.many THEN SUBSET Targets \ {{}} ELSE {targets}) :
              /\ targets' = ts /\ Reads(ts) /\ Turn(ts) /\ UNCHANGED <<base, failures, report>>
    BY <1>2
  <2>2. ts \subseteq Targets
    BY DEF TypeOK
  <2>3. pc' \in {"content", "write", "end"} /\ left' \subseteq targets' /\ current' \in Targets
    BY <2>1, <2>2, TurnType
  <2>4. seen' \in [Targets -> Nat] /\ disturbed' \subseteq disturbed /\ reborn' \subseteq reborn
    BY <2>1, ReadsType
  <2> QED BY <1>1, <2>1, <2>2, <2>3, <2>4 DEF TypeOK, cloudVars
<1>3. CASE Return("error") /\ UNCHANGED <<disturbed, reborn>>
  BY <1>1, <1>3, ReturnPlaced DEF TypeOK, Placed, cloudVars
<1> QED BY <1>2, <1>3 DEF ReadVersion

LEMMA ReadContentType == TypeOK /\ ReadContent => TypeOK'
<1> SUFFICES ASSUME TypeOK, ReadContent PROVE TypeOK'
  OBVIOUS
<1>1. UNCHANGED <<cloudVars, cmd, change, done, meddled>> /\ faulted' \subseteq Targets
  BY FaultType DEF ReadContent
<1>2. CASE base' = content[current] /\ pc' = "write"
           /\ (IF cmd.version = "content" THEN Reads({current}) ELSE UNCHANGED <<seen, disturbed, reborn>>)
           /\ UNCHANGED <<targets, left, current, failures, report>>
  <2>1. seen' \in [Targets -> Nat] /\ disturbed' \subseteq disturbed /\ reborn' \subseteq reborn
    BY <1>2, ReadsType DEF TypeOK
  <2> QED BY <1>1, <1>2, <2>1 DEF TypeOK, cloudVars
<1>3. CASE Return("error") /\ UNCHANGED <<disturbed, reborn>>
  BY <1>1, <1>3, ReturnPlaced DEF TypeOK, Placed, cloudVars
<1> QED BY <1>2, <1>3 DEF ReadContent

LEMMA WriteType == TypeOK /\ Write => TypeOK'
<1> SUFFICES ASSUME TypeOK, Write PROVE TypeOK'
  OBVIOUS
<1>1. UNCHANGED <<cmd, change, disturbed, reborn, meddled>> /\ faulted' \subseteq Targets
  BY FaultType DEF Write
<1>2. Placed /\ UNCHANGED <<targets, seen, base>>
  BY SucceededPlaced, FailedPlaced DEF Write
<1>3. content' \in [Targets -> Contents] /\ version' \in [Targets -> Nat] /\ done' \subseteq Targets
  BY StoreType, PayloadType DEF Write, TypeOK, cloudVars
<1> QED BY <1>1, <1>2, <1>3 DEF TypeOK, Placed

LEMMA SkipType == TypeOK /\ Skip => TypeOK'
<1> SUFFICES ASSUME TypeOK, Skip PROVE TypeOK'
  OBVIOUS
<1>1. pc' \in {"content", "write", "end"} /\ left' \subseteq left /\ current' \in Targets
  BY TurnType DEF Skip, TypeOK
<1> QED BY <1>1 DEF Skip, TypeOK, cloudVars, historyVars

LEMMA RereadType == TypeOK /\ Reread => TypeOK'
<1> SUFFICES ASSUME TypeOK, Reread PROVE TypeOK'
  OBVIOUS
<1>1. Placed /\ UNCHANGED <<targets, seen, base>>
  <2>1. CASE Turn(left) /\ UNCHANGED <<targets, seen, base, failures, report>>
    BY <2>1, TurnType DEF TypeOK, Placed
  <2>2. CASE Return("error")
    BY <2>2, ReturnPlaced
  <2> QED BY <2>1, <2>2 DEF Reread
<1>2. faulted' \subseteq Targets
  BY FaultType DEF Reread
<1> QED BY <1>1, <1>2 DEF Reread, TypeOK, Placed, cloudVars

LEMMA EndType == TypeOK /\ End => TypeOK'
BY ReturnPlaced DEF End, TypeOK, Placed, cloudVars, historyVars

LEMMA MeddleType ==
  ASSUME TypeOK, NEW t \in Targets, Meddle(t)
  PROVE  TypeOK'
<1>1. content' \in [Targets -> Contents] /\ version' \in [Targets -> Nat]
  BY StoreType DEF Meddle
<1>2. reborn' \subseteq Targets /\ disturbed' \subseteq Targets /\ meddled' \in 0..MaxMeddled
  BY BoundsAssumption DEF Meddle, TypeOK
<1> QED BY <1>1, <1>2 DEF Meddle, TypeOK, clientVars

LEMMA NextType == TypeOK /\ [Next]_vars => TypeOK'
<1> SUFFICES ASSUME TypeOK, [Next]_vars PROVE TypeOK'
  OBVIOUS
<1>1. CASE UNCHANGED vars
  BY <1>1 DEF TypeOK, vars, cloudVars, clientVars, historyVars
<1> QED BY <1>1, ReadVersionType, ReadContentType, WriteType, SkipType, RereadType, EndType,
           MeddleType DEF Next, Client

LEMMA InitType == Init => TypeOK
<1> SUFFICES ASSUME Init PROVE TypeOK
  OBVIOUS
<1>1. pc \in {"version", "content", "write"}
  BY DEF Init
<1>2. version \in [Targets -> Nat] /\ seen \in [Targets -> Nat]
  BY DEF Init
<1>3. cmd \in Handlers /\ change \in Contents /\ base \in Contents
  BY EmptyType DEF Init, ChangesOf
<1>4. targets \subseteq Targets /\ left \subseteq targets /\ current \in Targets
  BY DEF Init
<1>5. failures \in Nat /\ meddled \in 0..MaxMeddled
  BY BoundsAssumption DEF Init
<1>6. disturbed \subseteq Targets
  BY DEF Init
<1> QED BY <1>1, <1>2, <1>3, <1>4, <1>5, <1>6 DEF Init, TypeOK

\* Every variable of a placement command keeps to its type.
THEOREM TypeCorrect == Spec => []TypeOK
BY InitType, NextType, PTL DEF Spec

-----------------------------------------------------------------------------
(* Generations.                                                            *)

\* A target that has not been written yet has the generation that was read, or a
\* later one, and a later one if others have updated it since; a consumer that
\* was forgotten apart.
Fresh ==
  \A t \in Targets \ (done \cup reborn) :
    version[t] >= seen[t] /\ (t \in disturbed => version[t] > seen[t])

LEMMA ReadsFresh ==
  ASSUME TypeOK, Fresh, NEW ts, Reads(ts), UNCHANGED <<version, done>>
  PROVE  Fresh'
<1> SUFFICES ASSUME NEW t \in Targets, t \notin done, t \notin reborn'
             PROVE  version[t] >= seen'[t] /\ (t \in disturbed' => version[t] > seen'[t])
  BY DEF Fresh
<1>1. version[t] \in Nat
  BY DEF TypeOK
<1>2. CASE t \in ts
  BY <1>1, <1>2 DEF Reads
<1>3. CASE t \notin ts
  BY <1>3 DEF Reads, Fresh
<1> QED BY <1>2, <1>3

LEMMA WriteFresh ==
  ASSUME TypeOK, Fresh, Write
  PROVE  Fresh'
<1>1. UNCHANGED <<seen, disturbed, reborn>>
  BY SucceededPlaced, FailedPlaced DEF Write
<1>2. CASE Store(current, Payload) /\ done' = done \cup {current}
  BY <1>1, <1>2 DEF Fresh, Store, TypeOK
<1>3. CASE UNCHANGED <<cloudVars, done>>
  BY <1>1, <1>3 DEF Fresh, cloudVars
<1> QED BY <1>2, <1>3 DEF Write

LEMMA MeddleFresh ==
  ASSUME TypeOK, Fresh, NEW t \in Targets, Meddle(t)
  PROVE  Fresh'
<1>1. UNCHANGED <<seen, done>> /\ disturbed' = disturbed \cup {t}
  BY DEF Meddle, clientVars
<1>2. PICK new \in Contents :
        /\ Store(t, new)
        /\ reborn' = IF cmd.of = "consumer" /\ new = Empty THEN reborn \cup {t} ELSE reborn
  BY DEF Meddle
<1>3. version' = [version EXCEPT ![t] = Bumped(t, new)]
  BY <1>2 DEF Store
<1> SUFFICES ASSUME NEW u \in Targets, u \notin done, u \notin reborn'
             PROVE  version'[u] >= seen[u] /\ (u \in disturbed' => version'[u] > seen[u])
  BY <1>1 DEF Fresh
<1>4. u \notin reborn /\ version[u] \in Nat /\ seen[u] \in Nat /\ version[u] >= seen[u]
  BY <1>2 DEF TypeOK, Fresh
<1>5. CASE u = t
  <2>1. version'[u] = version[u] + 1
    BY <1>2, <1>3, <1>5 DEF Bumped, TypeOK
  <2> QED BY <1>4, <2>1
<1>6. CASE u # t
  <2>1. version'[u] = version[u] /\ (u \in disturbed' => u \in disturbed)
    BY <1>1, <1>3, <1>6 DEF TypeOK
  <2> QED BY <1>4, <2>1 DEF Fresh
<1> QED BY <1>5, <1>6

\* The steps that neither read a generation nor write.
LEMMA QuietFresh ==
  Fresh /\ UNCHANGED <<version, seen, done, disturbed, reborn>> => Fresh'
BY DEF Fresh

LEMMA NextFresh == TypeOK /\ Fresh /\ [Next]_vars => Fresh'
<1> SUFFICES ASSUME TypeOK, Fresh, [Next]_vars PROVE Fresh'
  OBVIOUS
<1>1. CASE ReadVersion
  <2>1. UNCHANGED <<version, done>>
    BY <1>1 DEF ReadVersion, cloudVars
  <2>2. (\E ts : Reads(ts)) \/ UNCHANGED <<seen, disturbed, reborn>>
    BY <1>1 DEF ReadVersion, Return
  <2> QED BY <2>1, <2>2, ReadsFresh, QuietFresh
<1>2. CASE ReadContent
  <2>1. UNCHANGED <<version, done>>
    BY <1>2 DEF ReadContent, cloudVars
  <2>2. Reads({current}) \/ UNCHANGED <<seen, disturbed, reborn>>
    BY <1>2 DEF ReadContent, Return
  <2> QED BY <2>1, <2>2, ReadsFresh, QuietFresh
<1>3. CASE Write
  BY <1>3, WriteFresh
<1>4. CASE Skip \/ End \/ UNCHANGED vars
  BY <1>4, QuietFresh DEF Skip, End, Return, vars, cloudVars, clientVars, historyVars
<1>5. CASE Reread
  BY <1>5, QuietFresh DEF Reread, Return, cloudVars
<1>6. CASE \E t \in Targets : Meddle(t)
  BY <1>6, MeddleFresh
<1> QED BY <1>1, <1>2, <1>3, <1>4, <1>5, <1>6 DEF Next, Client

LEMMA InitFresh == Init => Fresh
<1> SUFFICES ASSUME Init, NEW t \in Targets
             PROVE  version[t] >= seen[t] /\ (t \in disturbed => version[t] > seen[t])
  BY DEF Fresh
<1>1. version[t] \in Nat /\ seen[t] \in Nat /\ seen[t] <= version[t]
  BY DEF Init
<1>2. t \in disturbed => seen[t] # version[t]
  BY DEF Init
<1> QED BY <1>1, <1>2

\* Only the write that the service accepts updates a target for the command.
LEMMA WritesWhatWasSeen ==
  ASSUME TypeOK, Fresh, [Next]_vars, NEW t \in done' \ done, Guarded(cmd)
  PROVE  t \notin disturbed \/ t \in reborn
<1>1. Write
  BY DEF Next, Client, ReadVersion, ReadContent, Skip, Reread, End, Meddle, vars, historyVars
<1>2. Accepted /\ t = current
  BY <1>1 DEF Write
<1>3. seen[t] = version[t]
  BY <1>2 DEF Accepted, Sent
<1>4. t \in Targets /\ version[t] \in Nat
  BY <1>2 DEF TypeOK
<1> QED BY <1>3, <1>4 DEF Fresh

\* However many providers an aggregate has, and however often others update them:
\* a write that carries a generation never hides an update its author has not
\* seen.
THEOREM SeesWhatItOverwrites == Spec => OnlyWhatWasSeen
<1>1. Spec => [](TypeOK /\ Fresh)
  <2>1. Init => TypeOK /\ Fresh
    BY InitType, InitFresh
  <2>2. TypeOK /\ Fresh /\ [Next]_vars => (TypeOK /\ Fresh)'
    BY NextType, NextFresh
  <2> QED BY <2>1, <2>2, PTL DEF Spec
<1>2. TypeOK /\ Fresh /\ [Next]_vars =>
        [\A t \in done' \ done : Guarded(cmd) => t \notin disturbed \/ t \in reborn]_vars
  BY WritesWhatWasSeen
<1> QED BY <1>1, <1>2, PTL DEF Spec, OnlyWhatWasSeen

-----------------------------------------------------------------------------
(* Bookkeeping.                                                            *)

Working == pc \in {"content", "write"}

\* The target the command is at, if any, and those behind it that it has not
\* updated.
Now == IF Working THEN {current} ELSE {}
Missed == targets \ (done \cup left \cup Now)

Books ==
  /\ done \subseteq targets /\ left \cap done = {}
  /\ Working => current \in targets \ (left \cup done)
  /\ pc = "version" => done = {} /\ failures = 0 /\ left = {}
  /\ pc = "end" => left = {}
  /\ pc # "done" => report = "running"
  /\ cmd.dry => done = {} /\ failures = 0

\* Every target that was missed has been counted.
Counted == cmd.dry \/ pc \in {"version", "done"} \/ Cardinality(Missed) <= failures

\* What was read of the current target is still there, unless its generation has
\* moved on.
BaseFresh ==
  (pc = "write" /\ cmd.reads /\ current \notin reborn /\ version[current] = seen[current]) =>
    base = content[current]

\* Consumers are not forgotten where nobody empties them.
Remembered == ~Forgets => reborn = {}

IInv == TypeOK /\ Fresh /\ Books /\ Counted /\ BaseFresh /\ Remembered

LEMMA TargetsAreFinite ==
  ASSUME NEW S, S \subseteq Targets
  PROVE  IsFiniteSet(S) /\ Cardinality(S) \in Nat
BY TargetsAssumption, FS_Subset, FS_CardinalityType

LEMMA OneMore ==
  ASSUME NEW S, S \subseteq Targets, NEW t \in Targets
  PROVE  Cardinality(S \cup {t}) <= Cardinality(S) + 1
BY TargetsAreFinite, FS_AddElement

LEMMA TurnBooks ==
  ASSUME NEW rest, Turn(rest), rest \subseteq targets', rest \cap done' = {}
  PROVE  /\ left' \cap done' = {}
         /\ Working' => current' \in targets' \ (left' \cup done')
         /\ pc' \in {"content", "write", "end"} /\ (pc' = "end" => left' = {})
         /\ Missed' = targets' \ (done' \cup rest)
         /\ pc' = "write" => ~cmd.reads
<1>1. CASE rest = {} /\ pc' = "end" /\ left' = {} /\ UNCHANGED current
  BY <1>1 DEF Working, Missed, Now
<1>2. CASE \E t \in rest : current' = t /\ left' = rest \ {t} /\ pc' = IF cmd.reads THEN "content" ELSE "write"
  BY <1>2 DEF Working, Missed, Now
<1> QED BY <1>1, <1>2 DEF Turn

LEMMA ReadVersionBooks == IInv /\ ReadVersion => Books' /\ Counted' /\ BaseFresh'
<1> SUFFICES ASSUME IInv, ReadVersion PROVE Books' /\ Counted' /\ BaseFresh'
  OBVIOUS
<1>1. UNCHANGED <<cmd, done, failures>> /\ done = {} /\ failures = 0 /\ left = {} /\ report = "running"
  BY DEF ReadVersion, Return, IInv, Books
<1>2. CASE \E ts \in (IF cmd.many THEN SUBSET Targets \ {{}} ELSE {targets}) :
              /\ targets' = ts /\ Reads(ts) /\ Turn(ts) /\ UNCHANGED <<base, failures, report>>
  <2>1. Turn(targets') /\ UNCHANGED report
    BY <1>2
  <2>2. /\ left' \cap done' = {}
        /\ Working' => current' \in targets' \ (left' \cup done')
        /\ pc' \in {"content", "write", "end"} /\ (pc' = "end" => left' = {})
        /\ Missed' = {} /\ (pc' = "write" => ~cmd.reads)
    BY <1>1, <2>1, TurnBooks
  <2>3. Cardinality(Missed') = 0
    BY <2>2, FS_EmptySet
  <2> QED BY <1>1, <2>1, <2>2, <2>3 DEF Books, Counted, BaseFresh
<1>3. CASE Return("error")
  BY <1>1, <1>3 DEF Return, Books, Counted, BaseFresh, Working
<1> QED BY <1>2, <1>3 DEF ReadVersion

LEMMA ReadContentBooks == IInv /\ ReadContent => Books' /\ Counted' /\ BaseFresh'
<1> SUFFICES ASSUME IInv, ReadContent PROVE Books' /\ Counted' /\ BaseFresh'
  OBVIOUS
<1>1. UNCHANGED <<content, version, cmd, done, left, current, targets, failures>> /\ pc = "content"
  BY DEF ReadContent, Return, cloudVars
<1>2. CASE base' = content[current] /\ pc' = "write" /\ UNCHANGED report
  <2>1. UNCHANGED <<Missed, Working>>
    BY <1>1, <1>2 DEF Missed, Now, Working
  <2> QED BY <1>1, <1>2, <2>1 DEF IInv, Books, Counted, BaseFresh
<1>3. CASE Return("error")
  BY <1>1, <1>3 DEF Return, IInv, Books, Counted, BaseFresh, Working
<1> QED BY <1>2, <1>3 DEF ReadContent

LEMMA WriteBooks == IInv /\ Write => Books' /\ Counted' /\ BaseFresh'
<1> SUFFICES ASSUME IInv, Write PROVE Books' /\ Counted' /\ BaseFresh'
  OBVIOUS
<1>1. /\ pc = "write" /\ ~cmd.dry /\ report = "running" /\ UNCHANGED <<cmd, targets>>
      /\ current \in targets \ (left \cup done) /\ left \subseteq targets /\ left \cap done = {}
      /\ done \subseteq targets /\ Cardinality(Missed) <= failures /\ failures \in Nat
      /\ Missed = targets \ (done \cup left \cup {current}) /\ targets \subseteq Targets
  BY SucceededPlaced, FailedPlaced DEF Write, IInv, TypeOK, Books, Counted, Working, Missed, Now
<1>2. \/ Succeeded /\ done' = done \cup {current}
      \/ Failed /\ done' \in {done, done \cup {current}}
  BY DEF Write, cloudVars
<1>3. done' \subseteq targets /\ left \cap done' = {}
  BY <1>1, <1>2
<1>4. CASE Return("error")
  BY <1>1, <1>3, <1>4 DEF Return, Books, Counted, BaseFresh, Working
<1>5. CASE Turn(left) /\ UNCHANGED report /\ failures' \in Nat
           /\ Cardinality(targets \ (done' \cup left)) <= failures'
  <2>1. /\ left' \cap done' = {}
        /\ Working' => current' \in targets' \ (left' \cup done')
        /\ pc' \in {"content", "write", "end"} /\ (pc' = "end" => left' = {})
        /\ Missed' = targets \ (done' \cup left) /\ (pc' = "write" => ~cmd.reads)
    BY <1>1, <1>3, <1>5, TurnBooks
  <2> QED BY <1>1, <1>3, <1>5, <2>1 DEF Books, Counted, BaseFresh
<1>6. CASE Succeeded /\ done' = done \cup {current}
  <2>1. targets \ (done' \cup left) = Missed
    BY <1>1, <1>2, <1>6
  <2>2. CASE cmd.reread
    <3>1. pc' = "reread" /\ UNCHANGED <<left, report, failures>>
      BY <1>6, <2>2 DEF Succeeded
    <3>2. Missed' = Missed
      BY <1>1, <2>1, <3>1 DEF Missed, Now, Working
    <3> QED BY <1>1, <1>3, <3>1, <3>2 DEF Books, Counted, BaseFresh, Working
  <2>3. CASE ~cmd.reread
    BY <1>1, <1>5, <1>6, <2>1, <2>3 DEF Succeeded
  <2> QED BY <2>2, <2>3
<1>7. CASE Failed /\ cmd.many
  <2>1. Turn(left) /\ UNCHANGED report /\ failures' = failures + 1
    BY <1>7 DEF Failed, CountFailure
  <2>2. targets \ (done' \cup left) \subseteq Missed \cup {current}
    BY <1>1, <1>2
  <2>3. Cardinality(targets \ (done' \cup left)) <= Cardinality(Missed \cup {current})
    BY <1>1, <2>2, TargetsAreFinite, FS_Subset
  <2>4. Cardinality(Missed \cup {current}) <= Cardinality(Missed) + 1
    BY <1>1, OneMore
  <2>5. /\ Cardinality(targets \ (done' \cup left)) \in Nat /\ Cardinality(Missed) \in Nat
        /\ Cardinality(Missed \cup {current}) \in Nat
    BY <1>1, TargetsAreFinite
  <2> QED BY <1>1, <1>5, <2>1, <2>3, <2>4, <2>5
<1>8. CASE Failed /\ ~cmd.many
  BY <1>4, <1>8 DEF Failed
<1> QED BY <1>2, <1>6, <1>7, <1>8

LEMMA OtherBooks == IInv /\ (Skip \/ Reread \/ End) => Books' /\ Counted' /\ BaseFresh'
<1> SUFFICES ASSUME IInv, Skip \/ Reread \/ End PROVE Books' /\ Counted' /\ BaseFresh'
  OBVIOUS
<1>1. /\ UNCHANGED <<cmd, targets, done, failures>> /\ report = "running" /\ pc \in {"write", "reread", "end"}
      /\ done \subseteq targets /\ left \cap done = {} /\ left \subseteq targets
  BY DEF Skip, Reread, End, Return, IInv, TypeOK, Books, historyVars
<1>2. CASE Turn(left) /\ UNCHANGED report /\ (pc = "reread" \/ cmd.dry)
  <2>1. /\ left' \cap done' = {}
        /\ Working' => current' \in targets' \ (left' \cup done')
        /\ pc' \in {"content", "write", "end"} /\ (pc' = "end" => left' = {})
        /\ Missed' = targets \ (done \cup left) /\ (pc' = "write" => ~cmd.reads)
    BY <1>1, <1>2, TurnBooks
  <2>2. pc = "reread" => Missed' = Missed
    BY <2>1 DEF Missed, Now, Working
  <2> QED BY <1>1, <1>2, <2>1, <2>2 DEF IInv, Books, Counted, BaseFresh
<1>3. CASE pc' = "done" /\ UNCHANGED left
  BY <1>1, <1>3 DEF IInv, Books, Counted, BaseFresh, Working
<1> QED BY <1>2, <1>3 DEF Skip, Reread, End, Return

LEMMA MeddleBooks ==
  ASSUME IInv, NEW t \in Targets, Meddle(t)
  PROVE  Books' /\ Counted' /\ BaseFresh' /\ Remembered'
<1>1. UNCHANGED <<clientVars, done>>
  BY DEF Meddle
<1>2. PICK new \in Contents :
        /\ cmd.of = "consumer" /\ new = Empty => Forgets
        /\ Store(t, new)
        /\ reborn' = IF cmd.of = "consumer" /\ new = Empty THEN reborn \cup {t} ELSE reborn
  BY DEF Meddle
<1>3. UNCHANGED <<Missed, Working>>
  BY <1>1 DEF Missed, Now, Working, clientVars
<1>4. Books' /\ Counted'
  BY <1>1, <1>3 DEF IInv, Books, Counted, clientVars
<1>5. Remembered'
  BY <1>2 DEF IInv, Remembered
<1>6. ASSUME pc = "write", cmd.reads, current \notin reborn', version'[current] = seen[current]
      PROVE  base = content'[current]
  <2>1. current \in Targets \ (done \cup reborn) /\ reborn \subseteq reborn'
    BY <1>2, <1>6 DEF IInv, Books, TypeOK, Working
  <2>2. version[current] >= seen[current] /\ version[current] \in Nat /\ seen[current] \in Nat
    BY <2>1 DEF IInv, Fresh, TypeOK
  <2>3. CASE t = current
    <3>1. version'[current] = version[current] + 1
      BY <1>2, <1>6, <2>1, <2>3 DEF Store, Bumped, IInv, TypeOK
    <3> QED BY <1>6, <2>2, <3>1
  <2>4. CASE t # current
    <3>1. version'[current] = version[current] /\ content'[current] = content[current]
      BY <1>2, <2>1, <2>4 DEF Store, IInv, TypeOK
    <3> QED BY <1>6, <2>1, <3>1 DEF IInv, BaseFresh
  <2> QED BY <2>3, <2>4
<1>7. BaseFresh'
  BY <1>1, <1>6 DEF BaseFresh, clientVars
<1> QED BY <1>4, <1>5, <1>7

LEMMA NextKeeps == IInv /\ [Next]_vars => IInv'
<1> SUFFICES ASSUME IInv, [Next]_vars PROVE IInv'
  OBVIOUS
<1>1. TypeOK' /\ Fresh'
  BY NextType, NextFresh DEF IInv
<1>2. CASE \E t \in Targets : Meddle(t)
  BY <1>1, <1>2, MeddleBooks DEF IInv
<1>3. CASE UNCHANGED vars
  <2>1. UNCHANGED <<Missed, Working>>
    BY <1>3 DEF Missed, Now, Working, vars, clientVars, historyVars
  <2> QED BY <1>1, <1>3, <2>1
       DEF IInv, Books, Counted, BaseFresh, Remembered, vars, cloudVars, clientVars, historyVars
<1>4. CASE Client
  <2>1. Books' /\ Counted' /\ BaseFresh'
    BY <1>4, ReadVersionBooks, ReadContentBooks, WriteBooks, OtherBooks DEF Client
  <2>2. reborn' \subseteq reborn
    BY <1>4 DEF Client, ReadVersion, ReadContent, Write, Skip, Reread, End, Reads, historyVars
  <2> QED BY <1>1, <2>1, <2>2 DEF IInv, Remembered
<1> QED BY <1>2, <1>3, <1>4 DEF Next

LEMMA InitKeeps == Init => IInv
<1> SUFFICES ASSUME Init PROVE IInv
  OBVIOUS
<1>1. TypeOK /\ Fresh
  BY InitType, InitFresh
<1>2. /\ done = {} /\ left = {} /\ failures = 0 /\ reborn = {} /\ report = "running"
      /\ pc \in {"version", "content", "write"} /\ (pc = "write" => ~cmd.reads)
  <2>1. pc = IF cmd.version = "read" THEN "version" ELSE IF cmd.reads THEN "content" ELSE "write"
    BY DEF Init
  <2>2. pc \in {"version", "content", "write"} /\ (pc = "write" => ~cmd.reads)
    BY <2>1
  <2> QED BY <2>2 DEF Init
<1>3. pc # "version" => targets = {current}
  <2>1. cmd \in Handlers /\ (cmd.version = "read" => pc = "version")
    BY DEF Init
  <2>2. cmd.many => cmd.version = "read"
    BY <2>1, HandlersAssumption
  <2> QED BY <2>1, <2>2 DEF Init
<1>4. pc # "version" => Missed = {}
  BY <1>2, <1>3 DEF Missed, Now, Working
<1>5. Counted
  BY <1>2, <1>4, FS_EmptySet DEF Counted
<1>6. Books
  BY <1>2, <1>3 DEF Books, Working
<1> QED BY <1>1, <1>2, <1>5, <1>6 DEF IInv, BaseFresh, Remembered

-----------------------------------------------------------------------------
(* The command implements its contract.                                    *)

LEMMA SameCount == \A S : Atomic!Cardinality(S) = Cardinality(S)
BY DEF Atomic!Cardinality, Cardinality

LEMMA SameEdit ==
  \A edit, delta, amounts : Atomic!Applied(edit, delta, amounts) = Applied(edit, delta, amounts)
BY DEF Atomic!Applied, Applied

LEMMA SilentWhileRunning ==
  ASSUME IInv, pc # "done"
  PROVE  [kind |-> report, failures |-> IF report = "count" THEN failures ELSE 0] = Atomic!Silent
BY DEF IInv, Books, Atomic!Silent

LEMMA WriteIsAtomic ==
  ASSUME IInv, Write, ~Forgets, cmd.reads => Guarded(cmd)
  PROVE  \/ UNCHANGED <<content, done>>
         \/ /\ current \in targets \ done
            /\ content' = [content EXCEPT ![current] = Applied(cmd.edit, change, @)]
            /\ done' = done \cup {current}
<1>1. CASE Accepted /\ Store(current, Payload) /\ done' = done \cup {current}
  <2>1. pc = "write" /\ current \in targets \ done /\ reborn = {}
    BY DEF Write, IInv, Books, Working, Remembered
  <2>2. cmd.reads => base = content[current]
    BY <1>1, <2>1 DEF IInv, BaseFresh, Accepted, Sent
  <2>3. Payload = Applied(cmd.edit, change, content[current])
    BY <2>2 DEF Payload
  <2> QED BY <1>1, <2>1, <2>3 DEF Store
<1>2. CASE UNCHANGED <<cloudVars, done>>
  BY <1>2 DEF cloudVars
<1> QED BY <1>1, <1>2 DEF Write

LEMMA AtomicNext ==
  ASSUME ~Forgets, \A h \in Handlers : h.reads => Guarded(h), IInv, [Next]_vars
  PROVE  [Atomic!Next]_(Atomic!vars)
<1> DEFINE verdict == [kind |-> report, failures |-> IF report = "count" THEN failures ELSE 0]
<1>0. cmd.reads => Guarded(cmd)
  BY DEF IInv, TypeOK
<1>1. CASE UNCHANGED <<cmd, change, targets, done, report>> /\ report = "running"
  <2>1. verdict' = verdict
    BY <1>1
  <2> QED BY <1>1, <2>1 DEF Atomic!Next, Atomic!Others
<1>2. CASE UNCHANGED <<content, cmd, change, targets, done>> /\ report' = "error" /\ pc # "done"
  <2>1. verdict = Atomic!Silent /\ verdict'.kind = "error"
    BY <1>2, SilentWhileRunning
  <2> QED BY <1>2, <2>1 DEF Atomic!Next, Atomic!GiveUp
<1>3. CASE ReadVersion
  <2>1. CASE Return("error")
    BY <1>2, <1>3, <2>1 DEF ReadVersion, Return, cloudVars
  <2>2. CASE UNCHANGED <<content, cmd, change, done, report, failures>>
    <3>1. verdict' = verdict /\ verdict = Atomic!Silent /\ done = {} /\ report = "running"
      BY <1>3, <2>2, SilentWhileRunning DEF ReadVersion, IInv, Books
    <3> QED BY <2>2, <3>1 DEF Atomic!Next, Atomic!Find, Atomic!Others
  <2> QED BY <1>3, <2>1, <2>2 DEF ReadVersion, cloudVars
<1>4. CASE ReadContent
  <2>1. pc # "done" /\ report = "running"
    BY <1>4 DEF ReadContent, IInv, Books
  <2> QED BY <1>1, <1>2, <1>4, <2>1 DEF ReadContent, Return, cloudVars
<1>5. CASE Write
  <2>1. pc # "done" /\ report = "running" /\ UNCHANGED <<cmd, change, targets>> /\ report' \in {"running", "error"}
    BY <1>5, SucceededPlaced, FailedPlaced DEF Write, IInv, Books, Succeeded, Failed, Return
  <2>2. verdict = Atomic!Silent
    BY <2>1, SilentWhileRunning
  <2>3. CASE UNCHANGED <<content, done>>
    BY <1>1, <1>2, <2>1, <2>3
  <2>4. CASE /\ current \in targets \ done
             /\ content' = [content EXCEPT ![current] = Applied(cmd.edit, change, @)]
             /\ done' = done \cup {current}
    <3>1. Atomic!Update(current) /\ current \in targets
      BY <2>1, <2>2, <2>4, SameEdit DEF Atomic!Update
    <3>2. CASE report' = "running"
      BY <2>1, <3>1, <3>2 DEF Atomic!Next
    <3>3. CASE report' = "error"
      BY <2>2, <3>1, <3>3 DEF Atomic!Next, Atomic!GiveUp
    <3> QED BY <2>1, <3>2, <3>3
  <2> QED BY <1>0, <1>5, <2>3, <2>4, WriteIsAtomic
<1>6. CASE Skip
  BY <1>1, <1>6 DEF Skip, IInv, Books, historyVars
<1>7. CASE Reread
  <2>1. pc # "done" /\ report = "running"
    BY <1>7 DEF Reread, IInv, Books
  <2> QED BY <1>1, <1>2, <1>7, <2>1 DEF Reread, Return, cloudVars
<1>8. CASE End
  <2>1. /\ pc = "end" /\ left = {} /\ UNCHANGED <<content, cmd, change, targets, done, failures>>
        /\ report' = (IF failures > 0 THEN "count" ELSE "ok") /\ failures \in Nat
        /\ done \subseteq targets /\ targets \subseteq Targets
        /\ Missed = targets \ done
    BY <1>8 DEF End, Return, IInv, TypeOK, Books, Missed, Now, Working, cloudVars, historyVars
  <2>2. verdict = Atomic!Silent
    BY <2>1, SilentWhileRunning
  <2>3. cmd.dry => done = {} /\ failures = 0
    BY DEF IInv, Books
  <2>4. ~cmd.dry => Cardinality(targets \ done) <= failures
    BY <2>1 DEF IInv, Counted
  <2>5. CASE failures > 0
    <3>1. Cardinality(targets \ done) <= failures
      BY <2>3, <2>4, <2>5
    <3>2. Cardinality(targets) <= failures + Cardinality(done)
      <4>1. /\ IsFiniteSet(done) /\ IsFiniteSet(targets \ done) /\ IsFiniteSet(targets)
            /\ Cardinality(done) \in Nat /\ Cardinality(targets \ done) \in Nat
            /\ Cardinality(targets) \in Nat
        BY <2>1, TargetsAreFinite
      <4>2. targets = done \cup (targets \ done) /\ done \cap (targets \ done) = {}
        BY <2>1
      <4>3. Cardinality(targets) = Cardinality(done) + Cardinality(targets \ done)
        BY <4>1, <4>2, FS_Union, FS_EmptySet
      <4> QED BY <2>1, <3>1, <4>1, <4>3
    <3>3. verdict'.kind = "count" /\ verdict'.failures = failures
      BY <2>1, <2>5
    <3> QED BY <2>1, <2>2, <2>5, <3>2, <3>3, SameCount DEF Atomic!Next, Atomic!Conclude
  <2>6. CASE ~(failures > 0)
    <3>1. ~cmd.dry => targets \ done = {}
      <4>1. ASSUME ~cmd.dry PROVE Cardinality(targets \ done) = 0
        BY <2>1, <2>4, <2>6, <4>1, TargetsAreFinite
      <4> QED BY <2>1, <4>1, TargetsAreFinite, FS_EmptySet
    <3>2. done = (IF cmd.dry THEN {} ELSE targets)
      BY <2>1, <2>3, <3>1
    <3>3. verdict'.kind = "ok"
      BY <2>1, <2>6
    <3> QED BY <2>1, <2>2, <3>2, <3>3 DEF Atomic!Next, Atomic!Conclude
  <2> QED BY <2>5, <2>6
<1>9. CASE \E t \in Targets : Meddle(t)
  BY <1>1, <1>9 DEF Meddle, clientVars, IInv, Books
<1>10. CASE UNCHANGED vars
  BY <1>10 DEF vars, cloudVars, clientVars, historyVars, Atomic!vars
<1> QED BY <1>3, <1>4, <1>5, <1>6, <1>7, <1>8, <1>9, <1>10 DEF Next, Client

LEMMA AtomicInit == Init => Atomic!Init
BY DEF Init, Atomic!Init, Atomic!Silent

\* Where everything that is made of what was read carries a generation, and no
\* consumer is forgotten meanwhile, a command that reads, edits and writes cannot
\* be told from one that does so at once.
THEOREM ImplementsAtomic ==
  ASSUME ~Forgets, \A h \in Handlers : h.reads => Guarded(h)
  PROVE  Spec => KeepsContract
<1>1. Spec => []IInv
  BY InitKeeps, NextKeeps, PTL DEF Spec
<1>2. IInv /\ [Next]_vars => [Atomic!Next]_(Atomic!vars)
  BY AtomicNext
<1> QED BY <1>1, <1>2, AtomicInit, PTL DEF Spec, Atomic!Spec, KeepsContract

-----------------------------------------------------------------------------
(* What is left out.                                                       *)

\* Of the providers of an aggregate, those that nobody has updated have the
\* generation that the listing showed.
Same ==
  cmd.many /\ pc # "version" /\ report # "error" =>
    \A t \in targets \ (done \cup disturbed) : seen[t] = version[t]

\* A provider behind the loop was updated or there is a reason; only a command
\* over an aggregate counts, and only at the end of its loop.
Reasons ==
  /\ cmd.many /\ ~cmd.dry /\ report # "error" /\ pc # "version" => Missed \subseteq disturbed \cup faulted
  /\ ~cmd.many => failures = 0
  /\ report = "count" => cmd.many /\ ~cmd.dry /\ left = {} /\ pc = "done"

RInv == IInv /\ Same /\ Reasons

LEMMA ManyFacts ==
  ASSUME IInv, cmd.many
  PROVE  cmd.version = "read" /\ cmd.of = "provider" /\ Guarded(cmd)
BY HandlersAssumption DEF IInv, TypeOK, Guarded

LEMMA ReadVersionReasons == RInv /\ ReadVersion => Same' /\ Reasons'
<1> SUFFICES ASSUME RInv, ReadVersion PROVE Same' /\ Reasons'
  OBVIOUS
<1>1. /\ UNCHANGED <<cmd, done, failures, version, faulted>> /\ done = {} /\ failures = 0
      /\ report = "running"
  BY DEF ReadVersion, Return, RInv, IInv, Books, cloudVars
<1>2. CASE \E ts \in (IF cmd.many THEN SUBSET Targets \ {{}} ELSE {targets}) :
              /\ targets' = ts /\ Reads(ts) /\ Turn(ts) /\ UNCHANGED <<base, failures, report>>
  <2>1. Turn(targets') /\ Reads(targets') /\ UNCHANGED report
    BY <1>2
  <2>2. Missed' = {}
    BY <1>1, <2>1, TurnBooks
  <2>3. targets' \subseteq Targets
    BY <1>2 DEF RInv, IInv, TypeOK
  <2>4. Same'
    BY <1>1, <2>1, <2>3 DEF Same, Reads
  <2>. QED
    BY <1>1, <2>1, <2>2, <2>4 DEF Reasons
<1>3. CASE Return("error") /\ UNCHANGED <<disturbed, reborn>>
  BY <1>1, <1>3 DEF Return, Same, Reasons, RInv
<1>. QED
  BY <1>2, <1>3 DEF ReadVersion

LEMMA ReadContentReasons == RInv /\ ReadContent => Same' /\ Reasons'
<1> SUFFICES ASSUME RInv, ReadContent PROVE Same' /\ Reasons'
  OBVIOUS
<1>1. /\ UNCHANGED <<cloudVars, cmd, done, left, current, targets, failures>>
      /\ pc = "content" /\ report = "running" /\ faulted \subseteq faulted'
  BY DEF ReadContent, Return, RInv, IInv, Books, Fault, NoFault
<1>2. CASE Return("error")
  BY <1>1, <1>2 DEF Return, Same, Reasons, RInv
<1>3. CASE /\ pc' = "write" /\ UNCHANGED report
           /\ IF cmd.version = "content" THEN Reads({current}) ELSE UNCHANGED <<seen, disturbed, reborn>>
  <2>1. cmd.many => UNCHANGED <<seen, disturbed>>
    BY <1>3, ManyFacts DEF RInv
  <2>2. Missed' = Missed
    BY <1>1, <1>3 DEF Missed, Now, Working
  <2>. QED
    BY <1>1, <1>3, <2>1, <2>2 DEF Same, Reasons, RInv, cloudVars
<1>. QED
  BY <1>2, <1>3 DEF ReadContent

LEMMA WriteReasons == RInv /\ Write => Same' /\ Reasons'
<1> SUFFICES ASSUME RInv, Write PROVE Same' /\ Reasons'
  OBVIOUS
<1>1. /\ pc = "write" /\ ~cmd.dry /\ report = "running"
      /\ UNCHANGED <<cmd, targets, seen, disturbed>> /\ faulted \subseteq faulted'
      /\ current \in targets \ (left \cup done) /\ left \subseteq targets /\ left \cap done = {}
      /\ done \subseteq targets /\ targets \subseteq Targets
      /\ Missed = targets \ (done \cup left \cup {current})
  BY SucceededPlaced, FailedPlaced DEF Write, RInv, IInv, TypeOK, Books, Working, Missed, Now, Fault, NoFault
<1>2. \/ Succeeded /\ done' = done \cup {current}
      \/ /\ Failed /\ done' \in {done, done \cup {current}}
         /\ current \in faulted' \/ ~Accepted
  BY DEF Write, cloudVars, Fault, NoFault
<1>3. \A t \in targets \ done' : version'[t] = version[t]
  BY <1>1 DEF Write, Store, cloudVars, RInv, IInv, TypeOK
<1>4. Same'
  BY <1>1, <1>2, <1>3 DEF RInv, Same
<1>5. ~cmd.many => failures' = 0
  BY <1>2 DEF Succeeded, Failed, Return, RInv, Reasons
<1>6. report' \in {"running", "error"}
  BY <1>1, <1>2 DEF Succeeded, Failed, Return
<1>7. ASSUME cmd.many, report' # "error"
      PROVE  Missed' \subseteq disturbed \cup faulted'
  <2>1. Missed \subseteq disturbed \cup faulted'
    BY <1>1, <1>7 DEF RInv, Reasons
  <2>2. CASE Succeeded /\ done' = done \cup {current} /\ cmd.reread
    BY <1>1, <2>1, <2>2 DEF Succeeded, Missed, Now, Working
  <2>3. CASE Succeeded /\ done' = done \cup {current} /\ ~cmd.reread
    <3>1. Turn(left) /\ left \cap done' = {}
      BY <1>1, <2>3 DEF Succeeded
    <3>2. Missed' = targets \ (done' \cup left)
      BY <1>1, <3>1, TurnBooks
    <3>. QED
      BY <1>1, <2>1, <2>3, <3>2
  <2>4. CASE Failed /\ done' \in {done, done \cup {current}} /\ (current \in faulted' \/ ~Accepted)
    <3>1. Turn(left) /\ left \cap done' = {}
      BY <1>1, <1>7, <2>4 DEF Failed
    <3>2. Missed' = targets \ (done' \cup left)
      BY <1>1, <3>1, TurnBooks
    <3>3. ~Accepted => seen[current] # version[current]
      BY <1>7, ManyFacts DEF Accepted, Sent, RInv
    <3>4. current \in disturbed \cup faulted'
      BY <1>1, <1>7, <2>4, <3>3 DEF RInv, Same
    <3>. QED
      BY <1>1, <2>1, <2>4, <3>2, <3>4
  <2>. QED
    BY <1>2, <2>2, <2>3, <2>4
<1>. QED
  BY <1>1, <1>4, <1>5, <1>6, <1>7 DEF Reasons

LEMMA OtherReasons == RInv /\ (Skip \/ Reread \/ End) => Same' /\ Reasons'
<1> SUFFICES ASSUME RInv, Skip \/ Reread \/ End PROVE Same' /\ Reasons'
  OBVIOUS
<1>1. /\ UNCHANGED <<version, cmd, targets, seen, done, disturbed, failures>> /\ faulted \subseteq faulted'
      /\ report = "running" /\ pc \in {"write", "reread", "end"}
      /\ done \subseteq targets /\ left \cap done = {} /\ left \subseteq targets
  BY DEF Skip, Reread, End, Return, RInv, IInv, TypeOK, Books, cloudVars, historyVars, Fault, NoFault
<1>2. Same'
  BY <1>1 DEF RInv, Same
<1>3. CASE Skip
  BY <1>1, <1>2, <1>3 DEF Skip, Reasons, RInv
<1>4. CASE Reread
  <2>1. CASE Return("error")
    BY <1>1, <1>2, <2>1 DEF Return, RInv, Reasons
  <2>2. CASE Turn(left) /\ UNCHANGED report
    <3>1. Missed' = targets \ (done \cup left) /\ Missed' = Missed
      BY <1>1, <1>4, <2>2, TurnBooks DEF Reread, Missed, Now, Working
    <3>. QED
      BY <1>1, <1>2, <1>4, <2>2, <3>1 DEF Reread, RInv, Reasons
  <2>. QED
    BY <1>2, <1>4, <2>1, <2>2 DEF Reread
<1>5. CASE End
  <2>1. /\ left = {} /\ pc = "end" /\ pc' = "done" /\ left' = left /\ UNCHANGED faulted
        /\ report' = IF failures > 0 THEN "count" ELSE "ok"
    BY <1>5 DEF End, Return, RInv, IInv, Books, historyVars
  <2>2. Missed' = Missed
    BY <1>1, <2>1 DEF Missed, Now, Working
  <2>3. report' = "count" => cmd.many /\ ~cmd.dry
    BY <2>1 DEF RInv, IInv, Books, Reasons
  <2>. QED
    BY <1>1, <1>2, <2>1, <2>2, <2>3 DEF RInv, Reasons
<1>. QED
  BY <1>3, <1>4, <1>5

LEMMA MeddleReasons ==
  ASSUME RInv, NEW t \in Targets, Meddle(t)
  PROVE  Same' /\ Reasons'
<1>1. UNCHANGED <<clientVars, done, faulted>> /\ disturbed' = disturbed \cup {t}
  BY DEF Meddle
<1>2. \A u \in Targets \ {t} : version'[u] = version[u]
  BY DEF Meddle, Store, RInv, IInv, TypeOK
<1>3. Missed' = Missed
  BY <1>1 DEF Missed, Now, Working, clientVars
<1>4. Same'
  BY <1>1, <1>2 DEF RInv, IInv, TypeOK, Same, clientVars
<1>. QED
  BY <1>1, <1>3, <1>4 DEF RInv, Reasons, clientVars

LEMMA NextReasons == RInv /\ [Next]_vars => RInv'
<1> SUFFICES ASSUME RInv, [Next]_vars PROVE RInv'
  OBVIOUS
<1>1. IInv'
  BY NextKeeps DEF RInv
<1>2. CASE UNCHANGED vars
  <2>1. Missed' = Missed
    BY <1>2 DEF Missed, Now, Working, vars, clientVars, historyVars
  <2>. QED
    BY <1>1, <1>2, <2>1 DEF RInv, Same, Reasons, vars, cloudVars, clientVars, historyVars
<1>3. CASE Next
  BY <1>1, <1>3, ReadVersionReasons, ReadContentReasons, WriteReasons, OtherReasons, MeddleReasons
     DEF Next, Client, RInv
<1>. QED
  BY <1>2, <1>3

LEMMA InitReasons == Init => RInv
<1> SUFFICES ASSUME Init PROVE RInv
  OBVIOUS
<1>1. IInv
  BY InitKeeps
<1>2. cmd.many => pc = "version"
  BY <1>1, ManyFacts DEF Init
<1>. QED
  BY <1>1, <1>2 DEF Init, RInv, Same, Reasons

\* With an aggregate, a provider is left out only if others updated it after the
\* listing or its own request failed.
THEOREM NoneIsLeftOut == Spec => []FailsForAReason
<1>1. RInv => FailsForAReason
  <2> SUFFICES ASSUME RInv, report = "count" PROVE targets \ done \subseteq disturbed \cup faulted
    BY DEF FailsForAReason
  <2>1. Missed = targets \ done
    BY DEF RInv, Reasons, Missed, Now, Working
  <2>. QED
    BY <2>1 DEF RInv, Reasons
<1>. QED
  BY <1>1, InitReasons, NextReasons, PTL DEF Spec
=============================================================================
