-------------------------- MODULE ReadCommand_proofs --------------------------
(***************************************************************************)
(* Proofs about the commands that read: what they show was there, was what *)
(* the argument meant, and has a name it had, for any programs of steps,   *)
(* any cloud and any number of changes by others and of failed requests.   *)
(***************************************************************************)
EXTENDS ReadCommand, FiniteSetTheorems, WellFoundedInduction, TLAPS

\* A program has a length, and its steps are of the known kinds.
LEMMA ProgramIsFinite ==
  ASSUME program \in Programs
  PROVE  /\ Len(program) \in Nat
         /\ \A k \in 1..Len(program) : program[k].do \in Kinds /\ program[k].by \in Hows
<1>1. program \in Seq({program[k] : k \in 1..Len(program)})
  BY ProgramsAssumption
<1>2. Len(program) \in Nat
  BY <1>1
<1>. QED
  BY <1>2, ProgramsAssumption

-----------------------------------------------------------------------------
(* Type correctness.                                                       *)

\* The control of a step that goes on or ends the command.
LEMMA ControlHasType ==
  ASSUME TypeOK, verdict = "running", pc <= Len(program), Advance \/ Stop
  PROVE  pc' \in 1..Len(program) + 1 /\ verdict' \in {"running", "ok", "failed"}
BY ProgramIsFinite DEF TypeOK, Advance, Stop

LEMMA FaultHasType ==
  ASSUME TypeOK, Fault
  PROVE  faulted' \in 0..MaxFaulted
BY BoundsAssumption DEF TypeOK, Fault

LEMMA ExcuseHasType ==
  ASSUME TypeOK, NEW e \in Excuses, Excuse(e)
  PROVE  excuses' \subseteq Excuses
BY DEF TypeOK, Excuse

LEMMA WorldHasType ==
  ASSUME TypeOK
  PROVE  /\ \A t \in Things : world.name[t] \in ThingNames \cup {Gone}
         /\ \A i \in Items : world.of[i] \in Things \cup {Gone}
         /\ world.name \in [Things -> ThingNames \cup {Gone}]
BY DEF TypeOK, Worlds

LEMMA ReceiveHasType ==
  ASSUME TypeOK, NEW S, Receive(S)
  PROVE  rows' \in [Items -> Things \cup {Gone}]
BY WorldHasType DEF TypeOK, Receive

LEMMA LookHasType ==
  ASSUME TypeOK, NEW t \in Things, Look(t)
  PROVE  found' \in Things \cup {None} /\ label' \in ThingNames \cup {Gone} /\ UNCHANGED detail
BY WorldHasType DEF Look

LEMMA InitType == Init => TypeOK
<1>. SUFFICES ASSUME Init
              PROVE  TypeOK
  OBVIOUS
<1>1. Len(program) \in Nat
  BY ProgramIsFinite DEF Init
<1>2. arg \in Things \cup ThingNames \cup {None}
  BY DEF Init, Takes
<1>3. world \in Worlds /\ seen \subseteq Worlds
  BY CloudsAssumption DEF Init
<1>. QED
  BY <1>1, <1>2, <1>3, BoundsAssumption DEF Init, TypeOK, Excuses

LEMMA CheckArgumentsType == TypeOK /\ CheckArguments => TypeOK'
<1>. SUFFICES ASSUME TypeOK, CheckArguments
              PROVE  TypeOK'
  OBVIOUS
<1>1. pc' \in 1..Len(program) + 1 /\ verdict' \in {"running", "ok", "failed"}
  BY ControlHasType DEF CheckArguments, Do
<1>. QED
  BY <1>1 DEF CheckArguments, TypeOK, argVars, tableVars, showVars

LEMMA AskServiceType == TypeOK /\ AskService => TypeOK'
<1>. SUFFICES ASSUME TypeOK, AskService
              PROVE  TypeOK'
  OBVIOUS
<1>1. pc' \in 1..Len(program) + 1 /\ verdict' \in {"running", "ok", "failed"}
  BY ControlHasType DEF AskService, Do
<1>2. faulted' \in 0..MaxFaulted
  BY FaultHasType DEF AskService, TypeOK
<1>. QED
  BY <1>1, <1>2 DEF AskService, TypeOK, argVars, tableVars, showVars

LEMMA UnresolvedHasType ==
  ASSUME TypeOK, verdict = "running", pc <= Len(program), Unresolved
  PROVE  /\ pc' \in 1..Len(program) + 1 /\ verdict' \in {"running", "ok", "failed"}
         /\ key' \in Things \cup ThingNames \cup {None}
         /\ excuses' \subseteq Excuses
<1>1. Advance \/ Stop
  BY DEF Unresolved
<1>2. key' \in Things \cup ThingNames \cup {None}
  BY DEF Unresolved, TypeOK
<1>3. excuses' \subseteq Excuses
  BY DEF Unresolved, TypeOK, Excuse, Excuses
<1>. QED
  BY <1>1, <1>2, <1>3, ControlHasType

LEMMA HitsAreThings == Hits \subseteq Things
<1>1. \A S : Only(S) \subseteq S
  BY DEF Only
<1>2. \A x : WithId(world, x) \subseteq Things /\ WithName(world, x) \subseteq Things
  BY DEF WithId, WithName
<1>3. \A x : Meant(world, x) \subseteq Things
  BY <1>2 DEF Meant
<1>. QED
  BY <1>1, <1>2, <1>3 DEF Hits

LEMMA LookAgainType == TypeOK /\ LookAgain => TypeOK'
<1>. SUFFICES ASSUME TypeOK, LookAgain
              PROVE  TypeOK'
  OBVIOUS
<1>1. faulted' \in 0..MaxFaulted /\ excuses' \subseteq Excuses
  BY FaultHasType DEF LookAgain, Excuse, Excuses, TypeOK
<1>2. second' \in Things \cup ThingNames \cup {None}
  BY HitsAreThings DEF LookAgain, TypeOK
<1>. QED
  BY <1>1, <1>2 DEF LookAgain, TypeOK, argVars, tableVars, showVars

LEMMA ResolveType == TypeOK /\ Resolve => TypeOK'
<1>. SUFFICES ASSUME TypeOK, Resolve
              PROVE  TypeOK'
  OBVIOUS
<1>1. verdict = "running" /\ pc <= Len(program)
  BY DEF Resolve, Do
<1>2. /\ pc' \in 1..Len(program) + 1 /\ verdict' \in {"running", "ok", "failed"}
      /\ key' \in Things \cup ThingNames \cup {None}
      /\ excuses' \subseteq Excuses
      /\ faulted' \in 0..MaxFaulted
  <2>1. CASE (\E t \in Things : Hit(t) /\ key' = t) /\ Advance /\ UNCHANGED <<excuses, faulted>>
    BY <1>1, <2>1, ControlHasType DEF TypeOK
  <2>2. CASE Misses /\ Unresolved
    <3>1. faulted' \in 0..MaxFaulted
      BY <2>2, FaultHasType DEF Misses, TypeOK
    <3>. QED
      BY <1>1, <2>2, <3>1, UnresolvedHasType
  <2>. QED
    BY <2>1, <2>2 DEF Resolve
<1>. QED
  BY <1>2 DEF Resolve, TypeOK, argVars, tableVars, showVars

LEMMA SendType == TypeOK /\ Send => TypeOK'
<1>. SUFFICES ASSUME TypeOK, Send
              PROVE  TypeOK'
  OBVIOUS
<1>1. pc' \in 1..Len(program) + 1 /\ verdict' \in {"running", "ok", "failed"}
  BY ControlHasType DEF Send, Do
<1>2. excuses' \subseteq Excuses
  BY DEF Send, Excuse, Excuses, TypeOK
<1>. QED
  BY <1>1, <1>2 DEF Send, TypeOK, argVars, tableVars, showVars

LEMMA PageType == TypeOK /\ Page => TypeOK'
<1>. SUFFICES ASSUME TypeOK, Page
              PROVE  TypeOK'
  OBVIOUS
<1>. DEFINE S == Reply(Behind(marker))
<1>1. rows' \in [Items -> Things \cup {Gone}]
  BY ReceiveHasType DEF Page
<1>2. S \subseteq Items
  BY DEF Reply, Behind
<1>3. pc' \in 1..Len(program) + 1 /\ verdict' \in {"running", "ok", "failed"}
  BY ControlHasType DEF Page, Do, TypeOK
<1>4. marker' \in Items \cup {0}
  BY <1>2 DEF Page
<1>. QED
  BY <1>1, <1>3, <1>4 DEF Page, TypeOK, argVars, showVars

LEMMA OneReplyType == TypeOK /\ OneReply => TypeOK'
<1>. SUFFICES ASSUME TypeOK, OneReply
              PROVE  TypeOK'
  OBVIOUS
<1>1. rows' \in [Items -> Things \cup {Gone}]
  BY ReceiveHasType DEF OneReply
<1>2. pc' \in 1..Len(program) + 1 /\ verdict' \in {"running", "ok", "failed"}
  BY ControlHasType DEF OneReply, Do
<1>3. excuses' \subseteq Excuses
  BY DEF OneReply, Excuse, Excuses, TypeOK
<1>. QED
  BY <1>1, <1>2, <1>3 DEF OneReply, TypeOK, argVars, showVars

LEMMA ListFailsType == TypeOK /\ ListFails => TypeOK'
<1>. SUFFICES ASSUME TypeOK, ListFails
              PROVE  TypeOK'
  OBVIOUS
<1>1. pc' \in 1..Len(program) + 1 /\ verdict' \in {"running", "ok", "failed"}
  BY ControlHasType DEF ListFails, Do
<1>2. faulted' \in 0..MaxFaulted
  BY FaultHasType DEF ListFails, TypeOK
<1>3. excuses' \subseteq Excuses
  BY DEF ListFails, Excuse, Excuses, TypeOK
<1>. QED
  BY <1>1, <1>2, <1>3 DEF ListFails, TypeOK, argVars, tableVars, showVars

LEMMA MatchRowsType == TypeOK /\ MatchRows => TypeOK'
<1>. SUFFICES ASSUME TypeOK, MatchRows
              PROVE  TypeOK'
  OBVIOUS
<1>1. pc' \in 1..Len(program) + 1 /\ verdict' \in {"running", "ok", "failed"}
  BY ControlHasType DEF MatchRows, Do
<1>2. rows' \in [Items -> Things \cup {Gone}]
  BY DEF MatchRows, TypeOK
<1>. QED
  BY <1>1, <1>2 DEF MatchRows, TypeOK, argVars, showVars

LEMMA EachType == TypeOK /\ Each => TypeOK'
<1>. SUFFICES ASSUME TypeOK, Each
              PROVE  TypeOK'
  OBVIOUS
<1>1. PICK i \in Rest : Again(i)
  BY DEF Each
<1>2. i \in Items
  BY DEF Rest, Listed
<1>3. verdict' \in {"running", "ok", "failed"}
  BY <1>1 DEF Again, TypeOK
<1>4. marker' \in Items \cup {0}
  BY <1>1, <1>2 DEF Again, TypeOK
<1>5. rows' \in [Items -> Things \cup {Gone}]
  BY <1>1, <1>2, WorldHasType DEF Again, TypeOK, Skipped
<1>6. excuses' \subseteq Excuses
  BY <1>1 DEF Again, Excuse, Excuses, TypeOK
<1>7. faulted' \in 0..MaxFaulted
  BY <1>1, FaultHasType DEF Again, TypeOK
<1>. QED
  BY <1>3, <1>4, <1>5, <1>6, <1>7 DEF Each, TypeOK, argVars, showVars

LEMMA EachEndsType == TypeOK /\ EachEnds => TypeOK'
<1>. SUFFICES ASSUME TypeOK, EachEnds
              PROVE  TypeOK'
  OBVIOUS
<1>1. pc' \in 1..Len(program) + 1 /\ verdict' \in {"running", "ok", "failed"}
  BY ControlHasType DEF EachEnds, Do
<1>. QED
  BY <1>1 DEF EachEnds, TypeOK, argVars, showVars

LEMMA ReadNamesType == TypeOK /\ ReadNames => TypeOK'
<1>. SUFFICES ASSUME TypeOK, ReadNames
              PROVE  TypeOK'
  OBVIOUS
<1>1. pc' \in 1..Len(program) + 1 /\ verdict' \in {"running", "ok", "failed"}
  BY ControlHasType DEF ReadNames, Do
<1>2. faulted' \in 0..MaxFaulted
  BY FaultHasType DEF ReadNames, TypeOK
<1>3. excuses' \subseteq Excuses
  BY DEF ReadNames, Excuse, Excuses, TypeOK
<1>4. names' \in [Things -> ThingNames \cup {Gone}]
  BY WorldHasType DEF ReadNames, NameMap, TypeOK
<1>. QED
  BY <1>1, <1>2, <1>3, <1>4 DEF ReadNames, TypeOK, argVars, tableVars, showVars

LEMMA FindThingType == TypeOK /\ FindThing => TypeOK'
<1>. SUFFICES ASSUME TypeOK, FindThing
              PROVE  TypeOK'
  OBVIOUS
<1>1. pc' \in 1..Len(program) + 1 /\ verdict' \in {"running", "ok", "failed"}
  BY ControlHasType DEF FindThing, Do
<1>2. faulted' \in 0..MaxFaulted
  BY FaultHasType DEF FindThing, Misses, TypeOK
<1>3. /\ found' \in Things \cup {None} /\ label' \in ThingNames \cup {Gone}
      /\ detail' \in ThingNames \cup {Gone}
  BY LookHasType DEF FindThing, TypeOK, showVars
<1>. QED
  BY <1>1, <1>2, <1>3 DEF FindThing, TypeOK, argVars, tableVars

LEMMA GetThingType == TypeOK /\ GetThing => TypeOK'
<1>. SUFFICES ASSUME TypeOK, GetThing
              PROVE  TypeOK'
  OBVIOUS
<1>1. pc' \in 1..Len(program) + 1 /\ verdict' \in {"running", "ok", "failed"}
  BY ControlHasType DEF GetThing, Do
<1>2. faulted' \in 0..MaxFaulted
  BY FaultHasType DEF GetThing, TypeOK
<1>3. /\ found' \in Things \cup {None} /\ label' \in ThingNames \cup {Gone}
      /\ detail' \in ThingNames \cup {Gone}
  BY LookHasType DEF GetThing, There, TypeOK, showVars
<1>. QED
  BY <1>1, <1>2, <1>3 DEF GetThing, TypeOK, argVars, tableVars

LEMMA GetAgainType == TypeOK /\ GetAgain => TypeOK'
<1>. SUFFICES ASSUME TypeOK, GetAgain
              PROVE  TypeOK'
  OBVIOUS
<1>1. pc' \in 1..Len(program) + 1 /\ verdict' \in {"running", "ok", "failed"}
  BY ControlHasType DEF GetAgain, Do
<1>2. faulted' \in 0..MaxFaulted
  BY FaultHasType DEF GetAgain, TypeOK
<1>3. /\ found' \in Things \cup {None} /\ label' \in ThingNames \cup {Gone}
      /\ detail' \in ThingNames \cup {Gone}
  BY LookHasType DEF GetAgain, There, TypeOK, showVars
<1>. QED
  BY <1>1, <1>2, <1>3 DEF GetAgain, TypeOK, argVars, tableVars

LEMMA ReadMoreType == TypeOK /\ ReadMore => TypeOK'
<1>. SUFFICES ASSUME TypeOK, ReadMore
              PROVE  TypeOK'
  OBVIOUS
<1>1. pc' \in 1..Len(program) + 1 /\ verdict' \in {"running", "ok", "failed"}
  BY ControlHasType DEF ReadMore, Do
<1>2. faulted' \in 0..MaxFaulted
  BY FaultHasType DEF ReadMore, TypeOK
<1>3. detail' \in ThingNames \cup {Gone}
  BY WorldHasType DEF ReadMore, There, TypeOK
<1>. QED
  BY <1>1, <1>2, <1>3 DEF ReadMore, TypeOK, argVars, tableVars

LEMMA RenderType == TypeOK /\ Render => TypeOK'
BY DEF Render, TypeOK, argVars, tableVars, showVars

LEMMA MeddleType == TypeOK /\ Meddle => TypeOK'
<1>. SUFFICES ASSUME TypeOK, Meddle
              PROVE  TypeOK'
  OBVIOUS
<1>1. world' \in Worlds
  <2>1. world \in Worlds
    BY DEF TypeOK
  <2>2. ASSUME NEW t \in Things, NEW n \in ThingNames \cup {Gone},
               world' = [world EXCEPT !.name[t] = n]
        PROVE  world' \in Worlds
    BY <2>1, <2>2 DEF Worlds
  <2>3. ASSUME NEW i \in Items, NEW t \in Things \cup {Gone},
               world' = [world EXCEPT !.of[i] = t]
        PROVE  world' \in Worlds
    BY <2>1, <2>3 DEF Worlds
  <2>. QED
    BY <2>2, <2>3 DEF Meddle
<1>2. meddled' \in 0..MaxMeddled
  BY BoundsAssumption DEF Meddle, TypeOK
<1>. QED
  BY <1>1, <1>2 DEF Meddle, TypeOK, argVars, tableVars, showVars

LEMMA TypeStep == TypeOK /\ [Next]_vars => TypeOK'
<1>1. TypeOK /\ UNCHANGED vars => TypeOK'
  BY DEF TypeOK, vars, argVars, tableVars, showVars
<1>. QED
  BY <1>1, CheckArgumentsType, AskServiceType, LookAgainType, ResolveType, SendType, PageType, OneReplyType,
     ListFailsType, MatchRowsType, EachType, EachEndsType, ReadNamesType,
     FindThingType, GetThingType, GetAgainType, ReadMoreType, RenderType, MeddleType
  DEF Next, Client

(* Every variable keeps to its type.                                       *)
THEOREM TypeCorrect == Spec => []TypeOK
BY InitType, TypeStep, PTL DEF Spec

-----------------------------------------------------------------------------
(* What holds between any two requests: the marker belongs to a listing or *)
(* a loop over the rows, and a table is printed behind the last step.      *)

Position ==
  /\ arg \in Takes(program)
  /\ world \in seen
  /\ marker # 0 => pc <= Len(program) /\ program[pc].do \in {"pages", "eachStop", "eachSkip"}
  /\ verdict = "ok" => pc = Len(program) + 1

\* A step goes on by one or stays, and never forgets.
Moves ==
  /\ UNCHANGED argVars
  /\ seen \subseteq seen' /\ excuses \subseteq excuses'
  /\ world' \in seen'
  /\ pc' \in {pc, pc + 1}
  /\ pc' # pc => verdict = "running" /\ verdict' = "running" /\ pc <= Len(program)
  /\ verdict' = "ok" => verdict = "ok" \/ Render

LEMMA StepMoves ==
  ASSUME TypeOK, Position, Next
  PROVE  Moves
<1>1. CASE CheckArguments
  BY <1>1 DEF CheckArguments, Do, Advance, Stop, Moves, Position
<1>2. CASE AskService
  BY <1>2 DEF AskService, Do, Advance, Stop, Moves, Position
<1>3. CASE Resolve
  BY <1>3 DEF Resolve, Unresolved, Excuse, Do, Advance, Stop, Moves, Position
<1>4. CASE Send
  BY <1>4 DEF Send, Excuse, Do, Advance, Moves, Position
<1>5. CASE Page
  BY <1>5 DEF Page, Do, Advance, Moves, Position
<1>6. CASE OneReply
  BY <1>6 DEF OneReply, Excuse, Do, Advance, Moves, Position
<1>7. CASE ListFails
  BY <1>7 DEF ListFails, Excuse, Do, Advance, Stop, Moves, Position
<1>8. CASE MatchRows
  BY <1>8 DEF MatchRows, Do, Advance, Moves, Position
<1>9. CASE Each
  BY <1>9 DEF Each, Again, Excuse, Do, Moves, Position
<1>10. CASE EachEnds
  BY <1>10 DEF EachEnds, Do, Advance, Moves, Position
<1>11. CASE ReadNames
  BY <1>11 DEF ReadNames, Excuse, Do, Advance, Stop, Moves, Position
<1>12. CASE FindThing
  BY <1>12 DEF FindThing, Do, Advance, Stop, Moves, Position
<1>13. CASE GetThing
  BY <1>13 DEF GetThing, Do, Advance, Stop, Moves, Position
<1>14. CASE GetAgain
  BY <1>14 DEF GetAgain, Do, Advance, Stop, Moves, Position
<1>15. CASE ReadMore
  BY <1>15 DEF ReadMore, Do, Advance, Stop, Moves, Position
<1>16. CASE Render
  BY <1>16 DEF Render, Moves, Position
<1>17. CASE Meddle
  BY <1>17 DEF Meddle, Moves, Position
<1>18. CASE LookAgain
  BY <1>18 DEF LookAgain, Excuse, Moves, Position
<1>. QED
  BY <1>1, <1>2, <1>3, <1>4, <1>5, <1>6, <1>7, <1>8, <1>9, <1>10, <1>11, <1>12, <1>13, <1>14,
     <1>15, <1>16, <1>17, <1>18 DEF Next, Client

LEMMA PositionInit == Init => Position
BY DEF Init, Position

\* Only listings and loops set the marker, and they leave it at 0.
LEMMA MarkerStep ==
  ASSUME TypeOK, Position, Next
  PROVE  \/ marker' = 0
         \/ pc' = pc /\ pc <= Len(program) /\ program[pc].do \in {"pages", "eachStop", "eachSkip"}
<1>1. CASE Page
  BY <1>1 DEF Page, Do
<1>2. CASE OneReply
  BY <1>2 DEF OneReply, Do, Position
<1>3. CASE ListFails
  BY <1>3 DEF ListFails, Do, Kind, Position, Advance, Stop, tableVars
<1>4. CASE MatchRows
  BY <1>4 DEF MatchRows, Do, Position
<1>5. CASE Each
  BY <1>5 DEF Each, Do
<1>6. CASE EachEnds
  BY <1>6 DEF EachEnds
<1>7. CASE CheckArguments \/ AskService \/ Resolve \/ Send \/ ReadNames \/ FindThing
           \/ GetThing \/ GetAgain \/ ReadMore
  BY <1>7 DEF CheckArguments, AskService, Resolve, Send, ReadNames, FindThing, GetThing,
              GetAgain, ReadMore, Do, Lookups, Position, tableVars
<1>8. CASE Render \/ Meddle \/ LookAgain
  BY <1>8 DEF Render, Meddle, LookAgain, Position, tableVars
<1>. QED
  BY <1>1, <1>2, <1>3, <1>4, <1>5, <1>6, <1>7, <1>8 DEF Next, Client

LEMMA PositionStep == TypeOK /\ Position /\ [Next]_vars => Position'
<1>1. TypeOK /\ Position /\ UNCHANGED vars => Position'
  BY DEF Position, vars, argVars, tableVars
<1>2. ASSUME TypeOK, Position, Next
      PROVE  Position'
  <2>1. Moves
    BY <1>2, StepMoves
  <2>2. verdict' = "ok" => pc' = Len(program') + 1
    <3>1. Render => pc' = pc /\ pc = Len(program) + 1
      BY DEF Render
    <3>2. pc' # pc => verdict' # "ok"
      BY <2>1 DEF Moves
    <3>. QED
      BY <2>1, <3>1, <3>2, <1>2 DEF Moves, Position, argVars
  <2>3. marker' # 0 => pc' <= Len(program') /\ program'[pc'].do \in {"pages", "eachStop", "eachSkip"}
    BY <1>2, <2>1, MarkerStep DEF Moves, argVars
  <2>. QED
    BY <1>2, <2>1, <2>2, <2>3 DEF Moves, Position, argVars, Takes, Has
<1>. QED
  BY <1>1, <1>2

LEMMA PositionHolds == Spec => [](TypeOK /\ Position)
BY InitType, TypeStep, PositionInit, PositionStep, PTL DEF Spec

-----------------------------------------------------------------------------
(* The lookup of an argument: what its second request is for, and what the *)
(* first one has told.                                                     *)

\* What has been meant is not forgotten.
LEMMA MeantStays ==
  ASSUME TypeOK, Position, Next, NEW t, HasMeant(t)
  PROVE  HasMeant(t)'
BY StepMoves DEF Moves, argVars, HasMeant

ReadsFirst == {"get", "both", "absent"}
Looked ==
  /\ second = arg
  /\ How \in ReadsFirst => "missed" \in excuses \/ \E w \in seen : WithId(w, arg) = {}
LooksBack ==
  second # None =>
    /\ pc <= Len(program) /\ program[pc].do \in Lookups
    /\ Looked \/ (How = "firstGet" /\ \E w \in seen : second \in Meant(w, arg))

LEMMA SecondElsewhere ==
  ASSUME TypeOK, Position, Next, ~LookAgain
  PROVE  second' = None \/ (UNCHANGED second /\ (pc' = pc \/ program[pc].do \notin Lookups))
<1>1. CASE CheckArguments \/ AskService \/ Send \/ ListFails
  BY <1>1 DEF CheckArguments, AskService, Send, ListFails, Do, Lookups, Listings
<1>2. CASE Page \/ OneReply \/ MatchRows \/ Each \/ EachEnds \/ ReadNames
  BY <1>2 DEF Page, OneReply, MatchRows, Each, EachEnds, ReadNames, Do, Lookups
<1>3. CASE GetThing \/ GetAgain \/ ReadMore
  BY <1>3 DEF GetThing, GetAgain, ReadMore, Do, Lookups
<1>4. CASE Resolve \/ FindThing
  BY <1>4 DEF Resolve, FindThing
<1>5. CASE Render \/ Meddle
  BY <1>5 DEF Render, Meddle
<1>. QED
  BY <1>1, <1>2, <1>3, <1>4, <1>5 DEF Next, Client

LEMMA LooksBackHere ==
  ASSUME TypeOK, Position, LookAgain
  PROVE  LooksBack'
<1>1. /\ pc <= Len(program) /\ program[pc].do \in Lookups /\ second = None /\ world \in seen
      /\ UNCHANGED <<program, pc, arg, seen>>
  BY DEF LookAgain, Do, Position, argVars
<1>2. CASE Hits = {} /\ second' = arg
  <2>1. How \in ReadsFirst => WithId(world, arg) = {}
    BY <1>1, <1>2 DEF Hits, ReadsFirst, TakesFirst
  <2>. QED
    BY <1>1, <1>2, <2>1 DEF LooksBack, Looked, How
<1>3. CASE second' = arg /\ Excuse("missed")
  BY <1>1, <1>3 DEF LooksBack, Looked, How, Excuse
<1>4. CASE How = "firstGet" /\ second' \in Hits
  <2>1. Hits = Meant(world, arg)
    BY <1>1, <1>4 DEF Hits, TakesFirst
  <2>. QED
    BY <1>1, <1>4, <2>1 DEF LooksBack, How
<1>. QED
  BY <1>2, <1>3, <1>4 DEF LookAgain

LEMMA LooksBackStep == TypeOK /\ Position /\ LooksBack /\ [Next]_vars => LooksBack'
<1>1. LooksBack /\ UNCHANGED vars => LooksBack'
  BY DEF LooksBack, Looked, How, vars, argVars
<1>2. ASSUME TypeOK, Position, LooksBack, Next, ~LookAgain
      PROVE  LooksBack'
  <2>1. UNCHANGED <<program, arg>> /\ seen \subseteq seen' /\ excuses \subseteq excuses'
    BY <1>2, StepMoves DEF Moves, argVars
  <2>2. second' = None \/ (second' = second /\ (second = None \/ pc' = pc))
    BY <1>2, SecondElsewhere DEF LooksBack
  <2>. QED
    BY <1>2, <2>1, <2>2 DEF LooksBack, Looked, How
<1>. QED
  BY <1>1, <1>2, LooksBackHere

LEMMA LooksBackHolds == Spec => [](TypeOK /\ Position /\ LooksBack)
<1>1. Init => LooksBack
  BY DEF Init, LooksBack
<1>. QED
  BY <1>1, LooksBackStep, PositionHolds, PTL DEF Spec

\* The only thing among those the argument means, which has it for its name.
LEMMA OnlyMeant ==
  ASSUME NEW w, NEW x, NEW t \in Only(Meant(w, x))
  PROVE  t = x \/ (WithName(w, x) = {t} /\ WithId(w, x) = {})
<1>1. Meant(w, x) = {t}
  BY DEF Only
<1>2. CASE t \in WithId(w, x)
  BY <1>2 DEF WithId
<1>3. CASE t \in WithName(w, x) /\ t # x
  <2>1. WithName(w, x) = {t}
    BY <1>1, <1>3 DEF Meant
  <2>2. WithId(w, x) = {}
    BY <1>1, <1>3 DEF Meant, WithId
  <2>. QED
    BY <2>1, <2>2
<1>. QED
  BY <1>1, <1>2, <1>3 DEF Meant

(* Whatever a lookup finds is there, and the argument has meant it.        *)
LEMMA HitIsMeant ==
  ASSUME TypeOK, Position, LooksBack, Do(Lookups), NEW t \in Things, Hit(t)
  PROVE  /\ HasMeant(t) /\ There(t) /\ arg # None
         /\ \E w \in seen : t \in Meant(w, arg)
<1>1. pc \in 1..Len(program) /\ program[pc].do \in Lookups /\ How \in Hows /\ world \in seen
  BY ProgramIsFinite DEF Do, TypeOK, Position, How
<1>2. arg \in Things \cup ThingNames /\ arg # None /\ arg # Gone
  <2>1. MayName(program)
    BY <1>1 DEF MayName, Has, Lookups
  <2>. QED
    BY <2>1, NamesAssumption DEF Position, Takes
<1>3. ASSUME NEW w \in seen, t \in WithName(w, arg), How \in TakesFirst
      PROVE  HasMeant(t)
  BY <1>1, <1>3 DEF HasMeant, How
<1>4. ASSUME t \in Meant(world, arg)
      PROVE  There(t) /\ \E w \in seen : t \in Meant(w, arg)
  BY <1>1, <1>2, <1>4 DEF There, Meant, WithId, WithName
<1>5. ASSUME t = arg, t \in Meant(world, arg)
      PROVE  HasMeant(t)
  BY <1>5 DEF HasMeant
<1>6. CASE second = None /\ How \in ReadsFirst
  <2>1. t \in WithId(world, arg)
    BY <1>6 DEF Hit, Hits, ReadsFirst, TakesFirst
  <2>. QED
    BY <1>2, <1>4, <1>5, <2>1 DEF Meant, WithId
<1>7. CASE second = None /\ How = "once"
  <2>1. t \in Only(Meant(world, arg))
    BY <1>7 DEF Hit, Hits, TakesFirst
  <2>2. t \in Meant(world, arg)
    BY <2>1 DEF Only
  <2>. QED
    BY <1>1, <1>2, <1>4, <2>1, <2>2, OnlyMeant DEF HasMeant
<1>8. CASE second = None /\ How \in TakesFirst
  <2>1. t \in Meant(world, arg)
    BY <1>8 DEF Hit, Hits, TakesFirst
  <2>. QED
    BY <1>1, <1>2, <1>3, <1>4, <1>5, <1>8, <2>1 DEF Meant, WithId
<1>9. CASE second # None /\ How \in ReadsFirst
  <2>1. "missed" \in excuses \/ \E w \in seen : WithId(w, arg) = {}
    BY <1>9 DEF LooksBack, Looked, ReadsFirst
  <2>2. CASE How = "get"
    <3>1. t \in Only(WithName(world, arg))
      BY <1>9, <2>2 DEF Hit, Hits
    <3>2. WithName(world, arg) = {t} /\ t \in Meant(world, arg)
      BY <3>1 DEF Only, Meant
    <3>. QED
      BY <1>1, <1>2, <1>4, <2>1, <3>2 DEF HasMeant
  <2>3. CASE How \in {"both", "absent"}
    <3>1. t \in Only(Meant(world, arg))
      BY <1>9, <2>3 DEF Hit, Hits
    <3>2. t \in Meant(world, arg)
      BY <3>1 DEF Only
    <3>. QED
      BY <1>1, <1>2, <1>4, <2>1, <3>1, <3>2, OnlyMeant DEF HasMeant
  <2>. QED
    BY <1>9, <2>2, <2>3 DEF ReadsFirst
<1>10. CASE second # None /\ How \notin ReadsFirst
  <2>1. t \in WithId(world, second)
    BY <1>1, <1>10 DEF Hit, Hits, ReadsFirst
  <2>2. t = second /\ There(t)
    BY <2>1 DEF WithId, There
  <2>3. CASE second = arg
    BY <1>1, <1>2, <2>1, <2>2, <2>3 DEF HasMeant, Meant
  <2>4. CASE How = "firstGet" /\ \E w \in seen : second \in Meant(w, arg)
    <3>1. PICK w \in seen : t \in Meant(w, arg)
      BY <2>2, <2>4
    <3>2. HasMeant(t)
      <4>1. CASE t \in WithId(w, arg)
        BY <4>1 DEF WithId, HasMeant
      <4>2. CASE t \in WithName(w, arg)
        BY <1>3, <2>4, <4>2 DEF TakesFirst
      <4>. QED
        BY <3>1, <4>1, <4>2 DEF Meant
    <3>. QED
      BY <1>2, <2>2, <3>1, <3>2
  <2>. QED
    BY <1>10, <2>3, <2>4 DEF LooksBack, Looked
<1>. QED
  BY <1>1, <1>6, <1>7, <1>8, <1>9, <1>10 DEF Hows, ReadsFirst, TakesFirst

-----------------------------------------------------------------------------
(* The names in a table are those of one state of the cloud.               *)

NameSteps == {"names", "namesStop"}
NamesRead ==
  \/ \E w \in seen : names = w.name
  \/ /\ names = [t \in Things |-> Gone]
     /\ "unnamed" \in excuses \/ \A k \in 1..pc - 1 : program[k].do \notin NameSteps

LEMMA NamesReadHere == TypeOK /\ Position /\ NamesRead /\ ReadNames => NamesRead'
<1>. SUFFICES ASSUME TypeOK, Position, NamesRead, ReadNames
              PROVE  NamesRead'
  OBVIOUS
<1>1. world \in seen' /\ UNCHANGED <<seen, program>> /\ excuses \subseteq excuses'
  BY DEF ReadNames, Position, argVars, Excuse
<1>2. CASE names' = NameMap(world)
  BY <1>1, <1>2 DEF NamesRead, NameMap
<1>3. CASE UNCHANGED names /\ "unnamed" \in excuses'
  BY <1>1, <1>3 DEF NamesRead
<1>4. CASE UNCHANGED names /\ UNCHANGED pc
  BY <1>1, <1>4 DEF NamesRead
<1>. QED
  BY <1>2, <1>3, <1>4 DEF ReadNames, Excuse, Stop

LEMMA NamesReadElsewhere ==
  ASSUME TypeOK, Position, Next, ~ReadNames
  PROVE  UNCHANGED names /\ (pc' = pc \/ program[pc].do \notin NameSteps)
<1>1. CASE CheckArguments \/ AskService \/ Resolve \/ Send \/ ListFails
  BY <1>1 DEF CheckArguments, AskService, Resolve, Send, ListFails, Do, Lookups, NameSteps, Listings
<1>2. CASE Page \/ OneReply \/ MatchRows \/ Each \/ EachEnds
  BY <1>2 DEF Page, OneReply, MatchRows, Each, EachEnds, Do, NameSteps
<1>3. CASE FindThing \/ GetThing \/ GetAgain \/ ReadMore
  BY <1>3 DEF FindThing, GetThing, GetAgain, ReadMore, Do, NameSteps
<1>4. CASE Render \/ Meddle \/ LookAgain
  BY <1>4 DEF Render, Meddle, LookAgain
<1>. QED
  BY <1>1, <1>2, <1>3, <1>4 DEF Next, Client

LEMMA NamesReadStep == TypeOK /\ Position /\ NamesRead /\ [Next]_vars => NamesRead'
<1>1. NamesRead /\ UNCHANGED vars => NamesRead'
  BY DEF NamesRead, vars, argVars
<1>2. ASSUME TypeOK, Position, NamesRead, Next, ~ReadNames
      PROVE  NamesRead'
  <2>1. UNCHANGED <<names, program>> /\ seen \subseteq seen' /\ excuses \subseteq excuses'
    BY <1>2, NamesReadElsewhere, StepMoves DEF Moves, argVars
  <2>2. pc' = pc \/ (pc' = pc + 1 /\ program[pc].do \notin NameSteps)
    BY <1>2, NamesReadElsewhere, StepMoves DEF Moves
  <2>3. pc \in Nat \ {0}
    BY <1>2, ProgramIsFinite DEF TypeOK
  <2>4. CASE \E w \in seen : names = w.name
    BY <2>1, <2>4 DEF NamesRead
  <2>5. CASE /\ names = [t \in Things |-> Gone]
             /\ \A k \in 1..pc - 1 : program[k].do \notin NameSteps
    <3>1. \A k \in 1..pc' - 1 : program'[k].do \notin NameSteps
      BY <2>1, <2>2, <2>3, <2>5
    <3>. QED
      BY <2>1, <2>5, <3>1 DEF NamesRead
  <2>6. CASE names = [t \in Things |-> Gone] /\ "unnamed" \in excuses
    BY <2>1, <2>6 DEF NamesRead
  <2>. QED
    BY <1>2, <2>4, <2>5, <2>6 DEF NamesRead
<1>. QED
  BY <1>1, <1>2, NamesReadHere

(* A name that a table shows is one the thing had while the command ran.   *)
THEOREM NamesHold == Spec => []NamesAreTrue
<1>1. Init => NamesRead
  BY DEF Init, NamesRead
<1>2. TypeOK /\ Position /\ NamesRead => NamesAreTrue
  <2>. SUFFICES ASSUME TypeOK, Position, NamesRead, verdict = "ok", Has(program, NameSteps),
                       NEW t \in Things
                PROVE  IF names[t] = Gone
                         THEN "unnamed" \in excuses \/ \E w \in seen : w.name[t] = Gone
                         ELSE \E w \in seen : w.name[t] = names[t]
    BY DEF NamesAreTrue, NameSteps
  <2>1. Len(program) \in Nat /\ pc - 1 = Len(program)
    BY ProgramIsFinite DEF Position, TypeOK
  <2>2. ~\A k \in 1..pc - 1 : program[k].do \notin NameSteps
    BY <2>1 DEF Has
  <2>. QED
    BY <2>2 DEF NamesRead
<1>. QED
  BY <1>1, <1>2, NamesReadStep, PositionHolds, PTL DEF Spec

-----------------------------------------------------------------------------
(* What a show has found, what it has read about it, and what is left.     *)

FindSteps == {"find", "byId"}
MoreSteps == {"more", "mayMore"}
ShownWell ==
  /\ HasMeant(found)
  /\ \E w \in seen : w.name[found] = label
  /\ label # Gone
  /\ detail # Gone => \E w \in seen : w.name[found] = detail
Showing ==
  /\ found # None => ShownWell
  /\ found = None => detail = Gone /\ \A k \in 1..pc - 1 : program[k].do \notin FindSteps
  /\ detail # Gone => \E k \in 1..pc - 1 : program[k].do \in MoreSteps
  /\ detail = Gone => \A k \in 1..pc - 1 : program[k].do # "more"

\* What stays true of the steps behind the next one when the command goes on.
LEMMA Behindhand ==
  ASSUME TypeOK, Position, Next
  PROVE  /\ \A k \in 1..pc - 1 : k \in 1..pc' - 1 /\ program'[k] = program[k]
         /\ \A k \in 1..pc' - 1 : k \in 1..pc - 1 \/ (k = pc /\ pc' = pc + 1)
         /\ pc \in Nat \ {0} /\ Len(program) \in Nat
         /\ program' = program /\ arg' = arg
<1>1. pc \in Nat \ {0} /\ Len(program) \in Nat
  BY ProgramIsFinite DEF TypeOK
<1>2. pc' \in {pc, pc + 1} /\ program' = program /\ arg' = arg
  BY StepMoves DEF Moves, argVars
<1>3. ASSUME NEW k \in 1..pc - 1
      PROVE  k \in 1..pc' - 1 /\ program'[k] = program[k]
  <2>1. CASE pc' = pc
    BY <1>2, <2>1
  <2>2. CASE pc' = pc + 1
    BY <1>1, <2>2, <1>2
  <2>. QED
    BY <1>2, <2>1, <2>2
<1>4. ASSUME NEW k \in 1..pc' - 1
      PROVE  k \in 1..pc - 1 \/ (k = pc /\ pc' = pc + 1)
  <2>1. CASE pc' = pc
    BY <2>1
  <2>2. CASE pc' = pc + 1
    BY <1>1, <2>2
  <2>. QED
    BY <1>2, <2>1, <2>2
<1>. QED
  BY <1>1, <1>2, <1>3, <1>4

\* A step that leaves the thing alone, whether it goes on or not.
LEMMA ShowingKept ==
  ASSUME TypeOK, Position, Next, Showing, UNCHANGED showVars,
         pc' = pc \/ found # None \/ program[pc].do \notin FindSteps,
         pc' = pc \/ program[pc].do # "more"
  PROVE  Showing'
<1>1. seen \subseteq seen' /\ UNCHANGED <<program, arg, found, label, detail>>
  BY StepMoves DEF Moves, argVars, showVars
<1>2. found' # None => ShownWell'
  BY <1>1, MeantStays DEF Showing, ShownWell
<1>3. found' = None => detail' = Gone /\ \A k \in 1..pc' - 1 : program'[k].do \notin FindSteps
  BY <1>1, Behindhand DEF Showing
<1>4. detail' # Gone => \E k \in 1..pc' - 1 : program'[k].do \in MoreSteps
  BY <1>1, Behindhand DEF Showing
<1>5. detail' = Gone => \A k \in 1..pc' - 1 : program'[k].do # "more"
  BY <1>1, Behindhand DEF Showing
<1>. QED
  BY <1>2, <1>3, <1>4, <1>5 DEF Showing

\* A step that looks at a thing, which the argument means.
LEMMA ShowingLook ==
  ASSUME TypeOK, Position, Next, Showing, NEW t, There(t), Look(t), program[pc].do # "more",
         HasMeant(t),
         found = t \/ detail = Gone
  PROVE  Showing'
<1>1. seen \subseteq seen' /\ UNCHANGED <<program, arg, detail>> /\ world \in seen'
  BY StepMoves DEF Moves, argVars, Look, Position
<1>2. found' = t /\ label' = world.name[t] /\ t \in Things
  BY DEF Look, There
<1>3. found' # None
  BY <1>2, NamesAssumption
<1>4. found = t => ShownWell
  BY <1>2, <1>3 DEF Showing
<1>5. ShownWell'
  <2>1. HasMeant(found)'
    <3>1. HasMeant(t)'
      BY MeantStays
    <3>. QED
      BY <1>2, <3>1 DEF HasMeant
  <2>2. label' # Gone /\ \E w \in seen' : w.name[found'] = label'
    BY <1>1, <1>2 DEF There
  <2>3. detail' # Gone => \E w \in seen' : w.name[found'] = detail'
    BY <1>1, <1>2, <1>4 DEF ShownWell
  <2>. QED
    BY <2>1, <2>2, <2>3 DEF ShownWell
<1>6. detail' # Gone => \E k \in 1..pc' - 1 : program'[k].do \in MoreSteps
  BY <1>1, Behindhand DEF Showing
<1>7. detail' = Gone => \A k \in 1..pc' - 1 : program'[k].do # "more"
  BY <1>1, Behindhand DEF Showing
<1>. QED
  BY <1>3, <1>5, <1>6, <1>7 DEF Showing

LEMMA ShowingFind == TypeOK /\ Position /\ LooksBack /\ Showing /\ FindThing => Showing'
<1>. SUFFICES ASSUME TypeOK, Position, LooksBack, Showing, FindThing
              PROVE  Showing'
  OBVIOUS
<1>1. Next
  BY DEF Next, Client
<1>2. program[pc].do = "find" /\ pc \in 1..Len(program) /\ program \in Programs
  BY ProgramIsFinite DEF FindThing, Do, TypeOK
<1>3. CASE \E t \in Things : Hit(t) /\ Look(t)
  <2>1. PICK t \in Things : Hit(t) /\ Look(t)
    BY <1>3
  <2>2. HasMeant(t) /\ There(t)
    BY <2>1, HitIsMeant DEF FindThing, Do, Lookups
  <2>3. detail = Gone
    <3>1. ASSUME NEW k \in 1..pc - 1, program[k].do \in MoreSteps
          PROVE  FALSE
      <4>1. k \in 1..Len(program) /\ k < pc
        BY <1>2, ProgramIsFinite
      <4>. QED
        BY <1>2, <3>1, <4>1, ShowsAssumption DEF MoreSteps
    <3>. QED
      BY <3>1 DEF Showing
  <2>. QED
    BY <1>1, <1>2, <2>1, <2>2, <2>3, ShowingLook
<1>4. CASE Stop /\ UNCHANGED showVars
  BY <1>1, <1>4, ShowingKept DEF Stop
<1>. QED
  BY <1>3, <1>4 DEF FindThing

LEMMA ShowingGet == TypeOK /\ Position /\ Showing /\ GetThing => Showing'
<1>. SUFFICES ASSUME TypeOK, Position, Showing, GetThing
              PROVE  Showing'
  OBVIOUS
<1>1. Next
  BY DEF Next, Client
<1>2. program[pc].do \in {"byId", "tryId"}
  BY DEF GetThing, Do
<1>3. CASE found # None /\ UNCHANGED showVars
  BY <1>1, <1>2, <1>3, ShowingKept
<1>4. CASE found = None /\ There(arg) /\ Look(arg)
  BY <1>1, <1>2, <1>4, ShowingLook DEF Showing, HasMeant
<1>5. CASE found = None /\ (Kind = "tryId" \/ Stop) /\ UNCHANGED showVars
  BY <1>1, <1>2, <1>5, ShowingKept DEF Stop, Kind, FindSteps
<1>. QED
  BY <1>3, <1>4, <1>5 DEF GetThing

LEMMA ShowingAgain == TypeOK /\ Position /\ Showing /\ GetAgain => Showing'
<1>. SUFFICES ASSUME TypeOK, Position, Showing, GetAgain
              PROVE  Showing'
  OBVIOUS
<1>1. Next
  BY DEF Next, Client
<1>2. program[pc].do \in {"get", "getKeep"}
  BY DEF GetAgain, Do
<1>3. CASE There(found) /\ Look(found)
  <2>1. found # None
    BY <1>3, NamesAssumption DEF There
  <2>. QED
    BY <1>1, <1>2, <1>3, <2>1, ShowingLook DEF Showing, ShownWell
<1>4. CASE UNCHANGED showVars
  BY <1>1, <1>2, <1>4, ShowingKept DEF FindSteps
<1>. QED
  BY <1>3, <1>4 DEF GetAgain

LEMMA ShowingMore == TypeOK /\ Position /\ Showing /\ ReadMore => Showing'
<1>. SUFFICES ASSUME TypeOK, Position, Showing, ReadMore
              PROVE  Showing'
  OBVIOUS
<1>1. Next
  BY DEF Next, Client
<1>2. program[pc].do \in MoreSteps /\ UNCHANGED <<found, label, seen>>
  BY DEF ReadMore, Do, MoreSteps
<1>3. CASE There(found) /\ detail' = world.name[found] /\ Advance
  <2>1. found # None /\ detail' # Gone /\ world \in seen
    BY <1>3, NamesAssumption DEF There, Position
  <2>2. ShownWell'
    BY <1>1, <1>2, <1>3, <2>1, Behindhand, MeantStays DEF Showing, ShownWell, HasMeant
  <2>3. pc \in 1..pc' - 1 /\ program' = program
    BY <1>1, <1>3, Behindhand DEF Advance
  <2>. QED
    BY <1>2, <2>1, <2>2, <2>3 DEF Showing
<1>4. CASE UNCHANGED detail /\ (Kind = "mayMore" \/ Stop)
  BY <1>1, <1>2, <1>4, ShowingKept DEF Stop, Kind, FindSteps, MoreSteps, showVars
<1>. QED
  BY <1>3, <1>4 DEF ReadMore

LEMMA ShowingElsewhere ==
  ASSUME TypeOK, Position, Next, ~FindThing, ~GetThing, ~GetAgain, ~ReadMore
  PROVE  UNCHANGED showVars /\ (pc' = pc \/ program[pc].do \notin FindSteps \cup {"more"})
<1>1. CASE CheckArguments \/ AskService \/ Resolve \/ Send \/ ListFails
  BY <1>1 DEF CheckArguments, AskService, Resolve, Send, ListFails, Do, Lookups, FindSteps, Listings
<1>2. CASE Page \/ OneReply \/ MatchRows \/ Each \/ EachEnds \/ ReadNames
  BY <1>2 DEF Page, OneReply, MatchRows, Each, EachEnds, ReadNames, Do, FindSteps
<1>3. CASE Render \/ Meddle \/ LookAgain
  BY <1>3 DEF Render, Meddle, LookAgain
<1>. QED
  BY <1>1, <1>2, <1>3 DEF Next, Client

LEMMA ShowingStep == TypeOK /\ Position /\ LooksBack /\ Showing /\ [Next]_vars => Showing'
<1>1. Showing /\ UNCHANGED vars => Showing'
  BY DEF Showing, ShownWell, HasMeant, vars, argVars, showVars
<1>2. ASSUME TypeOK, Position, Showing, Next, ~FindThing, ~GetThing, ~GetAgain, ~ReadMore
      PROVE  Showing'
  BY <1>2, ShowingElsewhere, ShowingKept
<1>. QED
  BY <1>1, <1>2, ShowingFind, ShowingGet, ShowingAgain, ShowingMore

(* What a show prints was true of the thing that its argument meant, while *)
(* the command ran, and everything it must read about it has been read.    *)
THEOREM ShowHolds == Spec => []ShowIsTrue
<1>1. Init => Showing
  BY DEF Init, Showing
<1>2. TypeOK /\ Position /\ Showing => ShowIsTrue
  <2>. SUFFICES ASSUME TypeOK, Position, Showing, verdict = "ok", Has(program, FindSteps)
                PROVE  found # None /\ ShownWell /\ (Has(program, {"more"}) => detail # Gone)
    BY DEF ShowIsTrue, ShownWell, FindSteps
  <2>1. Len(program) \in Nat /\ pc - 1 = Len(program)
    BY ProgramIsFinite DEF Position, TypeOK
  <2>2. found # None
    BY <2>1 DEF Has, Showing
  <2>3. Has(program, {"more"}) => detail # Gone
    BY <2>1 DEF Has, Showing
  <2>. QED
    BY <2>2, <2>3 DEF Showing
<1>. QED
  BY <1>1, <1>2, ShowingStep, LooksBackHolds, PTL DEF Spec

-----------------------------------------------------------------------------
(* Every row is one that was there, of a thing the argument has meant or   *)
(* that a later step still compares with it.                               *)

Filters == {"match", "eachSkip"}
Compared(i) ==
  \E k \in pc..Len(program) :
    program[k].do \in Filters /\ (k > pc \/ program[k].do = "match" \/ i > marker)
Placed ==
  /\ \A i \in Items : rows[i] # Gone => \E w \in seen : w.of[i] = rows[i]
  /\ \A i \in Items : rows[i] # Gone => HasMeant(rows[i]) \/ Compared(i)
KeySent ==
  /\ key \in Things => HasMeant(key)
  /\ key = None => arg = None \/ \A k \in 1..pc - 1 : program[k].do \notin Sends

LEMMA KeySentHere ==
  ASSUME TypeOK, Position, LooksBack, KeySent, Resolve \/ Send \/ MatchRows
  PROVE  KeySent'
<1>1. Next /\ world \in seen
  BY DEF Next, Client, Position
<1>2. /\ UNCHANGED <<program, arg, seen>>
      /\ \/ key' = arg
         \/ \E t \in Things : Resolve /\ Hit(t) /\ key' = t
         \/ UNCHANGED <<key, pc>>
  BY DEF Resolve, Unresolved, Send, MatchRows, argVars, Stop
<1>3. CASE key' = arg
  BY <1>2, <1>3 DEF KeySent, HasMeant
<1>4. CASE \E t \in Things : Resolve /\ Hit(t) /\ key' = t
  <2>1. PICK t \in Things : Resolve /\ Hit(t) /\ key' = t
    BY <1>4
  <2>2. HasMeant(t)'
    BY <1>1, <2>1, HitIsMeant, MeantStays DEF Resolve, Do, Lookups
  <2>. QED
    BY <2>1, <2>2, NamesAssumption DEF KeySent, HasMeant
<1>5. CASE UNCHANGED <<key, pc>>
  BY <1>1, <1>2, <1>5, MeantStays DEF KeySent
<1>. QED
  BY <1>2, <1>3, <1>4, <1>5

LEMMA KeySentElsewhere ==
  ASSUME TypeOK, Position, Next, ~Resolve, ~Send, ~MatchRows
  PROVE  UNCHANGED key /\ (pc' = pc \/ program[pc].do \notin Sends)
<1>1. CASE CheckArguments \/ AskService \/ Page \/ OneReply \/ ListFails
  BY <1>1 DEF CheckArguments, AskService, Page, OneReply, ListFails, Do, Sends, Listings
<1>2. CASE Each \/ EachEnds \/ ReadNames \/ FindThing \/ GetThing \/ GetAgain \/ ReadMore
  BY <1>2 DEF Each, EachEnds, ReadNames, FindThing, GetThing, GetAgain, ReadMore, Do, Sends
<1>3. CASE Render \/ Meddle \/ LookAgain
  BY <1>3 DEF Render, Meddle, LookAgain
<1>. QED
  BY <1>1, <1>2, <1>3 DEF Next, Client

LEMMA KeySentStep == TypeOK /\ Position /\ LooksBack /\ KeySent /\ [Next]_vars => KeySent'
<1>1. KeySent /\ UNCHANGED vars => KeySent'
  BY DEF KeySent, HasMeant, vars, argVars
<1>2. ASSUME TypeOK, Position, KeySent, Next, ~Resolve, ~Send, ~MatchRows
      PROVE  KeySent'
  <2>1. UNCHANGED key /\ (key \in Things => HasMeant(key)')
    BY <1>2, KeySentElsewhere, MeantStays DEF KeySent
  <2>2. key' \in Things => HasMeant(key)'
    BY <2>1
  <2>3. key' = None => arg' = None \/ \A k \in 1..pc' - 1 : program'[k].do \notin Sends
    BY <1>2, <2>1, KeySentElsewhere, Behindhand DEF KeySent
  <2>. QED
    BY <2>1, <2>2, <2>3 DEF KeySent
<1>. QED
  BY <1>1, <1>2, KeySentHere

\* Only MatchRows goes on from its step.
LEMMA MatchIsLeft ==
  ASSUME TypeOK, Position, Next, ~MatchRows, pc' # pc
  PROVE  program[pc].do # "match"
<1>1. CASE CheckArguments \/ AskService \/ Resolve \/ Send \/ Page \/ OneReply \/ ListFails
  BY <1>1 DEF CheckArguments, AskService, Resolve, Send, Page, OneReply, ListFails, Do, Lookups, Listings
<1>2. CASE Each \/ EachEnds \/ ReadNames \/ FindThing \/ GetThing \/ GetAgain \/ ReadMore
  BY <1>2 DEF Each, EachEnds, ReadNames, FindThing, GetThing, GetAgain, ReadMore, Do
<1>3. CASE Render \/ Meddle \/ LookAgain
  BY <1>3 DEF Render, Meddle, LookAgain
<1>. QED
  BY <1>1, <1>2, <1>3 DEF Next, Client

\* A comparison that is still to come is not passed by, except by itself.
LEMMA ComparedStays ==
  ASSUME TypeOK, Position, Next, ~MatchRows, NEW i \in Items, Compared(i),
         program[pc].do # "eachSkip" \/ (pc' = pc /\ i > marker')
                                    \/ (pc' = pc + 1 /\ ~(i > marker))
  PROVE  Compared(i)'
<1>1. pc' \in {pc, pc + 1} /\ program' = program
  BY StepMoves DEF Moves, argVars
<1>2. pc \in Nat /\ Len(program) \in Nat /\ i \in Nat /\ i > 0
  BY ProgramIsFinite, ItemsAssumption DEF TypeOK
<1>3. PICK k \in pc..Len(program) :
        program[k].do \in Filters /\ (k > pc \/ program[k].do = "match" \/ i > marker)
  BY DEF Compared
<1>4. CASE pc' = pc
  <2>1. k > pc \/ program[k].do = "match" \/ i > marker'
    BY <1>2, <1>3, <1>4 DEF Filters
  <2>. QED
    BY <1>1, <1>3, <1>4, <2>1 DEF Compared
<1>5. CASE pc' = pc + 1
  <2>1. marker' = 0
    BY <1>2, <1>5, MarkerStep
  <2>2. k > pc
    <3>1. pc' # pc
      BY <1>2, <1>5
    <3>2. program[pc].do # "match"
      BY <3>1, MatchIsLeft
    <3>. QED
      BY <1>2, <1>3, <1>5, <3>2 DEF Filters
  <2>3. k \in pc'..Len(program') /\ i > marker'
    BY <1>1, <1>2, <1>5, <2>1, <2>2
  <2>. QED
    BY <1>1, <1>3, <2>3 DEF Compared
<1>. QED
  BY <1>1, <1>4, <1>5

LEMMA LaterCompares ==
  ASSUME TypeOK, Position, Next, NEW i \in Items,
         NEW j \in pc + 1..Len(program), program[j].do \in Filters
  PROVE  Compared(i)'
<1>1. pc' \in {pc, pc + 1} /\ program' = program
  BY StepMoves DEF Moves, argVars
<1>2. pc \in Nat /\ Len(program) \in Nat /\ i \in Nat /\ i > 0
  BY ProgramIsFinite, ItemsAssumption DEF TypeOK
<1>3. j \in pc'..Len(program') /\ program'[j].do \in Filters
  BY <1>1, <1>2
<1>4. j > pc' \/ i > marker'
  <2>1. CASE pc' = pc
    BY <1>2, <2>1
  <2>2. CASE pc' = pc + 1
    BY <1>2, <2>2, MarkerStep
  <2>. QED
    BY <1>1, <2>1, <2>2
<1>. QED
  BY <1>3, <1>4 DEF Compared

LEMMA PlacedListing ==
  ASSUME TypeOK, Position, KeySent, Placed, Page \/ OneReply, \A p \in Programs : Narrows(p)
  PROVE  Placed'
<1>1. Next /\ world \in seen /\ UNCHANGED <<program, arg, seen>>
  BY DEF Next, Client, Position, Page, OneReply, argVars
<1>2. program[pc].do \in Listings /\ pc \in 1..Len(program) /\ Len(program) \in Nat
  BY ProgramIsFinite DEF Page, OneReply, Do, Listings, TypeOK
<1>3. PICK S : Receive(S) /\ \A i \in S : i \in Items /\ Wanted(world.of[i])
  <2>1. PICK k : Receive(Behind(k)) \/ Receive(Reply(Behind(k)))
    BY DEF Page, OneReply
  <2>2. \A i \in Behind(k) : i \in Items /\ Wanted(world.of[i])
    BY DEF Behind
  <2>3. Reply(Behind(k)) \subseteq Behind(k)
    BY DEF Reply
  <2>. QED
    BY <2>1, <2>2, <2>3
<1>4. ASSUME NEW i \in Items, rows'[i] # Gone
      PROVE  /\ \E w \in seen' : w.of[i] = rows'[i]
             /\ HasMeant(rows[i])' \/ Compared(i)'
  <2>1. CASE i \in S
    <3>1. rows'[i] = world.of[i] /\ Wanted(world.of[i])
      BY <1>3, <1>4, <2>1 DEF Receive
    <3>2. Narrows(program) /\ program[pc].do # "own"
      BY <1>2 DEF TypeOK, Narrows
    <3>3. key \in {None, world.of[i]} /\ world.of[i] \in Things
      BY <1>4, <3>1, <3>2, WorldHasType DEF Wanted, Kind
    <3>4. CASE key = world.of[i]
      BY <1>1, <3>1, <3>3, <3>4, MeantStays DEF KeySent, HasMeant
    <3>5. ASSUME key = None
          PROVE  HasMeant(rows[i])' \/ Compared(i)'
      <4>1. CASE Takes(program) = {None}
        BY <1>1, <4>1 DEF Position, HasMeant
      <4>2. CASE \E j \in 1..pc - 1 : program[j].do \in Sends
        BY <1>1, <3>5, <4>2 DEF KeySent, HasMeant
      <4>3. CASE \E j \in pc + 1..Len(program) : program[j].do \in Filters
        BY <1>1, <4>3, LaterCompares
      <4>. QED
        BY <1>2, <3>2, <4>1, <4>2, <4>3 DEF Narrows, Filters
    <3>. QED
      BY <1>1, <3>1, <3>3, <3>4, <3>5
  <2>2. CASE i \notin S
    <3>1. rows'[i] = rows[i]
      BY <1>3, <2>2 DEF Receive
    <3>2. ~MatchRows /\ program[pc].do # "eachSkip"
      BY <1>2 DEF MatchRows, Do, Listings
    <3>3. HasMeant(rows[i]) => HasMeant(rows[i])'
      BY <1>1, <3>1, MeantStays DEF HasMeant
    <3>. QED
      BY <1>1, <1>4, <3>1, <3>2, <3>3, ComparedStays DEF Placed
  <2>. QED
    BY <2>1, <2>2
<1>. QED
  BY <1>4 DEF Placed

LEMMA PlacedMatch == TypeOK /\ Position /\ Placed /\ MatchRows => Placed'
<1>. SUFFICES ASSUME TypeOK, Position, Placed, MatchRows, NEW i \in Items, rows'[i] # Gone
              PROVE  /\ \E w \in seen' : w.of[i] = rows'[i]
                     /\ HasMeant(rows[i])' \/ Compared(i)'
  BY DEF Placed
<1>1. rows'[i] = rows[i] /\ rows[i] = arg /\ UNCHANGED <<arg, seen>>
  BY DEF MatchRows, argVars
<1>. QED
  BY <1>1 DEF Placed, HasMeant

LEMMA PlacedEach == TypeOK /\ Position /\ KeySent /\ Placed /\ Each => Placed'
<1>. SUFFICES ASSUME TypeOK, Position, KeySent, Placed, Each, NEW j \in Items, rows'[j] # Gone
              PROVE  /\ \E w \in seen' : w.of[j] = rows'[j]
                     /\ HasMeant(rows[j])' \/ Compared(j)'
  BY DEF Placed
<1>1. Next /\ ~MatchRows /\ world \in seen /\ UNCHANGED <<program, arg, seen, key, pc>>
  BY DEF Next, Client, Position, Each, MatchRows, Do, argVars
<1>2. PICK i \in Rest : (\A k \in Rest : i <= k) /\ Again(i)
  BY DEF Each
<1>3. program[pc].do \in {"eachStop", "eachSkip"} /\ i \in Items
  BY DEF Each, Do, Rest, Listed
<1>4. CASE rows'[j] = rows[j] /\ (program[pc].do = "eachStop" \/ j # i)
  <2>1. HasMeant(rows[j]) => HasMeant(rows[j])'
    BY <1>1, <1>4, MeantStays DEF HasMeant
  <2>2. Compared(j) => Compared(j)' \/ ~(j > marker)
    <3>1. CASE program[pc].do # "eachSkip"
      BY <1>1, <3>1, ComparedStays
    <3>2. CASE program[pc].do = "eachSkip" /\ j > marker
      <4>1. j \in Rest /\ i # j
        BY <1>4, <3>2 DEF Rest, Listed
      <4>2. j > i /\ marker' = i
        <5>1. marker' = i
          BY <1>2, <3>2 DEF Again, Kind
        <5>2. i \in Nat /\ j \in Nat
          BY <1>3, ItemsAssumption
        <5>. QED
          BY <1>2, <4>1, <5>1, <5>2
      <4>. QED
        BY <1>1, <4>2, ComparedStays
    <3>. QED
      BY <3>1, <3>2
  <2>3. Compared(j) /\ ~(j > marker) => Compared(j)'
    <3>1. ASSUME Compared(j), ~(j > marker)
          PROVE  Compared(j)'
      <4>1. PICK k \in pc..Len(program) :
              program[k].do \in Filters /\ (k > pc \/ program[k].do = "match")
        BY <3>1 DEF Compared
      <4>. QED
        BY <1>1, <4>1 DEF Compared
    <3>. QED
      BY <3>1
  <2>4. HasMeant(rows[j]) \/ Compared(j)
    BY <1>4 DEF Placed
  <2>. QED
    BY <1>1, <1>4, <2>1, <2>2, <2>3, <2>4 DEF Placed
<1>5. CASE rows'[j] = key /\ j = i /\ world.of[i] = key
  <2>1. key \in Things
    BY <1>3, <1>5, WorldHasType
  <2>. QED
    BY <1>1, <1>5, <2>1, MeantStays DEF KeySent, HasMeant
<1>6. rows'[j] = rows[j] \/ (j = i /\ rows'[j] = key /\ world.of[i] = key)
  BY <1>2, <1>3 DEF Again, Skipped, TypeOK
<1>7. program[pc].do = "eachSkip" /\ j = i => rows'[j] = key /\ world.of[i] = key
  BY <1>2, <1>3 DEF Again, Skipped, TypeOK, Kind
<1>. QED
  BY <1>3, <1>4, <1>5, <1>6, <1>7

LEMMA PlacedEnds == TypeOK /\ Position /\ Placed /\ EachEnds => Placed'
<1>. SUFFICES ASSUME TypeOK, Position, Placed, EachEnds, NEW i \in Items, rows'[i] # Gone
              PROVE  /\ \E w \in seen' : w.of[i] = rows'[i]
                     /\ HasMeant(rows[i])' \/ Compared(i)'
  BY DEF Placed
<1>1. Next /\ ~MatchRows /\ UNCHANGED <<rows, arg, seen>> /\ pc' = pc + 1
  BY DEF Next, Client, EachEnds, MatchRows, Do, Advance, argVars
<1>2. ~(i > marker)
  BY <1>1 DEF EachEnds, Rest, Listed
<1>3. HasMeant(rows[i]) => HasMeant(rows[i])'
  BY <1>1, MeantStays DEF HasMeant
<1>. QED
  BY <1>1, <1>2, <1>3, ComparedStays DEF Placed

LEMMA PlacedElsewhere ==
  ASSUME TypeOK, Position, Placed, Next, ~Page, ~OneReply, ~MatchRows, ~Each, ~EachEnds
  PROVE  Placed'
<1>1. UNCHANGED <<rows, marker>> /\ (pc' = pc \/ program[pc].do # "eachSkip")
  <2>1. CASE CheckArguments \/ AskService \/ Resolve \/ Send \/ ListFails
    BY <2>1 DEF CheckArguments, AskService, Resolve, Send, ListFails, Do, Lookups, Listings, tableVars
  <2>2. CASE ReadNames \/ FindThing \/ GetThing \/ GetAgain \/ ReadMore
    BY <2>2 DEF ReadNames, FindThing, GetThing, GetAgain, ReadMore, Do, tableVars
  <2>3. CASE Render \/ Meddle \/ LookAgain
    BY <2>3 DEF Render, Meddle, LookAgain, tableVars
  <2>. QED
    BY <2>1, <2>2, <2>3 DEF Next, Client
<1>2. seen \subseteq seen' /\ UNCHANGED <<program, arg>>
  BY StepMoves DEF Moves, argVars
<1>3. ASSUME NEW i \in Items, Compared(i)
      PROVE  Compared(i)'
  <2>1. CASE pc' = pc
    BY <1>1, <1>2, <1>3, <2>1 DEF Compared
  <2>2. CASE program[pc].do # "eachSkip"
    BY <1>3, <2>2, ComparedStays
  <2>. QED
    BY <1>1, <2>1, <2>2
<1>4. \A i \in Items : HasMeant(rows[i]) => HasMeant(rows[i])'
  BY <1>1, <1>2, MeantStays DEF HasMeant
<1>. QED
  BY <1>1, <1>2, <1>3, <1>4 DEF Placed

(* Where every listing is restricted by what the argument says, or its     *)
(* rows are afterwards, a table shows nothing but what was there and       *)
(* belonged to a thing that the argument meant while the command ran.      *)
THEOREM ShownHolds ==
  ASSUME \A p \in Programs : Narrows(p)
  PROVE  Spec => []ShownWasThere
<1>1. Init => Placed /\ KeySent
  BY NamesAssumption DEF Init, Placed, KeySent
<1>2. TypeOK /\ Position /\ LooksBack /\ KeySent /\ Placed /\ [Next]_vars => Placed' /\ KeySent'
  <2>1. Placed /\ UNCHANGED vars => Placed'
    BY DEF Placed, Compared, HasMeant, vars, argVars, tableVars
  <2>. QED
    BY <2>1, KeySentStep, PlacedListing, PlacedMatch, PlacedEach, PlacedEnds, PlacedElsewhere
<1>3. TypeOK /\ Position /\ Placed => ShownWasThere
  <2>1. ASSUME TypeOK, verdict = "ok", Position, NEW i \in Items
        PROVE  ~Compared(i)
    BY <2>1, ProgramIsFinite DEF Position, TypeOK, Compared
  <2>. QED
    BY <2>1 DEF Placed, ShownWasThere, Listed
<1>. QED
  BY <1>1, <1>2, <1>3, LooksBackHolds, PTL DEF Spec

-----------------------------------------------------------------------------
(* Nothing is lost: what belonged all the time to what the argument meant  *)
(* all the time is behind the marker of a listing or in the table.         *)

LEMMA HasFirst ==
  ASSUME NEW S \in SUBSET Nat, S # {}
  PROVE  \E i \in S : \A j \in S : i <= j
<1>. DEFINE R == OpToRel(<, Nat)
<1>1. IsWellFoundedOn(R, Nat)
  BY NatLessThanWellFounded
<1>2. \A x, y \in Nat : <<x, y>> \in R <=> x < y
  BY DEF OpToRel
<1>. HIDE DEF R
<1>3. PICK i \in S : \A j \in S : ~(<<j, i>> \in R)
  BY <1>1, WFMin
<1>4. ASSUME NEW j \in S
      PROVE  i <= j
  <2>1. ~(<<j, i>> \in R)
    BY <1>3
  <2>2. i \in Nat /\ j \in Nat
    OBVIOUS
  <2>3. ~(j < i)
    BY <1>2, <2>1, <2>2
  <2>. QED
    BY <2>2, <2>3
<1>. QED
  BY <1>4

\* A page holds all there is up to its last item ...
LEMMA PageIsDense ==
  ASSUME NEW B \in SUBSET Items, NEW last \in Reply(B), NEW i \in B, i <= last
  PROVE  i \in Reply(B)
<1>. DEFINE Before(k) == {j \in B : j < k}
<1>1. IsFiniteSet(B) /\ i \in Nat /\ last \in Nat /\ \A j \in B : j \in Nat
  BY ItemsAssumption, FS_Subset DEF Reply
<1>2. IsFiniteSet(Before(last)) /\ Before(i) \in SUBSET Before(last)
  <2>1. Before(last) \in SUBSET B
    OBVIOUS
  <2>2. ASSUME NEW j \in B, j < i
        PROVE  j < last
    BY <1>1, <2>2
  <2>3. Before(i) \in SUBSET Before(last)
    BY <2>2
  <2>. QED
    BY <1>1, <2>1, <2>3, FS_Subset
<1>3. Cardinality(Before(i)) <= Cardinality(Before(last))
  BY <1>2, FS_Subset
<1>4. Cardinality(Before(i)) \in Nat /\ Cardinality(Before(last)) \in Nat
  BY <1>2, FS_Subset, FS_CardinalityType
<1>5. Cardinality(Before(last)) < PageSize
  BY DEF Reply
<1>6. Cardinality(Before(i)) < PageSize
  BY <1>3, <1>4, <1>5, BoundsAssumption
<1>. QED
  BY <1>6 DEF Reply

\* ... and one that is not full holds all there is.
LEMMA LastPageIsWhole ==
  ASSUME NEW B \in SUBSET Items, IsLast(Reply(B))
  PROVE  Reply(B) = B
<1>. DEFINE Before(k) == {j \in B : j < k}
<1>. SUFFICES ASSUME B \ Reply(B) # {}
              PROVE  FALSE
  BY DEF Reply
<1>1. IsFiniteSet(B) /\ \A j \in B : j \in Nat
  BY ItemsAssumption, FS_Subset
<1>2. PICK i \in B \ Reply(B) : \A j \in B \ Reply(B) : i <= j
  BY <1>1, HasFirst
<1>3. Before(i) \in SUBSET Reply(B) /\ Reply(B) \in SUBSET B
  BY <1>1, <1>2 DEF Reply
<1>4. IsFiniteSet(Reply(B)) /\ IsFiniteSet(Before(i))
  BY <1>1, <1>3, FS_Subset
<1>5. Cardinality(Before(i)) <= Cardinality(Reply(B))
  BY <1>3, <1>4, FS_Subset
<1>6. Cardinality(Before(i)) \in Nat /\ Cardinality(Reply(B)) \in Nat
  BY <1>4, FS_CardinalityType
<1>7. ~(Cardinality(Before(i)) < PageSize)
  BY <1>2 DEF Reply
<1>. QED
  BY <1>5, <1>6, <1>7, BoundsAssumption DEF IsLast

Steady(i, t) == AlwaysMeant(t) /\ \A w \in seen : w.of[i] = t
\* Nothing has happened that NothingLost excuses.
Plain == verdict # "failed" /\ excuses \subseteq {"missed", "unnamed"}

KeyIs(t) ==
  IF arg = None THEN key = None
  ELSE key \in {None, t} /\ ((\E k \in 1..pc - 1 : program[k].do \in Sends) => key = t)
KeyRight == Plain => \A t \in Things : AlwaysMeant(t) => KeyIs(t)

HasCome(i, k) ==
  /\ program[k].do \in Whole
  /\ program[k].from \in {0, Home[i]}
  /\ k < pc \/ (k = pc /\ i <= marker)
Had ==
  Plain => \A i \in Items, t \in Things : Steady(i, t) =>
    \A k \in 1..Len(program) : HasCome(i, k) => rows[i] = t

\* What has held all the time has held until now, and holds now.
LEMMA HeldBefore ==
  ASSUME TypeOK, Position, Next
  PROVE  /\ Plain' => Plain
         /\ \A t : AlwaysMeant(t)' => AlwaysMeant(t)
         /\ \A i, t : Steady(i, t)' => Steady(i, t)
<1>1. seen \subseteq seen' /\ excuses \subseteq excuses' /\ UNCHANGED <<program, arg>>
  BY StepMoves DEF Moves, argVars
<1>2. verdict = "failed" => verdict' = "failed"
  <2>1. verdict = "running"
    <3>1. CASE CheckArguments \/ AskService \/ Resolve \/ Send \/ Page \/ OneReply
               \/ ListFails \/ MatchRows
      BY <3>1 DEF CheckArguments, AskService, Resolve, Send, Page, OneReply, ListFails, MatchRows, Do
    <3>2. CASE Each \/ EachEnds \/ ReadNames \/ FindThing \/ GetThing \/ GetAgain \/ ReadMore
      BY <3>2 DEF Each, EachEnds, ReadNames, FindThing, GetThing, GetAgain, ReadMore, Do
    <3>3. CASE Render \/ Meddle \/ LookAgain
      BY <3>3 DEF Render, Meddle, LookAgain, Do
    <3>. QED
      BY <3>1, <3>2, <3>3 DEF Next, Client
  <2>. QED
    BY <2>1
<1>3. \A t : AlwaysMeant(t)' => AlwaysMeant(t)
  BY <1>1 DEF AlwaysMeant, Meant
<1>4. \A i, t : Steady(i, t)' => Steady(i, t)
  BY <1>1, <1>3 DEF Steady
<1>. QED
  BY <1>1, <1>2, <1>3, <1>4 DEF Plain

\* Rows are matched only with an ID.
LEMMA MatchedIsMeant ==
  ASSUME TypeOK, Position, \A p \in Programs : Covers(p),
         pc <= Len(program), program[pc].do = "match", NEW t \in Things, AlwaysMeant(t)
  PROVE  t = arg
<1>1. pc \in 1..Len(program)
  BY ProgramIsFinite DEF TypeOK
<1>2. Has(program, {"match"})
  BY <1>1 DEF Has
<1>3. ~MayName(program)
  BY <1>2 DEF Covers, TypeOK
<1>4. arg \in Things
  <2>1. Has(program, {"given", "at", "match", "byId"})
    BY <1>2 DEF Has
  <2>. QED
    BY <1>3, <2>1 DEF Position, Takes
<1>. QED
  BY <1>3, <1>4, NamesAssumption DEF AlwaysMeant

LEMMA KeyRightHere ==
  ASSUME TypeOK, Position, LooksBack, KeyRight, Resolve \/ Send \/ MatchRows, \A p \in Programs : Covers(p)
  PROVE  KeyRight'
<1>. SUFFICES ASSUME Plain', NEW t \in Things, AlwaysMeant(t)'
              PROVE  KeyIs(t)'
  BY DEF KeyRight
<1>1. Next /\ world \in seen /\ UNCHANGED <<program, arg>>
  BY DEF Next, Client, Position, Resolve, Send, MatchRows, argVars
<1>2. Plain /\ AlwaysMeant(t)
  BY <1>1, HeldBefore
<1>3. CASE Resolve
  <2>1. excuses' \subseteq {"missed", "unnamed"} /\ verdict' # "failed"
    BY DEF Plain
  <2>2. PICK u \in Things : Hit(u) /\ key' = u
    BY <1>3, <2>1 DEF Resolve, Unresolved, Excuse, Stop
  <2>3. arg # None /\ \E w \in seen : u \in Meant(w, arg)
    BY <1>3, <2>2, HitIsMeant DEF Resolve, Do, Lookups
  <2>4. u = t
    BY <1>2, <2>3 DEF AlwaysMeant
  <2>. QED
    BY <1>1, <2>2, <2>3, <2>4 DEF KeyIs
<1>4. CASE Send
  <2>1. key' = arg /\ WithId(world, arg) # {}
    BY <1>4 DEF Send, Plain, Excuse
  <2>2. arg # None => arg = t
    BY <1>1, <1>2, <2>1 DEF AlwaysMeant, Meant, WithId
  <2>. QED
    BY <1>1, <2>1, <2>2 DEF KeyIs
<1>5. CASE MatchRows
  <2>1. key' = arg
    BY <1>5 DEF MatchRows
  <2>2. arg = t
    BY <1>2, <1>5, MatchedIsMeant DEF MatchRows, Do
  <2>. QED
    BY <1>1, <2>1, <2>2 DEF KeyIs
<1>. QED
  BY <1>3, <1>4, <1>5

LEMMA KeyRightStep ==
  ASSUME \A p \in Programs : Covers(p)
  PROVE  TypeOK /\ Position /\ LooksBack /\ KeyRight /\ [Next]_vars => KeyRight'
<1>1. KeyRight /\ UNCHANGED vars => KeyRight'
  BY DEF KeyRight, Plain, KeyIs, AlwaysMeant, Meant, vars, argVars
<1>2. ASSUME TypeOK, Position, KeyRight, Next, ~Resolve, ~Send, ~MatchRows
      PROVE  KeyRight'
  <2>. SUFFICES ASSUME Plain', NEW t \in Things, AlwaysMeant(t)'
                PROVE  KeyIs(t)'
    BY DEF KeyRight
  <2>1. KeyIs(t)
    BY <1>2, HeldBefore DEF KeyRight
  <2>2. UNCHANGED <<key, arg, program>> /\ pc' \in {pc, pc + 1}
    BY <1>2, KeySentElsewhere, StepMoves DEF Moves, argVars
  <2>3. (\E k \in 1..pc' - 1 : program'[k].do \in Sends)
          => \E k \in 1..pc - 1 : program[k].do \in Sends
    <3>. SUFFICES ASSUME NEW k \in 1..pc' - 1, program[k].do \in Sends
                  PROVE  k \in 1..pc - 1
      BY <2>2
    <3>1. pc' = pc \/ program[pc].do \notin Sends
      BY <1>2, KeySentElsewhere
    <3>2. pc \in Nat
      BY <1>2, ProgramIsFinite DEF TypeOK
    <3>3. k # pc \/ pc' = pc
      BY <3>1
    <3>4. pc' = pc \/ pc' = pc + 1
      BY <2>2
    <3>. QED
      BY <3>2, <3>3, <3>4
  <2>. QED
    BY <2>1, <2>2, <2>3 DEF KeyIs
<1>. QED
  BY <1>1, <1>2, KeyRightHere

\* What is received of a steady item is where it belongs.
LEMMA ReceivedRight ==
  ASSUME Position, NEW S, Receive(S), NEW i \in Items, NEW t, Steady(i, t), i \in S \/ rows[i] = t
  PROVE  rows'[i] = t
BY DEF Position, Receive, Steady

\* A listing that asks the service of a steady item has it behind its start.
LEMMA SteadyIsServed ==
  ASSUME Position, KeyRight, Plain, program[pc].do \in Whole, NEW i \in Items, NEW t \in Things,
         Steady(i, t), program[pc].from \in {0, Home[i]}, NEW m, i > m
  PROVE  i \in Behind(m)
<1>1. world.of[i] = t /\ KeyIs(t) /\ t # Gone
  BY NamesAssumption DEF Position, Steady, KeyRight
<1>2. Kind # "own" /\ key \in {None, t}
  BY <1>1 DEF Kind, Whole, KeyIs
<1>. QED
  BY <1>1, <1>2 DEF Behind, Served, Wanted

LEMMA HadPage ==
  ASSUME TypeOK, Position, KeyRight, Had, Page
  PROVE  Had'
<1>. SUFFICES ASSUME Plain', NEW i \in Items, NEW t \in Things, Steady(i, t)',
                     NEW k \in 1..Len(program'), HasCome(i, k)'
              PROVE  rows'[i] = t
  BY DEF Had
<1>. DEFINE S == Reply(Behind(marker))
<1>1. Next /\ UNCHANGED program /\ Receive(S) /\ program[pc].do \in Whole
  BY DEF Next, Client, Page, Do, argVars, Whole
<1>2. Plain /\ Steady(i, t)
  BY <1>1, HeldBefore
<1>3. pc \in Nat /\ marker \in Nat /\ i \in Nat /\ i > 0 /\ k \in Nat
  BY ItemsAssumption, ProgramIsFinite DEF TypeOK
<1>4. Behind(marker) \in SUBSET Items
  BY DEF Behind
<1>5. CASE HasCome(i, k)
  BY <1>1, <1>2, <1>5, ReceivedRight DEF Had
<1>6. CASE ~HasCome(i, k)
  <2>1. \/ pc' = pc + 1 /\ marker' = 0 /\ IsLast(S)
        \/ pc' = pc /\ marker' \in S
    BY DEF Page, Advance
  <2>2. k = pc /\ i > marker
    <3>1. program[k].do \in Whole /\ program[k].from \in {0, Home[i]}
      BY <1>1 DEF HasCome
    <3>2. ~(k < pc) /\ ~(k = pc /\ i <= marker)
      BY <1>6, <3>1 DEF HasCome
    <3>3. k <= pc'
      BY <1>3, <2>1 DEF HasCome
    <3>4. k # pc + 1
      BY <1>3, <2>1 DEF HasCome
    <3>. QED
      BY <1>3, <2>1, <3>2, <3>3, <3>4
  <2>3. i \in Behind(marker)
    BY <1>1, <1>2, <2>2, SteadyIsServed DEF HasCome
  <2>4. i \in S
    <3>1. CASE IsLast(S)
      BY <1>4, <2>3, <3>1, LastPageIsWhole
    <3>2. CASE pc' = pc /\ marker' \in S
      <4>1. i <= marker'
        BY <1>3, <2>2, <3>2 DEF HasCome
      <4>. QED
        BY <1>4, <2>3, <3>2, <4>1, PageIsDense
    <3>. QED
      BY <2>1, <3>1, <3>2
  <2>. QED
    BY <1>1, <1>2, <2>4, ReceivedRight
<1>. QED
  BY <1>5, <1>6

LEMMA HadOneReply ==
  ASSUME TypeOK, Position, KeyRight, Had, OneReply
  PROVE  Had'
<1>. SUFFICES ASSUME Plain', NEW i \in Items, NEW t \in Things, Steady(i, t)',
                     NEW k \in 1..Len(program'), HasCome(i, k)'
              PROVE  rows'[i] = t
  BY DEF Had
<1>1. Next /\ UNCHANGED <<program, marker>> /\ pc' = pc + 1 /\ marker = 0
  BY DEF Next, Client, OneReply, Do, argVars, Advance, Position
<1>2. Plain /\ Steady(i, t)
  BY <1>1, HeldBefore
<1>3. Receive(Behind(0))
  BY DEF OneReply, Excuse, Plain
<1>4. pc \in Nat /\ i \in Nat /\ i > 0 /\ k \in Nat
  BY ItemsAssumption, ProgramIsFinite DEF TypeOK
<1>5. CASE HasCome(i, k)
  BY <1>1, <1>2, <1>3, <1>5, ReceivedRight DEF Had
<1>6. CASE ~HasCome(i, k)
  <2>1. k = pc
    BY <1>1, <1>4, <1>6 DEF HasCome
  <2>2. program[pc].do \in Whole /\ program[pc].from \in {0, Home[i]}
    BY <1>1, <2>1 DEF HasCome
  <2>3. i \in Behind(0)
    BY <1>2, <1>4, <2>2, SteadyIsServed
  <2>. QED
    BY <1>2, <1>3, <2>3, ReceivedRight
<1>. QED
  BY <1>5, <1>6

\* Steps that keep the row of a steady item, and come to the end of no listing.
LEMMA HadKept ==
  ASSUME TypeOK, Position, Had, Next,
         (pc' = pc /\ UNCHANGED marker) \/ program[pc].do \notin Whole,
         \A i \in Items, t \in Things : Plain' /\ Steady(i, t)' /\ rows[i] = t => rows'[i] = t
  PROVE  Had'
<1>. SUFFICES ASSUME Plain', NEW i \in Items, NEW t \in Things, Steady(i, t)',
                     NEW k \in 1..Len(program'), HasCome(i, k)'
              PROVE  rows[i] = t
  BY DEF Had
<1>1. UNCHANGED program /\ pc' \in {pc, pc + 1}
  BY StepMoves DEF Moves, argVars
<1>2. pc \in Nat /\ i \in Nat /\ k \in Nat
  BY ItemsAssumption, ProgramIsFinite DEF TypeOK
<1>3. HasCome(i, k)
  <2>1. i > 0 /\ (pc' # pc => marker' = 0)
    BY <1>2, MarkerStep, ItemsAssumption
  <2>. QED
    BY <1>1, <1>2, <2>1 DEF HasCome
<1>. QED
  BY <1>1, <1>3, HeldBefore DEF Had

LEMMA HadMatch ==
  ASSUME TypeOK, Position, Had, MatchRows, \A p \in Programs : Covers(p)
  PROVE  Had'
<1>1. Next /\ program[pc].do = "match" /\ pc \in 1..Len(program)
  BY ProgramIsFinite DEF Next, Client, MatchRows, Do, TypeOK
<1>3. ASSUME NEW i \in Items, NEW t \in Things, Steady(i, t)', rows[i] = t
      PROVE  rows'[i] = t
  <2>1. AlwaysMeant(t)
    BY <1>1, <1>3, HeldBefore DEF Steady
  <2>2. t = arg
    BY <1>1, <2>1, ProgramIsFinite, MatchedIsMeant DEF MatchRows, Do
  <2>. QED
    BY <1>3, <2>2 DEF MatchRows
<1>. QED
  BY <1>1, <1>3, HadKept DEF Whole

LEMMA HadEach ==
  ASSUME TypeOK, Position, KeyRight, Had, Each, \A p \in Programs : Covers(p)
  PROVE  Had'
<1>1. /\ Next /\ program[pc].do \in {"eachStop", "eachSkip"} /\ pc \in 1..Len(program)
      /\ UNCHANGED <<program, arg, key, pc>>
  BY ProgramIsFinite DEF Next, Client, Each, Do, TypeOK, argVars
<1>2. PICK i \in Rest : Again(i)
  BY DEF Each
<1>3. ASSUME NEW j \in Items, NEW t \in Things, Plain', Steady(j, t)', rows[j] = t
      PROVE  rows'[j] = t
  <2>1. Plain /\ Steady(j, t) /\ world.of[j] = t
    BY <1>1, <1>3, HeldBefore DEF Steady, Position
  <2>2. CASE program[pc].do = "eachStop"
    BY <1>2, <1>3, <2>2 DEF Again, Kind
  <2>3. CASE program[pc].do = "eachSkip"
    <3>1. PICK k \in 1..pc - 1 : program[k].do \in Sends
      BY <1>1, <2>3 DEF Covers, TypeOK
    <3>2. Has(program, Sends)
      BY <1>1, <3>1, ProgramIsFinite DEF Has, TypeOK
    <3>3. arg # None
      BY <3>2, NamesAssumption DEF Position, Takes, MayName, Has, Sends
    <3>4. key = t
      BY <2>1, <3>1, <3>3 DEF KeyRight, KeyIs, Steady
    <3>5. rows' = [rows EXCEPT ![i] = IF world.of[i] = key THEN key ELSE Gone]
      BY <1>2, <1>3, <2>3 DEF Again, Kind, Excuse, Plain
    <3>. QED
      BY <1>3, <2>1, <3>4, <3>5 DEF TypeOK
  <2>. QED
    BY <1>1, <2>2, <2>3
<1>. QED
  BY <1>1, <1>3, HadKept DEF Whole

LEMMA HadElsewhere ==
  ASSUME TypeOK, Position, Had, Next, ~Page, ~OneReply, ~MatchRows, ~Each
  PROVE  Had'
<1>1. CASE ListFails /\ Plain'
  BY <1>1, HadKept DEF ListFails, Plain, Stop, Excuse, tableVars
<1>2. CASE ~ListFails
  <2>1. UNCHANGED rows /\ ((pc' = pc /\ UNCHANGED marker) \/ program[pc].do \notin Whole)
    <3>1. CASE CheckArguments \/ AskService \/ Resolve \/ Send \/ EachEnds
      BY <3>1 DEF CheckArguments, AskService, Resolve, Send, EachEnds, Do, Lookups, Whole, tableVars
    <3>2. CASE ReadNames \/ FindThing \/ GetThing \/ GetAgain \/ ReadMore
      BY <3>2 DEF ReadNames, FindThing, GetThing, GetAgain, ReadMore, Do, Whole, tableVars
    <3>3. CASE Render \/ Meddle \/ LookAgain
      BY <3>3 DEF Render, Meddle, LookAgain, tableVars
    <3>. QED
      BY <1>2, <3>1, <3>2, <3>3 DEF Next, Client
  <2>. QED
    BY <2>1, HadKept
<1>3. CASE ~Plain'
  BY <1>3 DEF Had
<1>. QED
  BY <1>1, <1>2, <1>3

(* Where the listings of every program reach every item and no row is      *)
(* dropped for an argument that was not looked up, what was there and      *)
(* meant all the time the command ran is in the table, however many pages  *)
(* it takes and whatever is made, moved or deleted in between.             *)
THEOREM NothingIsLost ==
  ASSUME \A p \in Programs : Covers(p)
  PROVE  Spec => []NothingLost
<1>1. Init => KeyRight /\ Had
  <2>. SUFFICES ASSUME Init
                PROVE  KeyRight /\ Had
    OBVIOUS
  <2>1. KeyRight
    BY DEF Init, KeyRight, KeyIs
  <2>2. Had
    <3>1. ASSUME NEW i \in Items, NEW k \in 1..Len(program)
          PROVE  ~HasCome(i, k)
      <4>1. i \in Nat /\ i > 0 /\ k \in Nat /\ k >= 1
        BY ItemsAssumption, ProgramIsFinite DEF Init
      <4>2. pc = 1 /\ marker = 0
        BY DEF Init
      <4>. QED
        BY <4>1, <4>2 DEF HasCome
    <3>. QED
      BY <3>1 DEF Had
  <2>. QED
    BY <2>1, <2>2
<1>2. TypeOK /\ Position /\ LooksBack /\ KeyRight /\ Had /\ [Next]_vars => KeyRight' /\ Had'
  <2>1. Had /\ UNCHANGED vars => Had'
    BY DEF Had, HasCome, Plain, Steady, AlwaysMeant, Meant, vars, argVars, tableVars
  <2>. QED
    BY <2>1, KeyRightStep, HadPage, HadOneReply, HadMatch, HadEach, HadElsewhere
<1>3. TypeOK /\ Position /\ Had => NothingLost
  <2>. SUFFICES ASSUME TypeOK, Position, Had, verdict = "ok", Has(program, Whole),
                       excuses \subseteq {"missed", "unnamed"}, NEW i \in Items, NEW t \in Things,
                       Steady(i, t)
                PROVE  i \in Listed
    BY DEF NothingLost, Steady
  <2>1. PICK k \in 1..Len(program) : program[k].do \in Whole /\ program[k].from \in {0, Home[i]}
    BY DEF Covers, TypeOK
  <2>2. HasCome(i, k)
    BY <2>1, ProgramIsFinite DEF HasCome, Position, TypeOK
  <2>3. rows[i] = t /\ t # Gone
    BY <2>1, <2>2, NamesAssumption DEF Had, Plain
  <2>. QED
    BY <2>3 DEF Listed
<1>. QED
  BY <1>1, <1>2, <1>3, LooksBackHolds, PTL DEF Spec
=============================================================================
