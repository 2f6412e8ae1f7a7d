------------------------ MODULE ResourceEdit_proofs ------------------------
(***************************************************************************)
(* Proofs about ResourceEdit, for any resource, any table of handlers and  *)
(* any number of repetitions and of changes by other users.                *)
(***************************************************************************)
EXTENDS ResourceEdit, FiniteSetTheorems, TLAPS

-----------------------------------------------------------------------------
(* Types.                                                                  *)

\* A step the command is at is one of the table's.
LEMMA CurrentStep ==
  ASSUME TypeOK
  PROVE  /\ Len(handler.steps) \in Nat
         /\ DOMAIN handler.steps = 1..Len(handler.steps)
         /\ handler.clears \subseteq Parts
         /\ \A kinds : At(kinds) => at \in DOMAIN handler.steps /\ IsStep(Current)
<1>1. IsHandler(handler)
  BY CommandsAssumption DEF TypeOK
<1>2. /\ Len(handler.steps) \in Nat
      /\ DOMAIN handler.steps = 1..Len(handler.steps)
  BY <1>1 DEF IsHandler
<1>3. at \in 1..(Len(handler.steps) + 1)
  BY DEF TypeOK
<1>4. \A kinds : At(kinds) => at \in DOMAIN handler.steps
  BY <1>2, <1>3 DEF At
<1>. QED
  BY <1>1, <1>2, <1>4 DEF IsHandler, Current

LEMMA PartsAreFinite == IsFiniteSet(Parts)
<1>. DEFINE A == {"fields", "list", "profile"}
            B == {"tags", "specs", "access"}
            C == {"state", "settings", "secret"}
            D == {"stored", "image", "member"}
<1>1. \A x, y, z : IsFiniteSet({x, y, z})
  <2>. TAKE x, y, z
  <2>1. IsFiniteSet({x})
    BY FS_Singleton
  <2>2. IsFiniteSet({x} \cup {y})
    BY <2>1, FS_AddElement
  <2>3. IsFiniteSet(({x} \cup {y}) \cup {z})
    BY <2>2, FS_AddElement
  <2>4. ({x} \cup {y}) \cup {z} = {x, y, z}
    OBVIOUS
  <2>. QED
    BY <2>3, <2>4
<1>2. IsFiniteSet(A \cup B) /\ IsFiniteSet(C \cup D)
  BY <1>1, FS_Union
<1>3. IsFiniteSet((A \cup B) \cup (C \cup D))
  BY <1>2, FS_Union
<1>4. (A \cup B) \cup (C \cup D) = Parts
  BY DEF Parts
<1>. QED
  BY <1>3, <1>4

LEMMA UnreadIsFinite ==
  ASSUME TypeOK
  PROVE  Cardinality(Unread) \in Nat
<1>1. IsFiniteSet(Places)
  BY PartsAreFinite, KeysAssumption, FS_Product DEF Places
<1>2. Unread \subseteq Places
  BY DEF Unread, TypeOK
<1>. QED
  BY <1>1, <1>2, FS_Subset, FS_CardinalityType

LEMMA ValueHasType ==
  ASSUME TypeOK, NEW effect, NEW s \in Places
  PROVE  Value(effect, s) \in Values
<1>1. content[s] \in Values /\ wanted[s] \in Values /\ item[s] \in Values /\ None \in Values
  BY ValuesAssumption DEF TypeOK, Contents
<1>2. Others(effect, s) \in Values
  BY <1>1 DEF Others
<1>. QED
  BY <1>1, <1>2 DEF Value, Rest

LEMMA AfterHasType ==
  ASSUME TypeOK, NEW effects
  PROVE  After(effects) \in Contents
BY ValueHasType DEF After, TypeOK, Contents

LEMMA NothingHasType == Nothing \in Contents
BY ValuesAssumption DEF Nothing, Contents

LEMMA ReadsHasType ==
  ASSUME TypeOK, NEW parts, NEW from \in Contents, Reads(parts, from)
  PROVE  item' \in Contents /\ raced' \subseteq Places
BY DEF Reads, TypeOK, Contents

\* What the client's bookkeeping may become.
Booked ==
  /\ at' \in 1..(Len(handler.steps) + 1)
  /\ failures' \in Nat
  /\ report' \in {"running", "ok", "error", "count", "shown"}

LEMMA AdvanceHasType ==
  ASSUME TypeOK, NEW kinds, At(kinds), Advance
  PROVE  Booked /\ done' \subseteq Places
<1>1. at' \in 1..(Len(handler.steps) + 1)
  BY CurrentStep DEF Advance
<1>. QED
  BY <1>1 DEF Advance, TypeOK, Booked

LEMMA ReturnHasType ==
  ASSUME TypeOK, NEW result \in {"ok", "error", "count", "shown"}, Return(result)
  PROVE  Booked /\ done' \subseteq Places
BY DEF Return, TypeOK, Booked

LEMMA FailHasType ==
  ASSUME TypeOK, NEW kinds, At(kinds), Fail
  PROVE  Booked /\ done' \subseteq Places
<1>1. CASE Return("error") \/ Return("shown")
  BY <1>1, ReturnHasType
<1>2. CASE /\ failures' = Plus(1) /\ at' = at + 1 /\ done' = {}
           /\ UNCHANGED report
  <2>1. at' \in 1..(Len(handler.steps) + 1)
    BY <1>2, CurrentStep
  <2>. QED
    BY <1>2, <2>1 DEF Plus, TypeOK, Booked
<1>. QED
  BY <1>1, <1>2 DEF Fail

\* Every command keeps its types.
THEOREM TypeCorrect == Spec => []TypeOK
<1>1. Init => TypeOK
  <2>. SUFFICES ASSUME Init PROVE TypeOK
    OBVIOUS
  <2>1. handler \in Commands /\ IsHandler(handler)
    BY CommandsAssumption DEF Init
  <2>2. at \in 1..(Len(handler.steps) + 1)
    BY <2>1 DEF Init, IsHandler
  <2>3. content \in Contents /\ wanted \in Contents
    BY NothingHasType, ValuesAssumption DEF Init, Contents
  <2>4. asked \subseteq Places
    BY DEF Init, Nameable, Places
  <2>5. disturbances \in 0..MaxDisturbances
    BY BoundAssumption DEF Init
  <2>. QED
    BY <2>1, <2>2, <2>3, <2>4, <2>5 DEF Init, TypeOK
<1>2. TypeOK /\ [Next]_vars => TypeOK'
  <2>. SUFFICES ASSUME TypeOK, [Next]_vars PROVE TypeOK'
    OBVIOUS
  <2>. DEFINE Same == UNCHANGED fixedVars
              Goal == content' \in Contents /\ item' \in Contents /\ raced' \subseteq Places
                      /\ lost' \in BOOLEAN /\ Booked /\ done' \subseteq Places
  <2>0. ASSUME Same, Goal PROVE TypeOK'
    <3>1. handler' = handler
      BY <2>0 DEF fixedVars, commandVars
    <3>. QED
      BY <2>0, <3>1 DEF TypeOK, fixedVars, commandVars, othersVars, Booked
  <2>n. ASSUME NoReading PROVE item' \in Contents /\ raced' \subseteq Places
    BY <2>n DEF NoReading, TypeOK
  <2>k. content \in Contents /\ lost \in BOOLEAN
    BY DEF TypeOK
  <2>1. CASE CheckArguments
    <3>1. Booked /\ done' \subseteq Places
      BY <2>1, AdvanceHasType, ReturnHasType DEF CheckArguments
    <3>. QED
      BY <2>1, <3>1, <2>0, <2>n, <2>k DEF CheckArguments
  <2>2. CASE FindResource
    <3>1. Booked /\ done' \subseteq Places
      BY <2>2, AdvanceHasType, ReturnHasType DEF FindResource
    <3>2. item' \in Contents /\ raced' \subseteq Places
      BY <2>2, <2>n, <2>k, ReadsHasType DEF FindResource
    <3>. QED
      BY <2>2, <3>1, <3>2, <2>0, <2>k DEF FindResource
  <2>3. CASE ReadRaw
    <3>1. Booked /\ done' \subseteq Places
      BY <2>3, AdvanceHasType DEF ReadRaw
    <3>2. item' \in Contents /\ raced' \subseteq Places
      BY <2>3, <2>k, ReadsHasType, NothingHasType DEF ReadRaw
    <3>. QED
      BY <2>3, <3>1, <3>2, <2>0, <2>k DEF ReadRaw
  <2>4. CASE Reread
    <3>1. Booked /\ done' \subseteq Places
      BY <2>4, AdvanceHasType, FailHasType DEF Reread
    <3>2. item' \in Contents /\ raced' \subseteq Places
      BY <2>4, <2>k, ReadsHasType, NothingHasType DEF Reread
    <3>. QED
      BY <2>4, <3>1, <3>2, <2>0, <2>k DEF Reread
  <2>5. CASE RequirePresent
    <3>1. Booked /\ done' \subseteq Places
      BY <2>5, AdvanceHasType, ReturnHasType DEF RequirePresent
    <3>. QED
      BY <2>5, <3>1, <2>0, <2>n, <2>k DEF RequirePresent
  <2>6. CASE CountAbsent
    <3>1. at' \in 1..(Len(handler.steps) + 1)
      BY <2>6, CurrentStep DEF CountAbsent
    <3>2. failures' \in Nat
      BY <2>6, UnreadIsFinite DEF CountAbsent, Plus, TypeOK
    <3>3. Booked /\ done' \subseteq Places
      BY <2>6, <3>1, <3>2 DEF CountAbsent, Booked, TypeOK
    <3>. QED
      BY <2>6, <3>3, <2>0, <2>n, <2>k DEF CountAbsent
  <2>7. CASE Request
    <3>1. Booked /\ done' \subseteq Places
      BY <2>7, AdvanceHasType, FailHasType DEF Request
    <3>2. content' \in Contents
      BY <2>7, <2>k, AfterHasType DEF Request
    <3>3. item' \in Contents /\ raced' \subseteq Places
      BY <2>7, <3>2, <2>n, ReadsHasType DEF Request
    <3>. QED
      BY <2>7, <3>1, <3>2, <3>3, <2>0, <2>k DEF Request
  <2>8. CASE Each
    <3>1. PICK s \in Due :
            LET updated == [content EXCEPT ![s] = IF Current.kind = "each" THEN wanted[s] ELSE None] IN
            \/ /\ content' = updated
               /\ done' = done \cup {s} /\ UNCHANGED <<at, failures, report>>
            \/ /\ content' \in {content, updated}
               /\ IF Current.on = "stop" THEN Return("error")
                  ELSE failures' = Plus(1) /\ done' = done \cup {s} /\ UNCHANGED <<at, report>>
      BY <2>8 DEF Each
    <3>2. s \in Places
      BY DEF Due
    <3>3. content' \in Contents
      BY <3>1, <3>2, ValuesAssumption DEF TypeOK, Contents
    <3>4. Booked /\ done' \subseteq Places
      <4>1. CASE Return("error")
        BY <4>1, ReturnHasType
      <4>2. CASE ~Return("error")
        BY <3>1, <3>2, <4>2 DEF TypeOK, Booked, Plus
      <4>. QED
        BY <4>1, <4>2
    <3>. QED
      BY <2>8, <3>3, <3>4, <2>0, <2>n, <2>k DEF Each
  <2>9. CASE Skip
    <3>1. Booked /\ done' \subseteq Places
      BY <2>9, AdvanceHasType DEF Skip
    <3>. QED
      BY <2>9, <3>1, <2>0, <2>n, <2>k DEF Skip
  <2>10. CASE Finish
    <3>1. Booked /\ done' \subseteq Places
      BY <2>10, ReturnHasType DEF Finish
    <3>. QED
      BY <2>10, <3>1, <2>0, <2>n, <2>k DEF Finish
  <2>11. CASE Repeat
    <3>1. Booked /\ done' \subseteq Places
      BY <2>11, CurrentStep DEF Repeat, Booked
    <3>2. disturbances' \in 0..MaxDisturbances
      BY <2>11, BoundAssumption DEF Repeat, TypeOK
    <3>. QED
      BY <2>11, <3>1, <3>2 DEF Repeat, TypeOK, commandVars, Booked
  <2>12. CASE Meddle
    <3>1. content' \in Contents /\ touched' \subseteq Places /\ raced' \subseteq Places
      BY <2>12 DEF Meddle, TypeOK, Contents
    <3>2. disturbances' \in 0..MaxDisturbances
      BY <2>12, BoundAssumption DEF Meddle, TypeOK
    <3>. QED
      BY <2>12, <3>1, <3>2 DEF Meddle, TypeOK, clientVars, commandVars
  <2>13. CASE Attempt
    <3>1. Booked /\ done' \subseteq Places
      BY <2>13, AdvanceHasType, ReturnHasType DEF Attempt
    <3>2. content' \in Contents
      BY <2>13, <2>k, AfterHasType DEF Attempt
    <3>. QED
      BY <2>13, <3>1, <3>2, <2>0, <2>n, <2>k DEF Attempt
  <2>14. CASE UNCHANGED vars
    BY <2>14 DEF vars, clientVars, fixedVars, commandVars, othersVars, TypeOK
  <2>. QED
    BY <2>1, <2>2, <2>3, <2>4, <2>5, <2>6, <2>7, <2>8, <2>9, <2>10, <2>11, <2>12, <2>13, <2>14 DEF Next, Client
<1>. QED
  BY <1>1, <1>2, PTL DEF Spec

-----------------------------------------------------------------------------
(* What a step of the client does to the resource and to the reading.      *)

\* What a request writes in one place.
Written(s, value) ==
  \/ value = content[s]
  \/ s \in asked /\ value = wanted[s]
  \/ s[1] \in clear /\ value = None
  \/ s \notin asked /\ s[1] \notin clear /\ value = item[s] /\ SentWhole(s[1])

LEMMA ValueIsWritten ==
  ASSUME TypeOK, NEW kinds, At(kinds), NEW s \in Places, s[1] \in DOMAIN Current.effects, Keeps(handler)
  PROVE  Written(s, Value(Current.effects[s[1]], s))
<1>. DEFINE p == s[1]
            effect == Current.effects[p]
<1>1. at \in DOMAIN handler.steps /\ at \in 1..Len(handler.steps) /\ effect \in Effects
  BY CurrentStep DEF IsStep
<1>2. effect = "rewrite" => p \notin clear
  BY <1>1 DEF Keeps, Current, TypeOK
<1>3. effect = "rewrite" \/ Composed(effect, p) => SentWhole(p)
  BY <1>1 DEF SentWhole, Current
<1>4. CASE IsGiven(effect, s)
  BY <1>4 DEF Value, IsGiven, Written
<1>5. CASE ~IsGiven(effect, s)
  <2>1. Value(effect, s) = Others(effect, s)
    BY <1>5 DEF Value, Rest
  <2>2. s \in asked => effect \notin {"edit", "whole", "merge", "diff", "rewrite"}
    BY <1>5 DEF IsGiven, Gives
  <2>3. \/ Others(effect, s) = content[s]
        \/ p \in clear /\ Others(effect, s) = None
        \/ /\ p \notin clear
           /\ effect = "rewrite" \/ Composed(effect, p)
           /\ Others(effect, s) = item[s]
    BY <1>1, <1>2 DEF Others, Effects
  <2>4. effect = "rewrite" \/ Composed(effect, p) => effect \in {"whole", "merge", "diff", "rewrite"}
    BY DEF Composed
  <2>. QED
    BY <2>1, <2>2, <2>3, <2>4, <1>3 DEF Written
<1>. QED
  BY <1>4, <1>5

LEMMA AfterIsWritten ==
  ASSUME TypeOK, NEW kinds, At(kinds), NEW s \in Places, Keeps(handler)
  PROVE  Written(s, After(Current.effects)[s])
<1>1. CASE s[1] \in DOMAIN Current.effects
  BY <1>1, ValueIsWritten DEF After
<1>2. CASE s[1] \notin DOMAIN Current.effects
  BY <1>2 DEF After, Written
<1>. QED
  BY <1>1, <1>2

\* What becomes of the reading of a place: it stays, it is what there is now,
\* it is empty where all is to be dropped, or it is lost.
ReadAnew(s) ==
  \/ item'[s] = item[s] /\ (s \in raced' <=> s \in raced)
  \/ item'[s] = content'[s] /\ s \notin raced'
  \/ s[1] \in clear /\ item'[s] = None
  \/ lost' /\ s[1] = "profile"

LEMMA ClientStep ==
  ASSUME TypeOK, Client, Keeps(handler), NEW s \in Places
  PROVE  /\ UNCHANGED fixedVars
         /\ lost => lost'
         /\ Written(s, content'[s])
         /\ ReadAnew(s)
<1>n. ASSUME NoReading PROVE ReadAnew(s)
  BY <1>n DEF NoReading, ReadAnew
<1>w. ASSUME UNCHANGED content PROVE Written(s, content'[s])
  BY <1>w DEF Written
<1>r. ASSUME NEW parts, Reads(parts, content') PROVE ReadAnew(s)
  BY <1>r DEF Reads, ReadAnew
<1>1. CASE CheckArguments
  BY <1>1, <1>n, <1>w DEF CheckArguments
<1>2. CASE FindResource
  BY <1>2, <1>n, <1>w, <1>r DEF FindResource
<1>3. CASE ReadRaw
  <2>1. DOMAIN Current.effects = {"profile"}
    BY <1>3, CurrentStep DEF ReadRaw, IsStep, At
  <2>2. CASE Reads(DOMAIN Current.effects, content) /\ UNCHANGED lost
    BY <1>3, <2>2, <1>r, <1>w DEF ReadRaw
  <2>3. CASE Reads(DOMAIN Current.effects, Nothing) /\ lost' = TRUE
    <3>1. ReadAnew(s)
      BY <2>1, <2>3 DEF Reads, ReadAnew
    <3>. QED
      BY <1>3, <2>3, <3>1, <1>w DEF ReadRaw
  <2>. QED
    BY <1>3, <2>2, <2>3 DEF ReadRaw
<1>4. CASE Reread
  <2>1. CASE Reads(Dropped, content)
    BY <1>4, <2>1, <1>r, <1>w DEF Reread
  <2>2. CASE Reads(Dropped, Nothing)
    <3>1. ReadAnew(s)
      BY <2>2 DEF Reads, ReadAnew, Dropped, Nothing
    <3>. QED
      BY <1>4, <3>1, <1>w DEF Reread
  <2>. QED
    BY <1>4, <2>1, <2>2 DEF Reread
<1>5. CASE RequirePresent
  BY <1>5, <1>n, <1>w DEF RequirePresent
<1>6. CASE CountAbsent
  BY <1>6, <1>n, <1>w DEF CountAbsent
<1>7. CASE Request
  <2>1. Written(s, content'[s])
    BY <1>7, <1>w, AfterIsWritten DEF Request
  <2>2. ReadAnew(s)
    BY <1>7, <1>n, <1>r DEF Request
  <2>. QED
    BY <1>7, <2>1, <2>2 DEF Request
<1>8. CASE Each
  <2>1. PICK d \in Due :
          \/ content' = content
          \/ content' = [content EXCEPT ![d] = IF Current.kind = "each" THEN wanted[d] ELSE None]
    BY <1>8 DEF Each
  <2>2. /\ d \in Places
        /\ IF Current.kind = "each" THEN d \in asked ELSE d[1] \in clear
    BY DEF Due
  <2>3. Written(s, content'[s])
    BY <2>1, <2>2 DEF Written, TypeOK, Contents
  <2>. QED
    BY <1>8, <2>3, <1>n DEF Each
<1>9. CASE Skip
  BY <1>9, <1>n, <1>w DEF Skip
<1>10. CASE Finish
  BY <1>10, <1>n, <1>w DEF Finish
<1>11. CASE Attempt
  <2>1. Written(s, content'[s])
    BY <1>11, <1>w, AfterIsWritten DEF Attempt
  <2>. QED
    BY <1>11, <1>n, <2>1 DEF Attempt
<1>. QED
  BY <1>1, <1>2, <1>3, <1>4, <1>5, <1>6, <1>7, <1>8, <1>9, <1>10, <1>11 DEF Client

-----------------------------------------------------------------------------
(* Nothing is made up.                                                     *)

\* The reading of a place nobody else touched is no more than what it held or
\* what is asked for: so writing it back does no harm.
Between ==
  \A s \in Places \ touched :
    Misread(s) \/ (content[s] \in Allowed(s) /\ item[s] \in Allowed(s))

LEMMA BetweenInvariance ==
  ASSUME \A h \in Commands : Keeps(h)
  PROVE  Spec => []Between
<1>1. Init => Between
  BY DEF Init, Between, Allowed
<1>2. TypeOK /\ Between /\ [Next]_vars => Between'
  <2>. SUFFICES ASSUME TypeOK, Between, [Next]_vars,
                       NEW s \in Places, s \notin touched', ~Misread(s)'
                PROVE  content'[s] \in Allowed(s)' /\ item'[s] \in Allowed(s)'
    BY DEF Between
  <2>1. CASE Client
    <3>1. UNCHANGED fixedVars /\ (lost => lost') /\ Written(s, content'[s]) /\ ReadAnew(s)
      <4>1. Keeps(handler)
        BY DEF TypeOK
      <4>. QED
        BY <2>1, <4>1, ClientStep
    <3>2. s \notin touched /\ ~Misread(s) /\ Allowed(s)' = Allowed(s) /\ ~(lost' /\ s[1] = "profile")
      BY <3>1 DEF fixedVars, commandVars, othersVars, Misread, Allowed
    <3>3. content[s] \in Allowed(s) /\ item[s] \in Allowed(s)
      BY <3>2 DEF Between
    <3>4. (s \in asked => wanted[s] \in Allowed(s)) /\ (s[1] \in clear => None \in Allowed(s))
      BY DEF Allowed
    <3>5. content'[s] \in Allowed(s)
      BY <3>1, <3>3, <3>4 DEF Written
    <3>6. item'[s] \in Allowed(s)
      BY <3>1, <3>2, <3>3, <3>4, <3>5 DEF ReadAnew
    <3>. QED
      BY <3>2, <3>5, <3>6
  <2>2. CASE Repeat
    BY <2>2 DEF Repeat, Between, Misread, Allowed, fixedVars, commandVars, othersVars
  <2>3. CASE Meddle
    <3>1. PICK d \in Places, v \in Values : content' = [content EXCEPT ![d] = v] /\ touched' = touched \cup {d}
      BY <2>3 DEF Meddle
    <3>2. s \notin touched /\ content'[s] = content[s] /\ item' = item
      BY <2>3, <3>1 DEF Meddle, clientVars, TypeOK, Contents
    <3>3. Misread(s)' = Misread(s) /\ Allowed(s)' = Allowed(s)
      BY <2>3 DEF Meddle, Misread, Allowed, commandVars
    <3>. QED
      BY <3>2, <3>3 DEF Between
  <2>4. CASE UNCHANGED vars
    BY <2>4 DEF vars, clientVars, fixedVars, commandVars, othersVars, Between, Misread, Allowed
  <2>. QED
    BY <2>1, <2>2, <2>3, <2>4 DEF Next
<1>. QED
  BY <1>1, <1>2, TypeCorrect, PTL DEF Spec

\* Whatever fails, is lost or is given again: a place that nobody else touched
\* holds what it held or what is asked for, for every table of handlers that
\* drop nothing unread.
THEOREM NothingIsMadeUp ==
  ASSUME \A h \in Commands : Keeps(h)
  PROVE  Spec => []OldOrAsked
<1>1. Between => OldOrAsked
  BY DEF Between, OldOrAsked
<1>. QED
  BY <1>1, BetweenInvariance, PTL

-----------------------------------------------------------------------------
(* What others do is undone only by writing back what was read before.     *)

\* The reading of a place that is not to be changed is as old as what others
\* have last done to it.
UpToDate ==
  \A s \in Places \ (asked \cup raced) :
    \/ s[1] \in clear
    \/ Misread(s)
    \/ item[s] = content[s]

\* A command changes what it is asked to change; else it only takes back what
\* others have done after the reading, in a part that is sent whole.
THEOREM OthersAreUndoneOnlyInRaces ==
  ASSUME \A h \in Commands : Keeps(h)
  PROVE  Spec => UndoesOnlyRaces
<1>. DEFINE Honest(s) ==
        \/ content'[s] = content[s]
        \/ s \in asked /\ content'[s] = wanted[s]
        \/ s[1] \in clear /\ content'[s] = None
        \/ Misread(s)
        \/ s \in raced /\ content'[s] = item[s] /\ SentWhole(s[1])
<1>1. Init => UpToDate
  BY DEF Init, UpToDate
<1>2. ASSUME TypeOK, UpToDate, Client, NEW s \in Places
      PROVE  /\ UNCHANGED fixedVars /\ (lost => lost') /\ ReadAnew(s)
             /\ Honest(s)
  <2>1. Keeps(handler)
    BY <1>2 DEF TypeOK
  <2>2. UNCHANGED fixedVars /\ (lost => lost') /\ Written(s, content'[s]) /\ ReadAnew(s)
    BY <1>2, <2>1, ClientStep
  <2>3. Honest(s)
    BY <1>2, <2>2 DEF Written, UpToDate
  <2>. QED
    BY <2>2, <2>3
<1>3. TypeOK /\ UpToDate /\ [Next]_vars => UpToDate'
  <2>. SUFFICES ASSUME TypeOK, UpToDate, [Next]_vars, NEW s \in Places, s \notin (asked \cup raced)',
                       ~(s[1] \in clear)', ~Misread(s)'
                PROVE  item'[s] = content'[s]
    BY DEF UpToDate
  <2>1. CASE Client
    <3>1. UNCHANGED fixedVars /\ (lost => lost') /\ ReadAnew(s) /\ Honest(s)
      BY <2>1, <1>2
    <3>2. s \notin asked /\ s[1] \notin clear /\ ~Misread(s) /\ ~(lost' /\ s[1] = "profile")
      BY <3>1 DEF fixedVars, commandVars, Misread
    <3>3. CASE item'[s] = content'[s]
      BY <3>3
    <3>4. CASE item'[s] = item[s] /\ (s \in raced' <=> s \in raced)
      <4>1. s \notin raced /\ item[s] = content[s]
        BY <3>2, <3>4 DEF UpToDate
      <4>. QED
        BY <3>1, <3>2, <3>4, <4>1
    <3>. QED
      BY <3>1, <3>2, <3>3, <3>4 DEF ReadAnew
  <2>2. CASE Repeat
    BY <2>2 DEF Repeat, UpToDate, Misread, fixedVars, commandVars
  <2>3. CASE Meddle
    <3>1. PICK d \in Places, v \in Values : content' = [content EXCEPT ![d] = v] /\ raced' = raced \cup {d}
      BY <2>3 DEF Meddle
    <3>2. s \notin raced /\ content'[s] = content[s] /\ item' = item
      BY <2>3, <3>1 DEF Meddle, clientVars, TypeOK, Contents
    <3>3. Misread(s)' = Misread(s) /\ asked' = asked /\ clear' = clear
      BY <2>3 DEF Meddle, Misread, commandVars
    <3>. QED
      BY <3>2, <3>3 DEF UpToDate
  <2>4. CASE UNCHANGED vars
    BY <2>4 DEF vars, clientVars, fixedVars, commandVars, UpToDate, Misread
  <2>. QED
    BY <2>1, <2>2, <2>3, <2>4 DEF Next
<1>4. TypeOK /\ UpToDate /\ [Next]_vars =>
        (clientVars' # clientVars => \A s \in Places : Honest(s))
  <2>. SUFFICES ASSUME TypeOK, UpToDate, [Next]_vars, clientVars' # clientVars, NEW s \in Places
                PROVE  Honest(s)
    OBVIOUS
  <2>1. CASE Client
    BY <2>1, <1>2
  <2>2. CASE Repeat
    BY <2>2 DEF Repeat
  <2>3. CASE Meddle
    BY <2>3 DEF Meddle, TypeOK
  <2>4. CASE UNCHANGED vars
    BY <2>4 DEF vars
  <2>. QED
    BY <2>1, <2>2, <2>3, <2>4 DEF Next
<1>. QED
  BY <1>1, <1>3, <1>4, TypeCorrect, PTL DEF Spec, UndoesOnlyRaces

-----------------------------------------------------------------------------
(* Success means that all was done.                                        *)

Going == report = "running" /\ failures = 0

\* The places counted as dealt with belong to the step the command is at.
InHand ==
  report = "running" =>
    \A d \in done : at <= Len(handler.steps) /\ (EachOf(Current, d[1], "each") \/ EachOf(Current, d[1], "eachRead"))

\* The command line names what the handler has an option for, and a command
\* that removes gives no values.
Said ==
  /\ \A s \in asked : s[1] \in Nameable(handler)
  /\ handler.removes => \A s \in Places : wanted[s] = None

\* What the steps behind were to do to a place is done.
Given(s) == s \in asked => \A k \in 1..at - 1 : GivesAsked(handler, k, s[1]) => content[s] = wanted[s]
Emptied(s) ==
  s \notin asked /\ s[1] \in clear /\ ~Neglected(s[1]) =>
    \A k \in 1..at - 1 : DropsAll(handler, k, s[1]) => content[s] = None
MidWay(s) ==
  s \in done => /\ Current.kind = "each" => content[s] = wanted[s]
                /\ Current.kind = "eachRead" /\ s \notin asked => content[s] = None

\* Since it was read and not written, a place holds what was read.
Known(s) ==
  s \notin done =>
    \A r \in 1..at - 1 :
      /\ ReadsPart(handler.steps[r], s[1], s[1] \in clear)
      /\ \A m \in r + 1..at - 1 : ~Writes(handler.steps[m], s[1])
      => item[s] = content[s]

Progress ==
  Going => \A s \in Places \ touched : Misread(s) \/ (Given(s) /\ Emptied(s) /\ MidWay(s) /\ Known(s))

\* A step that is over, and nothing went wrong.
Over == at' = at + 1 /\ done' = {} /\ report' = "running" /\ failures' = 0

LEMMA FailIsNoProgress ==
  ASSUME TypeOK, Fail
  PROVE  report' # "running" \/ failures' # 0
BY DEF Fail, Return, Plus, TypeOK

\* What becomes of a place in a step that writes nothing.
LEMMA ReadingStep ==
  ASSUME TypeOK, NEW s \in Places, ~Misread(s)', report' = "running", failures' = 0,
         CheckArguments \/ FindResource \/ ReadRaw \/ Reread \/ RequirePresent \/ CountAbsent
  PROVE  /\ Over /\ Going /\ at \in 1..Len(handler.steps) /\ UNCHANGED <<content, fixedVars>>
         /\ lost => lost'
         /\ item'[s] = item[s] \/ item'[s] = content[s]
         /\ ReadsPart(Current, s[1], s[1] \in clear) => item'[s] = content[s]
         /\ Current.kind \in {"check", "find", "raw", "reread", "present", "absent"}
<1> USE DEF Over, Going, At, ReadsPart, TypeOK
<1>0. ASSUME NEW kinds, At(kinds) PROVE at \in 1..Len(handler.steps)
  BY <1>0, CurrentStep
<1>1. CASE CheckArguments
  BY <1>0, <1>1 DEF CheckArguments, Advance, Return, NoReading
<1>2. CASE FindResource
  <2>1. s[1] \in Parts
    BY DEF Places
  <2>. QED
    BY <1>0, <1>2, <2>1 DEF FindResource, Advance, Return, NoReading, Reads
<1>3. CASE ReadRaw
  <2>1. DOMAIN Current.effects = {"profile"}
    BY <1>3, CurrentStep DEF ReadRaw, IsStep
  <2>2. item'[s] = item[s] \/ item'[s] = content[s]
    BY <1>3, <2>1 DEF ReadRaw, Reads, Misread
  <2>3. s[1] \in DOMAIN Current.effects => item'[s] = content[s]
    BY <1>3, <2>1 DEF ReadRaw, Reads, Misread
  <2>. QED
    BY <1>0, <1>3, <2>2, <2>3 DEF ReadRaw, Advance, Misread
<1>4. CASE Reread
  <2>1. Reads(Dropped, content) /\ Advance
    BY <1>4, FailIsNoProgress DEF Reread
  <2>. QED
    BY <1>0, <1>4, <2>1 DEF Reread, Reads, Advance, Dropped
<1>5. CASE RequirePresent
  BY <1>0, <1>5 DEF RequirePresent, Advance, Return, NoReading
<1>6. CASE CountAbsent
  <2>1. failures = 0
    BY <1>6, UnreadIsFinite DEF CountAbsent, Plus
  <2>. QED
    BY <1>0, <1>6, <2>1 DEF CountAbsent, NoReading
<1>. QED
  BY <1>1, <1>2, <1>3, <1>4, <1>5, <1>6


LEMMA KnownIsCurrent ==
  ASSUME NEW s \in Places, Known(s), s \notin done,
         NEW c \in BOOLEAN, c => s[1] \in clear, ReadBefore(handler, at, s[1], c)
  PROVE  item[s] = content[s]
<1>1. PICK r \in 1..at - 1 : /\ ReadsPart(handler.steps[r], s[1], c)
                             /\ \A m \in r + 1..at - 1 : ~Writes(handler.steps[m], s[1])
  BY DEF ReadBefore
<1>2. ReadsPart(handler.steps[r], s[1], s[1] \in clear)
  BY <1>1 DEF ReadsPart
<1>. QED
  BY <1>1, <1>2 DEF Known

\* What is asked of a place is given by the step that is to give it, be it that
\* there is nothing to send.
LEMMA AskedIsGiven ==
  ASSUME TypeOK, Said, NEW s \in Places, s \in asked, s \notin done, Known(s), At(Writing),
         GivesAsked(handler, at, s[1])
  PROVE  /\ After(Current.effects)[s] = wanted[s]
         /\ ~Sends(Current) => content[s] = wanted[s]
<1> DEFINE p == s[1]
           effect == Current.effects[p]
<1>1. Current.kind \in Writing /\ p \in DOMAIN Current.effects /\ s \in Named(p) /\ Concerned(p)
  BY DEF GivesAsked, At, Current, EachOf, Does, Writing, Named, Concerned
<1>2. After(Current.effects)[s] = Value(effect, s)
  BY <1>1 DEF After
<1>3. ~Sends(Current) => ~Matters(effect, p)
  BY <1>1 DEF Sends
<1>4. \/ effect \in {"add", "edit", "whole", "merge", "rewrite"}
      \/ effect = "diff" /\ item[s] = content[s]
      \/ effect = "found" /\ wanted[s] = None /\ item[s] = content[s]
  <2>1. ReadBefore(handler, at, p, FALSE) => item[s] = content[s]
    BY KnownIsCurrent
  <2>2. ~EachOf(handler.steps[at], p, "each")
    BY <1>1 DEF EachOf, Current, Writing
  <2>3. handler.removes => wanted[s] = None
    BY DEF Said
  <2>. QED
    BY <2>1, <2>2, <2>3 DEF GivesAsked, Does, Current
<1>5. CASE effect \in {"add", "edit", "whole", "merge", "rewrite"}
  <2>1. Value(effect, s) = wanted[s]
    BY <1>5 DEF Value, IsGiven, Gives
  <2>2. Matters(effect, p)
    BY <1>1, <1>5 DEF Matters
  <2>. QED
    BY <1>2, <1>3, <2>1, <2>2
<1>6. CASE effect = "diff" /\ item[s] = content[s]
  <2>1. Value(effect, s) = wanted[s]
    BY <1>6 DEF Value, IsGiven, Gives
  <2>2. ~Matters(effect, p) => Value(effect, s) = item[s]
    BY <1>1, <1>6 DEF Matters
  <2>. QED
    BY <1>2, <1>3, <1>6, <2>1, <2>2
<1>7. CASE effect = "found" /\ wanted[s] = None /\ item[s] = content[s]
  <2>1. CASE Read(s)
    <3>1. Value(effect, s) = wanted[s]
      BY <1>7, <2>1 DEF Value, IsGiven, Gives
    <3>2. Matters(effect, p)
      BY <1>1, <1>7, <2>1 DEF Matters
    <3>. QED
      BY <1>2, <1>3, <3>1, <3>2
  <2>2. CASE ~Read(s)
    <3>1. content[s] = wanted[s]
      BY <1>7, <2>2 DEF Read
    <3>2. Value(effect, s) = content[s]
      BY <1>7, <2>2 DEF Value, IsGiven, Rest, Others, Composed
    <3>. QED
      BY <1>2, <3>1, <3>2
  <2>. QED
    BY <2>1, <2>2
<1>. QED
  BY <1>4, <1>5, <1>6, <1>7

\* The same of a place that is to be dropped.
LEMMA ClearedIsDropped ==
  ASSUME TypeOK, NEW s \in Places, s \notin asked, s[1] \in clear, s \notin done, Known(s), At(Writing),
         DropsAll(handler, at, s[1]), ~Neglected(s[1])
  PROVE  /\ After(Current.effects)[s] = None
         /\ ~Sends(Current) => content[s] = None
<1> DEFINE p == s[1]
           effect == Current.effects[p]
<1>1. Current.kind \in Writing /\ p \in DOMAIN Current.effects /\ Concerned(p) /\ ~IsGiven(effect, s)
  BY DEF DropsAll, At, Current, EachOf, Does, Writing, Concerned, IsGiven
<1>2. After(Current.effects)[s] = Others(effect, s)
  BY <1>1 DEF After, Value, Rest
<1>3. ~Sends(Current) => ~Matters(effect, p)
  BY <1>1 DEF Sends
<1>4. \/ effect \in {"wipe", "whole", "merge"}
      \/ effect \in {"diff", "edit", "forget"} /\ item[s] = content[s]
  <2>1. ReadBefore(handler, at, p, TRUE) => item[s] = content[s]
    BY KnownIsCurrent
  <2>2. ~EachOf(handler.steps[at], p, "eachRead")
    BY <1>1 DEF EachOf, Current, Writing
  <2>. QED
    BY <2>1, <2>2 DEF DropsAll, Does, Current
<1>5. CASE effect \in {"wipe", "whole", "merge"}
  <2>1. effect = "merge" => Named(p) # {}
    <3>1. at \in 1..Len(handler.steps)
      BY CurrentStep
    <3>. QED
      BY <1>1, <3>1 DEF Neglected, Current
  <2>. QED
    BY <1>1, <1>2, <1>3, <1>5, <2>1 DEF Others, Composed, Matters
<1>6. CASE effect = "diff" /\ item[s] = content[s]
  <2>1. Others(effect, s) = None
    BY <1>1, <1>6 DEF Others, Composed
  <2>2. ~Matters(effect, p) => Value(effect, s) = item[s]
    BY <1>1, <1>6 DEF Matters
  <2>3. Value(effect, s) = Others(effect, s)
    BY <1>1 DEF Value, Rest
  <2>. QED
    BY <1>2, <1>3, <1>6, <2>1, <2>2, <2>3
<1>7. CASE effect \in {"edit", "forget"} /\ item[s] = content[s]
  <2>1. Others(effect, s) = None
    BY <1>7 DEF Others, Read
  <2>2. Read(s) => Matters(effect, p)
    BY <1>7 DEF Matters
  <2>. QED
    BY <1>2, <1>3, <1>7, <2>1, <2>2 DEF Read
<1>. QED
  BY <1>4, <1>5, <1>6, <1>7

\* A request takes away what is asked for only where all of a part is dropped.
LEMMA AskedIsKept ==
  ASSUME TypeOK, NEW s \in Places, s \in asked, At(Writing)
  PROVE  \/ After(Current.effects)[s] \in {content[s], wanted[s]}
         \/ s[1] \in clear /\ Drops(Current, s[1])
<1> DEFINE p == s[1]
           effect == Current.effects[p]
<1>1. CASE p \notin DOMAIN Current.effects
  BY <1>1 DEF After
<1>2. CASE p \in DOMAIN Current.effects
  <2>1. After(Current.effects)[s] = Value(effect, s) /\ effect \in Effects
    BY <1>2, CurrentStep DEF After, IsStep
  <2>2. CASE IsGiven(effect, s)
    BY <2>1, <2>2 DEF Value
  <2>3. CASE ~IsGiven(effect, s)
    <3>1. effect \notin {"add", "edit", "whole", "merge", "diff", "rewrite"}
      BY <2>3 DEF IsGiven, Gives
    <3>2. Value(effect, s) = content[s] \/ (p \in clear /\ effect \in {"wipe", "forget"})
      BY <2>1, <2>3, <3>1 DEF Value, Rest, Others, Composed, Effects
    <3>. QED
      BY <1>2, <2>1, <3>2 DEF Drops, Does, At
  <2>. QED
    BY <2>2, <2>3
<1>. QED
  BY <1>1, <1>2

LEMMA RequestStep ==
  ASSUME TypeOK, NEW s \in Places, report' = "running", failures' = 0, Request
  PROVE  /\ Over /\ Going /\ at \in 1..Len(handler.steps) /\ UNCHANGED <<lost, fixedVars>>
         /\ At(Writing) /\ content' = After(Current.effects)
         /\ item'[s] = item[s] \/ item'[s] = content'[s]
         /\ Current.kind = "create" => item'[s] = content'[s]
<1>1. At(Writing) /\ at \in 1..Len(handler.steps)
  BY CurrentStep DEF Request, At, Writing
<1>2. Advance /\ content' = After(Current.effects)
  BY FailIsNoProgress DEF Request
<1>3. IF Current.kind \in {"create", "putAnswered"} THEN Reads(Parts, content') ELSE NoReading
  BY <1>2, FailIsNoProgress DEF Request
<1>4. s[1] \in Parts
  BY DEF Places
<1>. QED
  BY <1>1, <1>2, <1>3, <1>4 DEF Request, Reads, NoReading, Advance, Over, Going, At

\* What holds of the steps behind and was done at the last one, holds behind it.
LEMMA StepOver ==
  ASSUME TypeOK, NEW s \in Places,
         Given(s), Emptied(s), Known(s), Over, at \in 1..Len(handler.steps), UNCHANGED fixedVars,
         ~Writes(Current, s[1]) => content'[s] = content[s] /\ s \notin done,
         item'[s] = item[s] \/ item'[s] = content'[s],
         ReadsPart(Current, s[1], s[1] \in clear) => item'[s] = content'[s],
         s \in asked => \/ content'[s] \in {content[s], wanted[s]}
                        \/ s[1] \in clear /\ Drops(Current, s[1]),
         s \notin asked /\ s[1] \in clear => content'[s] \in {content[s], None},
         s \in asked /\ GivesAsked(handler, at, s[1]) => content'[s] = wanted[s],
         s \notin asked /\ s[1] \in clear /\ ~Neglected(s[1]) /\ DropsAll(handler, at, s[1]) => content'[s] = None
  PROVE  Given(s)' /\ Emptied(s)' /\ MidWay(s)' /\ Known(s)'
<1> DEFINE p == s[1]
<1>1. /\ UNCHANGED <<handler, asked, wanted, clear>> /\ at' = at + 1 /\ done' = {}
      /\ Len(handler.steps) \in Nat /\ at \in Nat /\ clear \subseteq handler.clears
      /\ Current = handler.steps[at]
  BY CurrentStep DEF fixedVars, commandVars, Over, TypeOK, Current
<1>2. ASSUME s \in asked, NEW k \in 1..at, GivesAsked(handler, k, p) PROVE content'[s] = wanted[s]
  <2>1. CASE k = at
    BY <1>2, <2>1
  <2>2. CASE k # at
    <3>1. k \in 1..at - 1 /\ at \in k + 1..Len(handler.steps)
      BY <1>1, <2>2
    <3>2. content[s] = wanted[s]
      BY <1>2, <3>1 DEF Given
    <3>3. p \in clear => ~Drops(Current, p)
      BY <1>1, <1>2, <3>1 DEF GivesAsked
    <3>. QED
      BY <1>2, <3>2, <3>3
  <2>. QED
    BY <2>1, <2>2
<1>3. ASSUME s \notin asked, p \in clear, ~Neglected(p), NEW k \in 1..at, DropsAll(handler, k, p)
      PROVE  content'[s] = None
  <2>1. CASE k = at
    BY <1>3, <2>1
  <2>2. CASE k # at
    <3>1. k \in 1..at - 1
      BY <1>1, <2>2
    <3>. QED
      BY <1>3, <3>1 DEF Emptied
  <2>. QED
    BY <2>1, <2>2
<1>4. ASSUME NEW r \in 1..at, ReadsPart(handler.steps[r], p, p \in clear),
             \A m \in r + 1..at : ~Writes(handler.steps[m], p)
      PROVE  item'[s] = content'[s]
  <2>1. CASE r = at
    BY <1>1, <1>4, <2>1
  <2>2. CASE r # at
    <3>1. r \in 1..at - 1 /\ at \in r + 1..at /\ r + 1..at - 1 \subseteq r + 1..at
      BY <1>1, <2>2
    <3>2. ~Writes(Current, p)
      BY <1>1, <1>4, <3>1
    <3>3. item[s] = content[s]
      BY <1>4, <3>1, <3>2 DEF Known
    <3>. QED
      BY <3>2, <3>3
  <2>. QED
    BY <2>1, <2>2
<1>5. (1..at' - 1) = 1..at /\ \A r : (r + 1..at' - 1) = r + 1..at
  BY <1>1
<1>n. Neglected(p)' = Neglected(p)
  BY <1>1 DEF Neglected, Named
<1>6. Given(s)' /\ Emptied(s)'
  BY <1>1, <1>2, <1>3, <1>5, <1>n DEF Given, Emptied
<1>7. MidWay(s)'
  BY <1>1 DEF MidWay
<1>8. Known(s)'
  BY <1>1, <1>4, <1>5 DEF Known
<1>. QED
  BY <1>6, <1>7, <1>8

\* One of several requests.
LEMMA EachStep ==
  ASSUME TypeOK, NEW s \in Places, Given(s), Emptied(s), MidWay(s), Known(s), Each,
         report' = "running", failures' = 0
  PROVE  Given(s)' /\ Emptied(s)' /\ MidWay(s)' /\ Known(s)'
<1>1. PICK d \in Due :
        /\ content' = [content EXCEPT ![d] = IF Current.kind = "each" THEN wanted[d] ELSE None]
        /\ done' = done \cup {d} /\ UNCHANGED <<at, failures, report>>
  BY DEF Each, Return, Plus, TypeOK
<1>2. /\ UNCHANGED <<handler, asked, wanted, clear, item>>
      /\ Current' = Current /\ at \in 1..Len(handler.steps) /\ Current.kind \in {"each", "eachRead"}
      /\ Current = handler.steps[at] /\ Len(handler.steps) \in Nat /\ clear \subseteq handler.clears
  BY <1>1, CurrentStep DEF Each, fixedVars, commandVars, NoReading, Current, At, TypeOK
<1>3. /\ d \in Places /\ d[1] \in DOMAIN Current.effects
      /\ IF Current.kind = "each" THEN d \in asked ELSE d[1] \in clear
  BY DEF Due
<1>6. Neglected(s[1])' = Neglected(s[1])
  BY <1>2 DEF Neglected, Named
<1>4. CASE s # d
  <2>1. content'[s] = content[s] /\ (s \in done' <=> s \in done)
    BY <1>1, <1>4 DEF TypeOK, Contents
  <2>. QED
    BY <1>1, <1>2, <1>6, <2>1 DEF Given, Emptied, MidWay, Known
<1>5. CASE s = d
  <2>1. s \in done' /\ content'[s] = IF Current.kind = "each" THEN wanted[s] ELSE None
    BY <1>1, <1>3, <1>5 DEF TypeOK, Contents
  <2>2. ASSUME s \in asked, Current.kind # "each", NEW k \in 1..at - 1, GivesAsked(handler, k, s[1])
        PROVE  FALSE
    <3>1. s[1] \in handler.clears /\ Drops(handler.steps[at], s[1])
      BY <1>2, <1>3, <1>5, <2>2 DEF Drops, EachOf
    <3>2. at \in k + 1..Len(handler.steps)
      BY <1>2
    <3>. QED
      BY <2>2, <3>1, <3>2 DEF GivesAsked
  <2>3. Given(s)'
    BY <1>1, <1>2, <2>1, <2>2 DEF Given
  <2>4. Emptied(s)'
    BY <1>1, <1>2, <1>3, <1>5, <2>1 DEF Emptied
  <2>5. MidWay(s)' /\ Known(s)'
    BY <1>2, <2>1 DEF MidWay, Known
  <2>. QED
    BY <2>3, <2>4, <2>5
<1>. QED
  BY <1>4, <1>5

\* A step that has nothing to do, or nothing more.
LEMMA SkipStep ==
  ASSUME TypeOK, InHand, Said, NEW s \in Places, Given(s), Emptied(s), MidWay(s), Known(s), Skip,
         report' = "running", failures' = 0
  PROVE  Given(s)' /\ Emptied(s)' /\ MidWay(s)' /\ Known(s)'
<1> DEFINE p == s[1]
<1>1. /\ Over /\ UNCHANGED <<content, item, fixedVars>> /\ at \in 1..Len(handler.steps)
      /\ Current = handler.steps[at] /\ report = "running"
      /\ Current.kind \in {"put", "putAnswered", "reread", "each", "eachRead", "ignored"}
  BY CurrentStep DEF Skip, Advance, NoReading, Over, At, Current
<1>2. ~Writes(Current, p) => s \notin done
  BY <1>1 DEF InHand, EachOf, Writes
<1>3. ~ReadsPart(Current, p, p \in clear)
  <2>1. CASE Current.kind = "reread"
    <3>1. p \notin DOMAIN Current.effects \cap clear
      BY <2>1 DEF Skip, At, Dropped
    <3>. QED
      BY <2>1, <3>1 DEF ReadsPart
  <2>2. CASE Current.kind # "reread"
    BY <1>1, <2>2 DEF ReadsPart
  <2>. QED
    BY <2>1, <2>2
<1>4. CASE At(Writing)
  <2>1. ~Sends(Current) /\ s \notin done
    BY <1>4 DEF Skip, At, Writing, InHand, EachOf
  <2>2. s \in asked /\ GivesAsked(handler, at, p) => content[s] = wanted[s]
    BY <1>4, <2>1, AskedIsGiven
  <2>3. s \notin asked /\ p \in clear /\ ~Neglected(p) /\ DropsAll(handler, at, p) => content[s] = None
    BY <1>4, <2>1, ClearedIsDropped
  <2>. QED
    BY <1>1, <1>2, <1>3, <2>2, <2>3, StepOver
<1>5. CASE At({"each", "eachRead"})
  <2>1. Due = {} /\ Current.kind \in {"each", "eachRead"}
    BY <1>5 DEF Skip, At
  <2>2. s \in asked /\ GivesAsked(handler, at, p) => content[s] = wanted[s]
    <3>1. ~Does(Current, p, {"add", "edit", "whole", "merge", "rewrite"}) /\ ~Does(Current, p, {"diff"}) /\ ~Does(Current, p, {"found"})
      BY <2>1 DEF Does, Writing
    <3>2. ASSUME s \in asked, GivesAsked(handler, at, p) PROVE EachOf(Current, p, "each")
      BY <1>1, <3>1, <3>2 DEF GivesAsked
    <3>3. s \in asked /\ EachOf(Current, p, "each") => s \in done
      BY <2>1 DEF Due, EachOf
    <3>. QED
      BY <3>2, <3>3 DEF MidWay, EachOf
  <2>3. s \notin asked /\ p \in clear /\ DropsAll(handler, at, p) => content[s] = None
    <3> SUFFICES ASSUME s \notin asked, p \in clear, DropsAll(handler, at, p) PROVE content[s] = None
      OBVIOUS
    <3>1. ~Does(Current, p, {"wipe", "whole", "merge"}) /\ ~Does(Current, p, {"diff", "edit", "forget"})
      BY <2>1 DEF Does, Writing
    <3>2. ReadBefore(handler, at, p, TRUE) /\ EachOf(Current, p, "eachRead")
      BY <1>1, <3>1 DEF DropsAll
    <3>3. s \in done \/ item[s] = None
      BY <2>1, <3>2 DEF Due, EachOf, Read
    <3>4. s \notin done => item[s] = content[s]
      BY <3>2, KnownIsCurrent
    <3>. QED
      BY <3>2, <3>3, <3>4 DEF MidWay, EachOf
  <2>. QED
    BY <1>1, <1>2, <1>3, <2>2, <2>3, StepOver
<1>6. CASE Current.kind \in {"reread", "ignored"}
  <2>1. ~EachOf(Current, p, "each") /\ ~EachOf(Current, p, "eachRead") /\ \A effects : ~Does(Current, p, effects)
    BY <1>6 DEF EachOf, Does, Writing
  <2>2. ~GivesAsked(handler, at, p) /\ ~DropsAll(handler, at, p)
    BY <1>1, <2>1 DEF GivesAsked, DropsAll
  <2>. QED
    BY <1>1, <1>2, <1>3, <2>2, StepOver
<1>. QED
  BY <1>1, <1>4, <1>5, <1>6 DEF At, Writing, Skip

LEMMA ClientProgress ==
  ASSUME TypeOK, InHand, Said, Progress, Client, Keeps(handler)
  PROVE  Progress'
<1> SUFFICES ASSUME report' = "running", failures' = 0, NEW s \in Places, s \notin touched', ~Misread(s)'
             PROVE  Given(s)' /\ Emptied(s)' /\ MidWay(s)' /\ Known(s)'
  BY DEF Progress, Going
<1> DEFINE p == s[1]
<1>1. s \notin touched /\ ~Misread(s) /\ Written(s, content'[s])
  BY ClientStep DEF fixedVars, othersVars, Misread
<1>2. Going => Given(s) /\ Emptied(s) /\ MidWay(s) /\ Known(s)
  BY <1>1 DEF Progress
<1>3. CASE CheckArguments \/ FindResource \/ ReadRaw \/ Reread \/ RequirePresent \/ CountAbsent
  <2>1. /\ Over /\ Going /\ at \in 1..Len(handler.steps) /\ UNCHANGED <<content, fixedVars>>
        /\ item'[s] = item[s] \/ item'[s] = content[s]
        /\ ReadsPart(Current, p, p \in clear) => item'[s] = content[s]
        /\ Current.kind \in {"check", "find", "raw", "reread", "present", "absent"}
    BY <1>3, ReadingStep
  <2>2. s \notin done
    BY <2>1 DEF InHand, Going, EachOf
  <2>3. ~EachOf(Current, p, "each") /\ ~EachOf(Current, p, "eachRead") /\ \A effects : ~Does(Current, p, effects)
    BY <2>1 DEF EachOf, Does, Writing
  <2>4. ~GivesAsked(handler, at, p) /\ ~DropsAll(handler, at, p)
    BY <2>3 DEF GivesAsked, DropsAll, Current
  <2>. QED
    BY <1>2, <2>1, <2>2, <2>4, StepOver
<1>4. CASE Request
  <2>1. /\ Over /\ Going /\ at \in 1..Len(handler.steps) /\ UNCHANGED <<lost, fixedVars>>
        /\ At(Writing) /\ content' = After(Current.effects)
        /\ item'[s] = item[s] \/ item'[s] = content'[s]
        /\ Current.kind = "create" => item'[s] = content'[s]
    BY <1>4, RequestStep
  <2>2. s \notin done /\ Current.kind \in Writing
    BY <2>1 DEF InHand, Going, EachOf, At, Writing
  <2>3. ~Writes(Current, p) => content'[s] = content[s]
    BY <2>1, <2>2 DEF Writes, After
  <2>4. ReadsPart(Current, p, p \in clear) => item'[s] = content'[s]
    BY <2>1, <2>2 DEF ReadsPart, Writing
  <2>5. s \in asked => \/ content'[s] \in {content[s], wanted[s]}
                       \/ p \in clear /\ Drops(Current, p)
    BY <2>1, AskedIsKept
  <2>6. s \notin asked /\ p \in clear => content'[s] \in {content[s], None}
    BY <1>1 DEF Written
  <2>7. s \in asked /\ GivesAsked(handler, at, p) => content'[s] = wanted[s]
    BY <1>2, <2>1, <2>2, AskedIsGiven
  <2>8. s \notin asked /\ p \in clear /\ ~Neglected(p) /\ DropsAll(handler, at, p) => content'[s] = None
    BY <1>2, <2>1, <2>2, ClearedIsDropped
  <2>. QED
    BY <1>2, <2>1, <2>2, <2>3, <2>4, <2>5, <2>6, <2>7, <2>8, StepOver
<1>5. CASE Each
  <2>1. Going
    BY <1>5 DEF Each, At, Return, Plus, TypeOK, Going
  <2>. QED
    BY <1>2, <1>5, <2>1, EachStep
<1>6. CASE Skip
  <2>1. Going
    BY <1>6 DEF Skip, At, Advance, Going
  <2>. QED
    BY <1>2, <1>6, <2>1, SkipStep
<1>7. CASE Finish
  BY <1>7 DEF Finish, Return
<1>8. CASE Attempt
  <2>1. /\ Over /\ Going /\ at \in 1..Len(handler.steps) /\ UNCHANGED <<item, fixedVars>>
        /\ At({"attempt"}) /\ Current.kind = "attempt"
        /\ content' \in {content, After(Current.effects)}
    BY <1>8, CurrentStep DEF Attempt, Advance, Return, NoReading, Over, Going, At
  <2>2. s \notin done
    BY <2>1 DEF InHand, Going, EachOf
  <2>3. ~GivesAsked(handler, at, p) /\ ~DropsAll(handler, at, p)
    BY <2>1 DEF GivesAsked, DropsAll, EachOf, Does, Writing, Current
  <2>4. ~ReadsPart(Current, p, p \in clear)
    BY <2>1 DEF ReadsPart
  <2>5. ~Writes(Current, p) => content'[s] = content[s]
    BY <2>1 DEF Writes, After
  <2>6. After(Current.effects)[s] \in {content[s]} \cup {v \in {wanted[s]} : s \in asked}
    <3>1. p \in DOMAIN Current.effects => Current.effects[p] = "add"
      BY <2>1, CurrentStep DEF IsStep
    <3>. QED
      BY <3>1 DEF After, Value, IsGiven, Rest, Others, Composed
  <2>. QED
    BY <1>2, <2>1, <2>2, <2>3, <2>4, <2>5, <2>6, StepOver
<1>. QED
  BY <1>3, <1>4, <1>5, <1>6, <1>7, <1>8 DEF Client

LEMMA InHandInvariance ==
  ASSUME TypeOK, InHand, [Next]_vars
  PROVE  InHand'
<1>1. CASE done' = {}
  BY <1>1 DEF InHand
<1>2. CASE UNCHANGED <<report, done, at, handler>>
  BY <1>2 DEF InHand, Current
<1>3. CASE Each
  <2>1. CASE done' = {}
    BY <2>1, <1>1
  <2>2. CASE done' # {}
    <3>1. PICK d \in Due : done' = done \cup {d} /\ UNCHANGED <<at, report>>
      BY <1>3, <2>2 DEF Each, Return
    <3>2. d[1] \in DOMAIN Current.effects
      BY DEF Due
    <3>3. Current' = Current /\ handler' = handler /\ report = "running"
          /\ at <= Len(handler.steps) /\ Current.kind \in {"each", "eachRead"}
      BY <1>3, <3>1 DEF Each, At, Current, fixedVars, commandVars
    <3>. QED
      BY <3>1, <3>2, <3>3 DEF InHand, EachOf
  <2>. QED
    BY <2>1, <2>2
<1>4. CASE CheckArguments \/ FindResource \/ ReadRaw \/ Reread \/ RequirePresent \/ CountAbsent
           \/ Request \/ Attempt \/ Skip \/ Finish
  <2>1. done' = {}
    BY <1>4 DEF CheckArguments, FindResource, ReadRaw, Reread, RequirePresent, CountAbsent, Request, Attempt,
                Skip, Finish, Advance, Return, Fail
  <2>. QED
    BY <2>1, <1>1
<1>5. CASE Repeat
  BY <1>5, <1>1 DEF Repeat
<1>6. CASE Meddle
  BY <1>6, <1>2 DEF Meddle, clientVars, commandVars
<1>7. CASE UNCHANGED vars
  BY <1>7, <1>2 DEF vars, clientVars, fixedVars, commandVars
<1>. QED
  BY <1>3, <1>4, <1>5, <1>6, <1>7 DEF Next, Client

LEMMA ProgressInvariance ==
  ASSUME TypeOK, InHand, Said, Progress, [Next]_vars, Keeps(handler)
  PROVE  Progress'
<1>1. CASE Client
  BY <1>1, ClientProgress
<1>2. CASE Repeat
  <2>1. at' = 1 /\ done' = {} /\ (1..at' - 1) = {}
    BY <1>2 DEF Repeat
  <2>. QED
    BY <2>1 DEF Progress, Given, Emptied, MidWay, Known
<1>3. CASE Meddle
  <2> SUFFICES ASSUME Going, NEW s \in Places, s \notin touched', ~Misread(s)'
               PROVE  Given(s)' /\ Emptied(s)' /\ MidWay(s)' /\ Known(s)'
    BY <1>3 DEF Progress, Going, Meddle, clientVars
  <2>1. PICK d \in Places, v \in Values : content' = [content EXCEPT ![d] = v] /\ touched' = touched \cup {d}
    BY <1>3 DEF Meddle
  <2>2. s \notin touched /\ content'[s] = content[s]
    BY <2>1 DEF TypeOK, Contents
  <2>3. UNCHANGED <<handler, asked, wanted, clear, at, item, done, lost, Current>>
    BY <1>3 DEF Meddle, clientVars, commandVars, Current
  <2>4. Given(s) /\ Emptied(s) /\ MidWay(s) /\ Known(s)
    BY <2>2, <2>3 DEF Progress, Misread
  <2>5. Neglected(s[1])' = Neglected(s[1])
    BY <2>3 DEF Neglected, Named
  <2>. QED
    BY <2>2, <2>3, <2>4, <2>5 DEF Given, Emptied, MidWay, Known
<1>4. CASE UNCHANGED vars
  BY <1>4 DEF vars, clientVars, fixedVars, commandVars, othersVars, Progress, Going, Misread, Given, Emptied,
              MidWay, Known, Current, Neglected, Named
<1>. QED
  BY <1>1, <1>2, <1>3, <1>4 DEF Next

\* Of a part whose options are neglected nothing is changed.
Unheeded == \A s \in Places \ touched : Neglected(s[1]) => content[s] = before[s]

\* No step sends what another one neglects.
LEMMA NeglectedIsNotSent ==
  ASSUME TypeOK, Client, Alone(handler), NEW s \in Places, Neglected(s[1])
  PROVE  content'[s] = content[s]
<1> DEFINE p == s[1]
<1>1. PICK i \in 1..Len(handler.steps) :
        /\ p \in DOMAIN handler.steps[i].effects
        /\ \/ handler.steps[i].kind = "ignored"
           \/ handler.steps[i].effects[p] = "merge" /\ Named(p) = {}
  BY DEF Neglected
<1>2. p \in Parts
  BY DEF Places
<1>3. \A m \in (1..Len(handler.steps)) \ {i} : p \notin DOMAIN handler.steps[m].effects
  BY <1>1, <1>2 DEF Alone, Omits
<1>4. IsStep(handler.steps[i])
  BY <1>1, CommandsAssumption, CurrentStep DEF TypeOK, IsHandler
<1>5. ASSUME NEW kinds, At(kinds), "ignored" \notin kinds, p \in DOMAIN Current.effects
      PROVE  Current.effects[p] = "merge" /\ Current.kind = "put" /\ Named(p) = {}
  <2>1. at \in 1..Len(handler.steps) /\ Current.kind \in kinds
    BY <1>5, CurrentStep DEF At
  <2>2. at = i
    BY <1>3, <1>5, <2>1 DEF Current
  <2>. QED
    BY <1>1, <1>4, <1>5, <2>1, <2>2 DEF IsStep, Current
<1>6. ASSUME NEW kinds, At(kinds), "ignored" \notin kinds
      PROVE  After(Current.effects)[s] = content[s]
  <2>1. CASE p \notin DOMAIN Current.effects
    BY <2>1 DEF After
  <2>2. CASE p \in DOMAIN Current.effects
    <3>1. Current.effects[p] = "merge" /\ Named(p) = {}
      BY <1>5, <1>6, <2>2
    <3>2. s \notin asked
      BY <3>1 DEF Named
    <3>. QED
      BY <2>2, <3>1, <3>2 DEF After, Value, IsGiven, Rest, Others, Composed
  <2>. QED
    BY <2>1, <2>2
<1>7. CASE Request
  BY <1>6, <1>7 DEF Request
<1>8. CASE Attempt
  BY <1>6, <1>8 DEF Attempt
<1>9. CASE Each
  <2>1. PICK d \in Due :
          \/ content' = content
          \/ content' = [content EXCEPT ![d] = IF Current.kind = "each" THEN wanted[d] ELSE None]
    BY <1>9 DEF Each
  <2>2. d[1] \in DOMAIN Current.effects
    BY DEF Due
  <2>3. p \notin DOMAIN Current.effects
    BY <1>5, <1>9 DEF Each, At
  <2>. QED
    BY <2>1, <2>2, <2>3 DEF TypeOK, Contents
<1>10. CASE ~Request /\ ~Attempt /\ ~Each
  BY <1>10 DEF Client, CheckArguments, FindResource, ReadRaw, Reread, RequirePresent, CountAbsent, Skip, Finish
<1>. QED
  BY <1>7, <1>8, <1>9, <1>10

LEMMA UnheededInvariance ==
  ASSUME TypeOK, Unheeded, [Next]_vars, Alone(handler)
  PROVE  Unheeded'
<1> SUFFICES ASSUME NEW s \in Places, s \notin touched', Neglected(s[1])'
             PROVE  content'[s] = before'[s]
  BY DEF Unheeded
<1>1. CASE Client
  <2>1. UNCHANGED fixedVars
    BY <1>1 DEF Client, CheckArguments, FindResource, ReadRaw, Reread, RequirePresent, CountAbsent, Request,
                Attempt, Each, Skip, Finish
  <2>2. Neglected(s[1]) /\ s \notin touched /\ before' = before
    BY <2>1 DEF fixedVars, commandVars, othersVars, Neglected, Named
  <2>. QED
    BY <1>1, <2>2, NeglectedIsNotSent DEF Unheeded
<1>2. CASE Repeat
  <2>1. Neglected(s[1]) /\ s \notin touched /\ before' = before /\ content' = content
    BY <1>2 DEF Repeat, commandVars, Neglected, Named
  <2>. QED
    BY <2>1 DEF Unheeded
<1>3. CASE Meddle
  <2>1. PICK d \in Places, v \in Values : content' = [content EXCEPT ![d] = v] /\ touched' = touched \cup {d}
    BY <1>3 DEF Meddle
  <2>2. Neglected(s[1]) /\ before' = before
    BY <1>3 DEF Meddle, commandVars, Neglected, Named
  <2>3. s \notin touched /\ content'[s] = content[s]
    BY <2>1 DEF TypeOK, Contents
  <2>. QED
    BY <2>2, <2>3 DEF Unheeded
<1>4. CASE UNCHANGED vars
  BY <1>4 DEF vars, fixedVars, commandVars, othersVars, Unheeded, Neglected, Named
<1>. QED
  BY <1>1, <1>2, <1>3, <1>4 DEF Next

\* Behind the last step, all is done.
LEMMA FinishIsAsAsked ==
  ASSUME TypeOK, Said, Between, Progress, Unheeded, Finish, report' = "ok", Thorough(handler),
         NEW s \in Places, s \notin touched, ~Misread(s)
  PROVE  content[s] = Target(s)
<1> DEFINE p == s[1]
<1>1. failures = 0 /\ Going /\ at - 1 = Len(handler.steps) /\ clear \subseteq handler.clears
  BY CurrentStep DEF Finish, Return, TypeOK, Going
<1>2. Given(s) /\ Emptied(s) /\ content[s] \in Allowed(s)
  BY <1>1 DEF Progress, Between
<1>n. CASE Neglected(p)
  BY <1>n DEF Unheeded, Target
<1>3. CASE ~Neglected(p) /\ s \in asked
  <2>1. PICK k \in 1..Len(handler.steps) : GivesAsked(handler, k, p)
    BY <1>3 DEF Said, Thorough, Omits, Neglected
  <2>. QED
    BY <1>1, <1>2, <1>3, <2>1 DEF Given, Target
<1>4. CASE ~Neglected(p) /\ s \notin asked /\ p \in clear
  <2>1. PICK k \in 1..Len(handler.steps) : DropsAll(handler, k, p)
    BY <1>1, <1>4 DEF Thorough
  <2>. QED
    BY <1>1, <1>2, <1>4, <2>1 DEF Emptied, Target
<1>5. CASE s \notin asked /\ p \notin clear
  BY <1>2, <1>5 DEF Allowed, Target
<1>. QED
  BY <1>n, <1>3, <1>4, <1>5

\* A request that succeeds at the first address is all that is asked.
LEMMA AttemptIsAsAsked ==
  ASSUME TypeOK, Said, Between, Attempt, report' = "ok", Thorough(handler),
         NEW s \in Places, s \notin touched, ~Misread(s)
  PROVE  content'[s] = Target(s)
<1> DEFINE p == s[1]
<1>1. /\ content' = After(Current.effects) /\ Current.kind = "attempt" /\ Current = handler.steps[at]
      /\ at \in 1..Len(handler.steps) /\ IsStep(Current) /\ clear \subseteq handler.clears
  BY CurrentStep DEF Attempt, Advance, At, Current, TypeOK
<1>2. p \in Parts
  BY DEF Places
<1>3. clear = {} /\ Nameable(handler) \subseteq DOMAIN Current.effects
  BY <1>1, <1>2 DEF Thorough, Alone
<1>4. p \in DOMAIN Current.effects => Current.effects[p] = "add"
  BY <1>1 DEF IsStep
<1>5. CASE s \in asked
  <2>1. p \in DOMAIN Current.effects
    BY <1>3, <1>5 DEF Said
  <2>2. content'[s] = wanted[s]
    BY <1>1, <1>4, <1>5, <2>1 DEF After, Value, IsGiven, Gives
  <2>3. ~Neglected(p)
    <3> SUFFICES ASSUME NEW i \in 1..Len(handler.steps), p \in DOMAIN handler.steps[i].effects,
                        handler.steps[i].kind = "ignored" \/ handler.steps[i].effects[p] = "merge"
                 PROVE  FALSE
      BY DEF Neglected
    <3>1. i # at
      BY <1>1, <1>4
    <3>2. p \notin DOMAIN handler.steps[at].effects
      BY <1>1, <1>2, <3>1 DEF Thorough, Alone, Omits
    <3>. QED
      BY <1>1, <2>1, <3>2
  <2>. QED
    BY <1>5, <2>2, <2>3 DEF Target
<1>6. CASE s \notin asked
  <2>1. content'[s] = content[s]
    BY <1>1, <1>4, <1>6 DEF After, Value, IsGiven, Rest, Others, Composed
  <2>2. content[s] = before[s]
    BY <1>3, <1>6 DEF Between, Allowed
  <2>. QED
    BY <1>3, <1>6, <2>1, <2>2 DEF Target
<1>. QED
  BY <1>5, <1>6

\* A command that reports success has done all that it was asked to do, and
\* nothing else, to every place that nobody else touched, and has changed
\* nothing of a part whose options it neglects: whatever failed before the
\* command was given again, and for every table of handlers with a step for
\* each of their options.
THEOREM SuccessIsAsAsked ==
  ASSUME \A h \in Commands : Keeps(h) /\ Thorough(h)
  PROVE  Spec => []AsAsked
<1> DEFINE Inv == InHand /\ Said /\ Progress /\ Unheeded /\ AsAsked
<1>1. Init => Inv
  <2> SUFFICES ASSUME Init PROVE Inv
    OBVIOUS
  <2>1. Said
    <3>1. \A s \in asked : s[1] \in Nameable(handler)
      BY DEF Init
    <3>. QED
      BY <3>1 DEF Init, Said
  <2>2. InHand /\ Unheeded /\ AsAsked
    BY DEF Init, InHand, Unheeded, AsAsked
  <2>3. Progress
    <3>1. at = 1 /\ done = {} /\ (1..at - 1) = {}
      BY DEF Init
    <3>. QED
      BY <3>1 DEF Progress, Given, Emptied, MidWay, Known
  <2>. QED
    BY <2>1, <2>2, <2>3
<1>2. TypeOK /\ Between /\ Inv /\ [Next]_vars => Inv'
  <2> SUFFICES ASSUME TypeOK, Between, Inv, [Next]_vars PROVE Inv'
    OBVIOUS
  <2>1. Keeps(handler) /\ Thorough(handler)
    BY DEF TypeOK
  <2>2. InHand' /\ Progress' /\ Unheeded'
    BY <2>1, InHandInvariance, ProgressInvariance, UnheededInvariance DEF Thorough
  <2>3. UNCHANGED commandVars
    BY <2>1 DEF Next, Client, CheckArguments, FindResource, ReadRaw, Reread, RequirePresent, CountAbsent,
                Request, Attempt, Each, Skip, Finish, Repeat, Meddle, vars, fixedVars
  <2>4. Said'
    BY <2>3 DEF Said, commandVars, Nameable
  <2>5. AsAsked'
    <3>0. \A p : Neglected(p)' = Neglected(p)
      BY <2>3 DEF commandVars, Neglected, Named
    <3>1. CASE Finish
      <4> SUFFICES ASSUME report' = "ok", NEW s \in Places, s \notin touched', ~Misread(s)'
                   PROVE  content'[s] = Target(s)'
        BY DEF AsAsked
      <4>1. UNCHANGED <<content, lost, touched, before, asked, wanted, clear>>
        BY <3>1 DEF Finish, fixedVars, othersVars, commandVars
      <4>2. content[s] = Target(s)
        BY <2>1, <3>1, <4>1, FinishIsAsAsked DEF Misread
      <4>. QED
        BY <4>1, <4>2, <3>0 DEF Target
    <3>2. CASE UNCHANGED vars
      BY <3>2 DEF vars, fixedVars, othersVars, commandVars, clientVars, AsAsked, Misread, Target, Neglected,
                  Named
    <3>4. CASE Attempt
      <4> SUFFICES ASSUME report' = "ok", NEW s \in Places, s \notin touched', ~Misread(s)'
                   PROVE  content'[s] = Target(s)'
        BY DEF AsAsked
      <4>1. UNCHANGED <<lost, touched, before, asked, wanted, clear>>
        BY <3>4 DEF Attempt, fixedVars, othersVars, commandVars
      <4>2. content'[s] = Target(s)
        BY <2>1, <3>4, <4>1, AttemptIsAsAsked DEF Misread
      <4>. QED
        BY <4>1, <4>2, <3>0 DEF Target
    <3>3. CASE ~Finish /\ ~Attempt /\ ~UNCHANGED vars
      <4>1. report' # "ok"
        BY <3>3 DEF Next, Client, CheckArguments, FindResource, ReadRaw, Reread, RequirePresent, CountAbsent,
                    Request, Each, Skip, Repeat, Meddle, At, Advance, Return, Fail, clientVars
      <4>. QED
        BY <4>1 DEF AsAsked
    <3>. QED
      BY <3>1, <3>2, <3>3, <3>4
  <2>. QED
    BY <2>2, <2>4, <2>5
<1>3. Spec => []Between
  <2>1. \A h \in Commands : Keeps(h)
    OBVIOUS
  <2>. QED
    BY <2>1, BetweenInvariance
<1>. QED
  BY <1>1, <1>2, <1>3, TypeCorrect, PTL DEF Spec
=============================================================================
