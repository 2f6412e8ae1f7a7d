---------------------------- MODULE ResourceEdit ----------------------------
(***************************************************************************)
(* One command that creates or changes a resource, step by step, while     *)
(* other users change the same resource.  No service of these guards what  *)
(* it holds: what a command writes of a part it has read takes the place   *)
(* of what others have written since.  A command that has failed may be    *)
(* given again.                                                            *)
(***************************************************************************)
EXTENDS EditSteps, FiniteSets, Integers

CONSTANTS
  Keys,         \* of every part: what it may have a value for
  Values,       \* the values, with None
  None,         \* no value
  Commands,     \* the handler records a run may execute
  MaxDisturbances \* bound on the changes by other users and the repetitions

ASSUME ValuesAssumption == None \in Values
ASSUME KeysAssumption == IsFiniteSet(Keys)
ASSUME CommandsAssumption == \A h \in Commands : IsHandler(h)
ASSUME BoundAssumption == MaxDisturbances \in Nat

Places == Parts \X Keys
Contents == [Places -> Values]
Nothing == [s \in Places |-> None]

VARIABLES
  content,   \* of every place: what the service has
  handler,   \* the command
  asked,     \* the places the command line names
  wanted,    \* of every place: the value it would be given
  clear,     \* the parts the command line wants to drop
  at,        \* the index of the step
  item,      \* the reading
  done,      \* the places dealt with, in a step of one request for each
  failures,  \* the failures counted
  report,    \* what the command returned
  before,    \* history: the content when the command was first given
  touched,   \* history: the places others changed since
  raced,     \* history: those they changed since they were last read
  lost,      \* history: whether a reading failed and the command went on
  disturbances  \* history: the changes by others and the repetitions so far

commandVars == <<handler, asked, wanted, clear>>
clientVars == <<at, item, done, failures, report>>
othersVars == <<touched, disturbances>>
fixedVars == <<commandVars, before, othersVars>>
vars == <<content, clientVars, raced, lost, fixedVars>>

TypeOK ==
  /\ {content, before, wanted, item} \subseteq Contents
  /\ handler \in Commands
  /\ UNION {asked, done, touched, raced} \subseteq Places
  /\ clear \subseteq handler.clears
  /\ at \in 1..(Len(handler.steps) + 1)
  /\ failures \in Nat
  /\ report \in {"running", "ok", "error", "count", "shown"}
  /\ lost \in BOOLEAN
  /\ disturbances \in 0..MaxDisturbances

-----------------------------------------------------------------------------
(* What the command line may say.                                          *)

Gives == {"add", "found", "edit", "whole", "merge", "diff", "rewrite"}

\* The parts with an option to name keys of.
Nameable(h) ==
  {p \in Parts : \E i \in 1..Len(h.steps) :
     p \in DOMAIN h.steps[i].effects /\ h.steps[i].effects[p] \in Gives}

\* Unset commands of the network service refuse --tag next to --all-tag.
Exclusive(h) == h.removes /\ h.steps # <<>> /\ h.steps[1].kind = "check"

IsCreate(h) == \E i \in 1..Len(h.steps) : h.steps[i].kind = "create"

\* --no-property and the like, or a key of the part.
Named(p) == {s \in asked : s[1] = p}
Concerned(p) == p \in clear \/ Named(p) # {}

\* A part is made of the reading and what the command line says of it.
Composed(effect, p) ==
  \/ effect \in {"whole", "diff"} /\ Concerned(p)
  \/ effect = "merge" /\ Named(p) # {}

\* The parts that are sent back as they were read.
SentWhole(p) ==
  \E i \in 1..Len(handler.steps) :
    /\ p \in DOMAIN handler.steps[i].effects
    /\ Composed(handler.steps[i].effects[p], p) \/ handler.steps[i].effects[p] = "rewrite"

\* The options that are accepted and not acted on: of a step that ignores them,
\* and the one that drops a part, where the request leaves an empty map out.
Neglected(p) ==
  \E i \in 1..Len(handler.steps) :
    /\ p \in DOMAIN handler.steps[i].effects
    /\ \/ handler.steps[i].kind = "ignored"
       \/ handler.steps[i].effects[p] = "merge" /\ Named(p) = {}

-----------------------------------------------------------------------------
(* What a request writes.                                                  *)

Read(s) == item[s] # None

\* What becomes of a place the command line does not name.
Others(effect, s) ==
  CASE effect = "wipe" /\ s[1] \in clear -> None
    [] effect \in {"edit", "forget"} /\ s[1] \in clear /\ Read(s) -> None
    [] Composed(effect, s[1]) -> IF s[1] \in clear THEN None ELSE item[s]
    [] effect = "rewrite" -> item[s]
    [] OTHER -> content[s]

\* Mutants: a list is sent without what was read; a named key is sent with all
\* that was read.
MutantUnmerged(effect, s) ==
  IF effect = "whole" /\ Concerned(s[1]) THEN None ELSE Others(effect, s)
MutantWhole(effect, s) == IF effect = "add" THEN item[s] ELSE Others(effect, s)

Rest(effect, s) == Others(effect, s)

\* A named key is sent, with its new value or without one.
IsGiven(effect, s) ==
  s \in asked /\ effect \in Gives /\ (effect = "found" => Read(s))

Value(effect, s) == IF IsGiven(effect, s) THEN wanted[s] ELSE Rest(effect, s)

After(effects) ==
  [s \in Places |-> IF s[1] \in DOMAIN effects THEN Value(effects[s[1]], s) ELSE content[s]]

\* Mutant: without additions there is nothing to do.
MutantAdditions(effect, p) == Named(p) # {}

\* Whether there is anything to send of a part.
Matters(effect, p) ==
  LET dropped == {s \in Places : s[1] = p /\ p \in clear /\ Read(s)} IN
  CASE effect \in {"add", "rewrite"} -> Named(p) # {}
    [] effect = "found" -> \E s \in Named(p) : Read(s)
    [] effect = "edit" -> Named(p) # {} \/ dropped # {}
    [] effect = "forget" -> dropped # {}
    [] effect = "wipe" -> p \in clear
    [] effect \in {"whole", "merge"} -> Concerned(p)
    [] effect = "diff" -> Concerned(p) /\ \E s \in Places : s[1] = p /\ Value(effect, s) # item[s]

Sends(step) ==
  \/ step.kind \in {"always", "create"}
  \/ \E p \in DOMAIN step.effects : Matters(step.effects[p], p)

-----------------------------------------------------------------------------
(* The client.  One action is one step, or one request of it.              *)

Current == handler.steps[at]
At(kinds) == report = "running" /\ at <= Len(handler.steps) /\ Current.kind \in kinds

Return(result) == report' = result /\ UNCHANGED <<at, failures>> /\ done' = {}
Advance == at' = at + 1 /\ done' = {} /\ UNCHANGED <<failures, report>>

\* Mutants: counted backwards; not counted.
MutantBackwards(n) == failures - n
MutantUncounted(n) == failures

Plus(n) == failures + n

Fail ==
  \/ Current.on \in {"stop", "show"} /\ Return("error")
  \/ Current.on = "show" /\ Return("shown")
  \/ Current.on = "count" /\ failures' = Plus(1) /\ at' = at + 1 /\ done' = {} /\ UNCHANGED report

\* The whole of a resource is read, or some parts.
Reads(parts, from) ==
  /\ item' = [s \in Places |-> IF s[1] \in parts THEN from[s] ELSE item[s]]
  /\ raced' = {s \in raced : s[1] \notin parts}

NoReading == UNCHANGED <<item, raced>>

CheckArguments ==
  /\ At({"check"})
  /\ Advance \/ Return("error")
  /\ NoReading
  /\ UNCHANGED <<content, lost, fixedVars>>

FindResource ==
  /\ At({"find"})
  /\ \/ Reads(Parts, content) /\ Advance
     \/ NoReading /\ Return("error")
  /\ UNCHANGED <<content, lost, fixedVars>>

\* The second reading of a port: a failure is taken for an empty answer.
ReadRaw ==
  /\ At({"raw"})
  /\ \/ Reads(DOMAIN Current.effects, content) /\ UNCHANGED lost
     \/ Reads(DOMAIN Current.effects, Nothing) /\ lost' = TRUE
  /\ Advance
  /\ UNCHANGED <<content, fixedVars>>

Dropped == DOMAIN Current.effects \cap clear

Reread ==
  /\ At({"reread"}) /\ Dropped # {}
  /\ \/ Reads(Dropped, content) /\ Advance
     \/ Reads(Dropped, Nothing) /\ Fail
  /\ UNCHANGED <<content, lost, fixedVars>>

\* What is to be removed must be in the reading.
Unread == {s \in asked : s[1] \in DOMAIN Current.effects /\ ~Read(s)}

RequirePresent ==
  /\ At({"present"})
  /\ IF Unread = {} THEN Advance ELSE Return("error")
  /\ NoReading
  /\ UNCHANGED <<content, lost, fixedVars>>

CountAbsent ==
  /\ At({"absent"})
  /\ failures' = Plus(Cardinality(Unread)) /\ at' = at + 1 /\ done' = {} /\ UNCHANGED report
  /\ NoReading
  /\ UNCHANGED <<content, lost, fixedVars>>

\* One request.  A failure tells nothing of whether it was carried out.
Request ==
  /\ At({"put", "always", "create", "putAnswered"}) /\ Sends(Current)
  /\ \/ /\ content' = After(Current.effects)
        /\ IF Current.kind \in {"create", "putAnswered"} THEN Reads(Parts, content') ELSE NoReading
        /\ Advance
     \/ /\ content' \in {content, After(Current.effects)}
        /\ NoReading
        /\ Fail
  /\ UNCHANGED <<lost, fixedVars>>

\* The same request is sent to a second address if it fails at the first one,
\* for whatever reason; the command is over when it succeeds there.
Attempt ==
  /\ At({"attempt"})
  /\ \/ content' = After(Current.effects) /\ Return("ok")
     \/ content' \in {content, After(Current.effects)} /\ Advance
  /\ NoReading
  /\ UNCHANGED <<lost, fixedVars>>

\* One request for every named key, or for every key that was read of a part
\* that is to be dropped.
Due ==
  {s \in Places \ done :
     /\ s[1] \in DOMAIN Current.effects
     /\ IF Current.kind = "each" THEN s \in asked ELSE s[1] \in clear /\ Read(s)}

Each ==
  /\ At({"each", "eachRead"})
  /\ \E s \in Due :
       LET updated == [content EXCEPT ![s] = IF Current.kind = "each" THEN wanted[s] ELSE None] IN
       \/ /\ content' = updated
          /\ done' = done \cup {s} /\ UNCHANGED <<at, failures, report>>
       \/ /\ content' \in {content, updated}
          /\ IF Current.on = "stop" THEN Return("error")
             ELSE failures' = Plus(1) /\ done' = done \cup {s} /\ UNCHANGED <<at, report>>
  /\ NoReading
  /\ UNCHANGED <<lost, fixedVars>>

\* The command line does not concern the step, all of it is done, or the step
\* does nothing.
Skip ==
  /\ \/ At({"put", "putAnswered"}) /\ ~Sends(Current)
     \/ At({"reread"}) /\ Dropped = {}
     \/ At({"each", "eachRead"}) /\ Due = {}
     \/ At({"ignored"})
  /\ Advance
  /\ NoReading
  /\ UNCHANGED <<content, lost, fixedVars>>

Finish ==
  /\ report = "running" /\ at = Len(handler.steps) + 1
  /\ Return(IF failures > 0 THEN "count" ELSE "ok")
  /\ NoReading
  /\ UNCHANGED <<content, lost, fixedVars>>

Client ==
  \/ CheckArguments \/ FindResource \/ ReadRaw \/ Reread \/ RequirePresent \/ CountAbsent
  \/ Request \/ Attempt \/ Each \/ Skip \/ Finish

-----------------------------------------------------------------------------
(* The users.                                                              *)

\* The same command once more.
Repeat ==
  /\ report \in {"error", "count"} /\ ~IsCreate(handler) /\ disturbances < MaxDisturbances
  /\ disturbances' = disturbances + 1
  /\ at' = 1 /\ failures' = 0 /\ report' = "running" /\ done' = {}
  /\ UNCHANGED <<content, item, raced, lost, commandVars, before, touched>>

\* Another user changes a part the command line concerns or the handler sends
\* back anyway, of a resource that exists.
Meddle ==
  /\ report = "running" /\ disturbances < MaxDisturbances
  /\ \A i \in at..Len(handler.steps) : handler.steps[i].kind # "create"
  /\ \E s \in Places, v \in Values :
       /\ Concerned(s[1]) \/ SentWhole(s[1])
       /\ content' = [content EXCEPT ![s] = v]
       /\ touched' = touched \cup {s}
       /\ raced' = raced \cup {s}
  /\ disturbances' = disturbances + 1
  /\ UNCHANGED <<clientVars, lost, commandVars, before>>

Init ==
  /\ handler \in Commands
  /\ asked \in SUBSET (Nameable(handler) \X Keys)
  /\ clear \in SUBSET handler.clears
  /\ Exclusive(handler) => \A s \in asked : s[1] \notin clear
  /\ wanted \in [Places -> IF handler.removes THEN {None} ELSE Values \ {None}]
  /\ content \in IF IsCreate(handler) THEN {Nothing} ELSE Contents
  /\ before = content
  /\ item = content
  /\ at = 1
  /\ done = {}
  /\ failures = 0
  /\ report = "running"
  /\ touched = {}
  /\ raced = {}
  /\ lost = FALSE
  /\ disturbances = 0

Next == Client \/ Repeat \/ Meddle

Spec == Init /\ [][Next]_vars

-----------------------------------------------------------------------------
(* Properties.                                                             *)

\* The parts of which a failed reading has been taken for an empty one.
Misread(s) == lost /\ s[1] = "profile"

\* At any moment, also after failures, lost answers and repetitions, a place
\* that nobody else touched holds what it held before the command or what the
\* command line asks for: nothing is half of each or made up.
Allowed(s) ==
  {before[s]} \cup {v \in {wanted[s]} : s \in asked} \cup {v \in {None} : s[1] \in clear}

OldOrAsked == \A s \in Places \ touched : Misread(s) \/ content[s] \in Allowed(s)

\* Success means that every place nobody else touched is as asked, and what
\* was not asked is as before; and of a part whose options are neglected
\* nothing is changed.
Target(s) ==
  IF Neglected(s[1]) THEN before[s]
  ELSE IF s \in asked THEN wanted[s] ELSE IF s[1] \in clear THEN None ELSE before[s]

AsAsked == report = "ok" => \A s \in Places \ touched : Misread(s) \/ content[s] = Target(s)

\* The command changes only what it is asked to change; the one way in which it
\* may undo what others did is to write a part as it was when it was read, and
\* then only what they did after that.
UndoesOnlyRaces ==
  [][ clientVars' # clientVars =>
        \A s \in Places :
          \/ content'[s] = content[s]
          \/ s \in asked /\ content'[s] = wanted[s]
          \/ s[1] \in clear /\ content'[s] = None
          \/ Misread(s)
          \/ s \in raced /\ content'[s] = item[s] /\ SentWhole(s[1]) ]_vars

\* What is not named on the command line stays.
KeepsTheRest ==
  \A s \in Places \ (touched \cup asked) : s[1] \in clear \/ content[s] = before[s]

-----------------------------------------------------------------------------
(* What a command must be for its success to mean that all was done.       *)

Writing == {"put", "always", "create", "putAnswered"}
Writes(step, p) ==
  p \in DOMAIN step.effects /\ step.kind \in Writing \cup {"attempt", "each", "eachRead"}

\* With c, the command line wants to drop the part.
ReadsPart(step, p, c) ==
  \/ step.kind \in {"find", "create"}
  \/ p \in DOMAIN step.effects /\ (step.kind = "raw" \/ (c /\ step.kind = "reread"))

\* The reading of part p at step k is not older than what was last written.
ReadBefore(h, k, p, c) ==
  \E r \in 1..k - 1 :
    /\ ReadsPart(h.steps[r], p, c)
    /\ \A m \in r + 1..k - 1 : ~Writes(h.steps[m], p)

Does(step, p, effects) ==
  p \in DOMAIN step.effects /\ step.kind \in Writing /\ step.effects[p] \in effects
EachOf(step, p, kind) == p \in DOMAIN step.effects /\ step.kind = kind

Drops(step, p) == EachOf(step, p, "eachRead") \/ Does(step, p, {"wipe", "forget"})

\* Step k gives the named keys of p what is asked, and none behind it drops it.
GivesAsked(h, k, p) ==
  /\ \/ EachOf(h.steps[k], p, "each")
     \/ Does(h.steps[k], p, {"add", "edit", "whole", "merge", "rewrite"})
     \/ ReadBefore(h, k, p, FALSE) /\ Does(h.steps[k], p, {"diff"})
     \/ ReadBefore(h, k, p, FALSE) /\ h.removes /\ Does(h.steps[k], p, {"found"})
  /\ p \in h.clears => \A m \in k + 1..Len(h.steps) : ~Drops(h.steps[m], p)

\* Step k drops all that p has and the command line does not name.
DropsAll(h, k, p) ==
  \/ Does(h.steps[k], p, {"wipe", "whole", "merge"})
  \/ ReadBefore(h, k, p, TRUE) /\ EachOf(h.steps[k], p, "eachRead")
  \/ ReadBefore(h, k, p, TRUE) /\ Does(h.steps[k], p, {"diff", "edit", "forget"})

\* Step k may send nothing of p though the command line says something of it.
Omits(h, k, p) ==
  p \in DOMAIN h.steps[k].effects /\ (h.steps[k].kind = "ignored" \/ h.steps[k].effects[p] = "merge")

\* What one step may omit no other step sends, and what is tried at two
\* addresses is all that is asked.
Alone(h) ==
  \A k \in 1..Len(h.steps), p \in Parts :
    /\ Omits(h, k, p) => \A m \in (1..Len(h.steps)) \ {k} : p \notin DOMAIN h.steps[m].effects
    /\ h.steps[k].kind = "attempt" => h.clears = {} /\ Nameable(h) \subseteq DOMAIN h.steps[k].effects

Thorough(h) ==
  /\ Alone(h)
  /\ \A p \in Nameable(h) : \E k \in 1..Len(h.steps) :
       GivesAsked(h, k, p) \/ (h.steps[k].kind = "ignored" /\ Omits(h, k, p))
  /\ \A p \in h.clears : \E k \in 1..Len(h.steps) : DropsAll(h, k, p)
=============================================================================
