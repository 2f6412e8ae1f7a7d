------------------------------ MODULE Placement ------------------------------
(***************************************************************************)
(* One run of a command that updates providers or a consumer of the        *)
(* placement service, request by request, while other users update them    *)
(* too.  Every target has a generation; the service increases it with      *)
(* every update, and refuses an update sent with another generation than   *)
(* the one it has.                                                         *)
(***************************************************************************)
EXTENDS PlacementHandlers, FiniteSets

CONSTANTS
  Targets,      \* resource providers, or consumers
  Keys,         \* what the updated part of a target has amounts of
  MaxAmount,    \* bound on the amounts
  Handlers,     \* the handler records a run may execute
  Forgets,      \* whether others may take all that a consumer has
  MaxFaulted,   \* bound on the targets one of whose requests fails
  MaxMeddled    \* bound on the updates by other users

ASSUME HandlersAssumption ==
  Handlers \subseteq HandlerRecords /\ \A h \in Handlers : h.many => h.version = "read" /\ h.of = "provider"
ASSUME TargetsAssumption == IsFiniteSet(Targets) /\ Targets # {}
ASSUME BoundsAssumption == {MaxAmount, MaxFaulted, MaxMeddled} \subseteq Nat /\ Forgets \in BOOLEAN

Contents == [Keys -> 0..MaxAmount]
Empty == [key \in Keys |-> 0]

VARIABLES
  content,    \* of every target: the amounts
  version,    \* of every target: the generation; zero when there is none
  cmd,        \* the handler
  change,     \* what the command line says
  pc,         \* the next request
  targets,    \* what the command works on
  left,       \* those it has not turned to
  current,    \* the one it works on
  seen,       \* of every target: the generation that will be sent
  base,       \* the content that was read
  failures,   \* the handler's counter
  report,     \* what the command returned
  done,       \* history: the targets that were updated
  disturbed,  \* history: those others updated since their generation was read
  reborn,     \* history: those of them that had nothing left in between
  faulted,    \* history: the targets one of whose requests failed
  meddled     \* history: the number of updates by others

cloudVars == <<content, version>>
clientVars == <<cmd, change, pc, targets, left, current, seen, base, failures, report>>
historyVars == <<done, disturbed, reborn, faulted, meddled>>
vars == <<cloudVars, clientVars, historyVars>>

TypeOK ==
  /\ content \in [Targets -> Contents]
  /\ version \in [Targets -> Nat]
  /\ cmd \in Handlers
  /\ change \in Contents
  /\ pc \in {"version", "content", "write", "reread", "end", "done"}
  /\ targets \subseteq Targets
  /\ left \subseteq targets
  /\ current \in Targets
  /\ seen \in [Targets -> Nat]
  /\ base \in Contents
  /\ failures \in Nat
  /\ report \in {"running", "ok", "error", "count"}
  /\ done \subseteq Targets
  /\ reborn \subseteq Targets
  /\ disturbed \subseteq Targets
  /\ faulted \subseteq Targets
  /\ meddled \in 0..MaxMeddled

-----------------------------------------------------------------------------
(* The service.                                                            *)

\* A consumer that has nothing left is forgotten, with its generation.
Bumped(t, new) == IF cmd.of = "consumer" /\ new = Empty THEN 0 ELSE version[t] + 1

Store(t, new) ==
  /\ content' = [content EXCEPT ![t] = new]
  /\ version' = [version EXCEPT ![t] = Bumped(t, new)]

\* Another user updates a target, or another part of it.
Meddle(t) ==
  /\ pc # "done" /\ meddled < MaxMeddled
  /\ \E new \in Contents :
       /\ cmd.of = "consumer" /\ new = Empty => Forgets /\ content[t] # Empty
       /\ Store(t, new)
       /\ reborn' = IF cmd.of = "consumer" /\ new = Empty THEN reborn \cup {t} ELSE reborn
  /\ disturbed' = disturbed \cup {t}
  /\ meddled' = meddled + 1
  /\ UNCHANGED <<clientVars, done, faulted>>

-----------------------------------------------------------------------------
Fault ==
  /\ current \in faulted \/ Cardinality(faulted) < MaxFaulted
  /\ faulted' = faulted \cup {current}

NoFault == UNCHANGED faulted

Return(result) ==
  report' = result /\ pc' = "done" /\ UNCHANGED <<targets, left, current, seen, base, failures>>

\* The next of the targets, in the order of the listing, or the end of the loop.
Turn(rest) ==
  \/ /\ rest = {} /\ pc' = "end" /\ left' = {} /\ UNCHANGED current
  \/ \E t \in rest :
       /\ current' = t
       /\ left' = rest \ {t}
       /\ pc' = IF cmd.reads THEN "content" ELSE "write"

\* The generation of t is read: from now on an update by others is noticed.
Reads(ts) ==
  /\ seen' = [t \in Targets |-> IF t \in ts THEN version[t] ELSE seen[t]]
  /\ disturbed' = disturbed \ ts
  /\ reborn' = reborn \ ts

\* One provider, or one consumer, or all providers of an aggregate, which must
\* have some.
ReadVersion ==
  /\ pc = "version"
  /\ \/ \E ts \in (IF cmd.many THEN SUBSET Targets \ {{}} ELSE {targets}) :
          /\ targets' = ts
          /\ Reads(ts)
          /\ Turn(ts)
          /\ UNCHANGED <<base, failures, report>>
     \/ Return("error") /\ UNCHANGED <<disturbed, reborn>>
  /\ UNCHANGED <<cloudVars, cmd, change, done, faulted, meddled>>

ReadContent ==
  /\ pc = "content"
  /\ \/ /\ NoFault
        /\ base' = content[current]
        /\ pc' = "write"
        /\ IF cmd.version = "content" THEN Reads({current}) ELSE UNCHANGED <<seen, disturbed, reborn>>
        /\ UNCHANGED <<targets, left, current, failures, report>>
     \/ Fault /\ Return("error") /\ UNCHANGED <<disturbed, reborn>>
  /\ UNCHANGED <<cloudVars, cmd, change, done, meddled>>

\* What is written.  Where the handler has not read the content, the service
\* applies the edit to what it has.
Payload == Applied(cmd.edit, change, IF cmd.reads THEN base ELSE content[current])

\* Mutant: the generation is read anew for the write.
MutantSentLate(t) == version[t]

Sent(t) == seen[t]

\* The service refuses to take allocations from a consumer that has none.
Accepted ==
  /\ Guarded(cmd) => Sent(current) = version[current]
  /\ cmd.of = "consumer" /\ cmd.edit # "replace" =>
       IF Guarded(cmd) THEN seen[current] # 0 ELSE content[current] # Empty \/ Payload # Empty

\* Mutants: counted backwards; not counted.
MutantBackwards == failures - 1
MutantUncounted == failures

CountFailure == failures + 1

\* Mutant: the first failure ends the loop.
MutantBreaks ==
  IF cmd.many
  THEN failures' = CountFailure /\ Turn({}) /\ UNCHANGED <<targets, seen, base, report>>
  ELSE Return("error")

\* With an aggregate, a provider that could not be written is counted.
Failed ==
  IF cmd.many
  THEN failures' = CountFailure /\ Turn(left) /\ UNCHANGED <<targets, seen, base, report>>
  ELSE Return("error")

\* Allocations are read again to be shown.
Succeeded ==
  /\ IF cmd.reread THEN pc' = "reread" /\ UNCHANGED <<left, current>> ELSE Turn(left)
  /\ UNCHANGED <<targets, seen, base, failures, report>>

Write ==
  /\ pc = "write" /\ ~cmd.dry
  /\ \/ /\ Accepted
        /\ Store(current, Payload)
        /\ done' = done \cup {current}
        /\ (NoFault /\ Succeeded) \/ (Fault /\ Failed)
     \/ /\ Fault \/ (NoFault /\ ~Accepted)
        /\ Failed
        /\ UNCHANGED <<cloudVars, done>>
  /\ UNCHANGED <<cmd, change, disturbed, reborn, meddled>>

\* --dry-run shows the payload.
Skip ==
  /\ pc = "write" /\ cmd.dry
  /\ Turn(left)
  /\ UNCHANGED <<cloudVars, cmd, change, targets, seen, base, failures, report, historyVars>>

Reread ==
  /\ pc = "reread"
  /\ \/ NoFault /\ Turn(left) /\ UNCHANGED <<targets, seen, base, failures, report>>
     \/ Fault /\ Return("error")
  /\ UNCHANGED <<cloudVars, cmd, change, done, disturbed, reborn, meddled>>

End ==
  /\ pc = "end"
  /\ Return(IF failures > 0 THEN "count" ELSE "ok")
  /\ UNCHANGED <<cloudVars, cmd, change, historyVars>>

-----------------------------------------------------------------------------
\* What the argument checks let through: one class, at least one allocation.
ChangesOf(handler) ==
  {c \in Contents :
     /\ handler.edit = "remove" \/ (handler.of = "consumer" /\ handler.edit = "replace") => c # Empty
     /\ handler.edit = "override" /\ ~handler.reads => Cardinality({key \in Keys : c[key] # 0}) = 1
     /\ handler.edit = "clear" => c = Empty}

Init ==
  /\ cmd \in Handlers
  /\ change \in ChangesOf(cmd)
  /\ content \in [Targets -> Contents]
  /\ version = [t \in Targets |-> IF cmd.of = "consumer" /\ content[t] = Empty THEN 0 ELSE 1]
  /\ current \in Targets
  /\ targets = IF cmd.many THEN {} ELSE {current}
  /\ left = {}
  /\ pc = IF cmd.version = "read" THEN "version" ELSE IF cmd.reads THEN "content" ELSE "write"
  /\ seen \in [Targets -> IF cmd.version = "user" THEN {0, 1} ELSE {0}]
  /\ \A t \in Targets : seen[t] <= version[t]
  /\ base = Empty
  /\ failures = 0
  /\ report = "running"
  /\ done = {}
  /\ disturbed = {t \in Targets : seen[t] # version[t]}
  /\ reborn = {}
  /\ faulted = {}
  /\ meddled = 0

Client == ReadVersion \/ ReadContent \/ Write \/ Skip \/ Reread \/ End

Next == Client \/ \E t \in Targets : Meddle(t)

Spec == Init /\ [][Next]_vars

-----------------------------------------------------------------------------
(* Properties.                                                             *)

\* Where the write is guarded by a generation, a target is updated only if
\* nobody has updated it since that generation was read, be it for the listing
\* of an aggregate and with other providers written in between.  (A consumer
\* that was forgotten and has come back may have the generation it had.)
OnlyWhatWasSeen ==
  [][\A t \in done' \ done : Guarded(cmd) => t \notin disturbed \/ t \in reborn]_vars

\* With an aggregate, a provider is left out only if others updated it after
\* the listing or its own request failed, never because of another provider.
FailsForAReason == report = "count" => targets \ done \subseteq disturbed \cup faulted

\* The command keeps the promise of AtomicUpdate: a command that reads,
\* edits and writes behaves as if it did so at once.
Atomic == INSTANCE AtomicUpdate
  WITH handler <- cmd,
       verdict <- [kind |-> report, failures |-> IF report = "count" THEN failures ELSE 0]

KeepsContract == Atomic!Spec
=============================================================================
