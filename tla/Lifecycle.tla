------------------------------- MODULE Lifecycle -------------------------------
(***************************************************************************)
(* A run of the lifecycle smoke test (tools/lifecycle-smoke).  A suite     *)
(* works off its steps against a live cloud with the CLI, and next to it   *)
(* with the Python client (the oracle), on disposable resources.  For each *)
(* resource it keeps a cleanup on a stack; when a step that must work      *)
(* fails, and at the end, cleanupAll runs what is on the stack from the    *)
(* top, and the report says whether a cleanup is still required.           *)
(***************************************************************************)
EXTENDS Integers, Sequences, FiniteSets, SequencesExt

CONSTANTS
  Suites,     \* the names of the suites
  Program,    \* Program[s]: the steps of suite s (see LifecycleSuites)
  Resource,   \* the names of the disposable resources
  Strict,     \* Strict[s]: the resources whose cleanup must not fail at all
  Confirms,   \* the suites that look before they report a failed cleanup
  Slow,       \* the resources a cloud still deletes when it has answered
  Faults,     \* what may go wrong: a subset of FaultKind
  MaxFaults   \* bound: the number of things that go wrong in a run

FaultKind == {"refused", "lost", "blank", "differ", "misread", "stuck", "late"}
Act == {"use", "make", "delete", "gone", "keep", "drop", "need", "given"}
Miss == {"next", "quit", "sweep", "stop"}
Answer == {"ok", "blank", "refused", "lost", "absent"}

IsStep(s) ==
  /\ s.act \in Act
  /\ s.on \in Seq(Resource)
  /\ s.by \in {"cli", "pair", "same", "twin", "api"}
  /\ s.miss \in Miss /\ s.differ \in Miss /\ s.blank \in Miss \cup {"kept", "lost"}
  /\ s.keeps \in BOOLEAN /\ s.gone \in BOOLEAN /\ (s.gone => s.act = "delete")
  /\ s.uses \subseteq Resource
  /\ s.act \in {"make", "delete", "gone", "keep", "drop", "need"} => Len(s.on) >= 1
  /\ s.act \in {"make", "delete"} /\ s.by = "pair" => Len(s.on) = 2
  /\ s.act \in {"make", "delete"} /\ s.by # "pair" => Len(s.on) = 1
  /\ s.by = "same" => s.act = "use"

ASSUME ProgramAssumption ==
  /\ Suites \subseteq DOMAIN Program
  /\ \A u \in Suites : /\ DOMAIN Program[u] = 1 .. Len(Program[u])
                       /\ Len(Program[u]) \in Nat
                       /\ \A k \in DOMAIN Program[u] : IsStep(Program[u][k])

(* A suite registers a resource once, and drops no cleanup that it still has *)
(* to register.                                                             *)
Elements(s) == {s[i] : i \in DOMAIN s}
Keeping(s) == s.act = "keep" \/ (s.act = "make" /\ s.keeps)
RegistersOnce(program) ==
  \A k \in DOMAIN program : Keeping(program[k]) =>
    /\ \A m, n \in DOMAIN program[k].on : program[k].on[m] = program[k].on[n] => m = n
    /\ \A j \in 1 .. k - 1 :
         /\ Keeping(program[j]) => Elements(program[j].on) \cap Elements(program[k].on) = {}
         /\ program[j].act = "drop" => program[j].on[1] \notin Elements(program[k].on)

(* What a suite makes from what.                                           *)
StepsOf == UNION {{<<u, s>> : s \in Elements(Program[u])} : u \in Suites}
MadeFrom == {m \in UNION {{<<t[1], r, x>> : r \in Elements(t[2].on), x \in t[2].uses} :
                              t \in StepsOf} : TRUE}
(* Nothing is registered behind what was made from it.                     *)
RegistersInOrder(u) ==
  \A k \in DOMAIN Program[u] : Keeping(Program[u][k]) =>
    LET on == Program[u][k].on
    IN  /\ \A m, n \in DOMAIN on : m < n => <<u, on[m], on[n]>> \notin MadeFrom
        /\ \A j \in 1 .. k - 1 : Keeping(Program[u][j]) =>
             \A a \in Elements(Program[u][j].on), b \in Elements(on) : <<u, a, b>> \notin MadeFrom
RegisterOnce == \A u \in Suites : RegistersOnce(Program[u])
RegisterInOrder == \A u \in Suites : RegistersInOrder(u)

ASSUME RegisterAssumption == RegisterOnce /\ RegisterInOrder

(* What is deleted if the suite goes on to the step behind s.               *)
Deletes(s) ==
  IF s.act = "gone" \/ (s.act = "delete" /\ s.by # "pair" /\ s.miss # "next") THEN {s.on[1]}
  ELSE IF s.act = "delete" /\ ~s.gone /\ "next" \notin {s.miss, s.differ} THEN Elements(s.on)
  ELSE {}

(* Step k is not reached but through step j: a block that has j in it has   *)
(* all that follows up to k, and j itself is left for what is behind k.     *)
Only(program, j, k) ==
  /\ \A l \in j .. k : program[j].within \subseteq program[l].within
  /\ "quit" \in {program[j].miss, program[j].differ} => program[j].quits \in program[j].within

(* Deletion j is what lets step k drop a cleanup: nothing makes the resource *)
(* again.                                                                   *)
Clears(program, j, k) ==
  /\ program[k].act = "drop" /\ program[k].on[1] \in Deletes(program[j])
  /\ Only(program, j, k)
  /\ \A l \in j + 1 .. Len(program) :
       program[l].act = "make" => program[k].on[1] \notin Elements(program[l].on)

(* A suite drops the cleanup of what it has deleted, and of nothing else.   *)
DropDeleted ==
  \A u \in Suites : \A k \in DOMAIN Program[u] :
    Program[u][k].act = "drop" => \E j \in 1 .. k - 1 : Clears(Program[u], j, k)

ASSUME DropAssumption == DropDeleted

ASSUME FaultsAssumption ==
  /\ Faults \subseteq FaultKind
  /\ MaxFaults \in Nat

VARIABLES
  suite,     \* the suite that runs
  pc,        \* its next step
  phase,     \* "steps", "sweep" (cleanupAll) or "ended"
  outcome,   \* what the suite returns: "passed", "failed", "stopped" (an
             \* error without a cleanupAll)
  cloud,     \* cloud[r]: "none", "live", "dying" or "gone"
  known,     \* the resources a create reported
  cleanups,  \* the stack
  required,  \* CleanupRequired of the report
  failures,  \* whether a cleanup of this cleanupAll has failed
  faults,    \* what went wrong so far
  kept,      \* history: the resources registered for cleanup
  settled,   \* history: those dropped from the stack again
  tried,     \* history: the cleanups that were run, in order
  misread,   \* history: resources whose failed deletion read like "not found"
  stuck      \* history: resources the cloud failed to delete after all

vars == <<suite, pc, phase, outcome, cloud, known, cleanups, required, failures,
          faults, kept, settled, tried, misread, stuck>>

Script == Program[suite]
At == Script[pc]

TypeOK ==
  /\ suite \in Suites
  /\ pc \in 1 .. Len(Script) + 1
  /\ phase \in {"steps", "sweep", "ended"}
  /\ outcome \in {"passed", "failed", "stopped"}
  /\ cloud \in [Resource -> {"none", "live", "dying", "gone"}]
  /\ known \subseteq Resource
  /\ cleanups \in Seq(Resource)
  /\ required \in BOOLEAN
  /\ failures \in BOOLEAN
  /\ faults \in 0 .. MaxFaults
  /\ kept \subseteq Resource /\ settled \subseteq Resource
  /\ tried \in Seq(Resource)
  /\ misread \subseteq Resource /\ stuck \subseteq Resource

Init ==
  /\ suite \in Suites
  /\ pc = 1
  /\ phase = "steps"
  /\ outcome = "passed"
  /\ cloud = [r \in Resource |-> "none"]
  /\ known = {}
  /\ cleanups = <<>>
  /\ required = FALSE
  /\ failures = FALSE
  /\ faults = 0
  /\ kept = {} /\ settled = {} /\ tried = <<>> /\ misread = {} /\ stuck = {}

(***************************************************************************)
(* The control of a suite.                                                 *)
(***************************************************************************)
(* The first step behind pc that is not in block b.                        *)
Inside(b, k) == k <= Len(Script) /\ b \in Script[k].within
\* Mutant: the first step outside is left out too.
MutantLeaveTooFar(b) ==
  1 + CHOOSE k \in pc + 1 .. Len(Script) + 1 :
        ~Inside(b, k) /\ \A j \in pc + 1 .. k - 1 : Inside(b, j)
Leave(b) == CHOOSE k \in pc + 1 .. Len(Script) + 1 :
              ~Inside(b, k) /\ \A j \in pc + 1 .. k - 1 : Inside(b, j)

(* must*, optional*: on, out of the block, or out of the suite by way of   *)
(* cleanupAll and the panic that runXLifecycle recovers.                   *)
Proceed(v) ==
  /\ pc' = IF v = "next" THEN pc + 1 ELSE IF v = "quit" THEN Leave(At.quits) ELSE pc
  /\ phase' = IF v = "sweep" THEN "sweep" ELSE IF v = "stop" THEN "ended" ELSE phase
  /\ outcome' = IF v = "sweep" THEN "failed" ELSE IF v = "stop" THEN "stopped" ELSE outcome

Blame(n) ==
  /\ faults + n <= MaxFaults
  /\ faults' = faults + n

Count(b) == IF b THEN 1 ELSE 0

(***************************************************************************)
(* A command and its answer.  A create or a deletion can work although its *)
(* answer is lost; a create can answer without an id; what is not there    *)
(* cannot be deleted.                                                      *)
(***************************************************************************)
Exit0(a) == a \in {"ok", "blank"}

Answers(act, r, c) ==
  (IF act = "make" THEN {"ok", "blank", "refused", "lost"}
   ELSE IF act # "delete" THEN {"ok", "refused"}
   ELSE IF c[r] = "live" THEN {"ok", "refused", "lost"}
   ELSE IF c[r] = "dying" THEN {"ok", "absent", "refused"}
   ELSE {"absent"}) \cap (Faults \cup {"ok", "absent"})

Trouble(a) == Count(a \in {"blank", "refused", "lost"})

(* What a command that got answer a has made of the cloud.                 *)
Effect(act, r, a, c) ==
  IF act = "make" /\ a \in {"ok", "blank", "lost"} THEN [c EXCEPT ![r] = "live"]
  ELSE IF act = "delete" /\ a \in {"ok", "lost"}
       THEN [c EXCEPT ![r] = IF r \in Slow THEN "dying" ELSE "gone"]
  ELSE c

(* compareStepResults, and what a wrapper makes of the answers g and o.    *)
Compared(s, g) == s.by = "same" \/ (s.by \in {"pair", "twin"} /\ Exit0(g))
Differs(s, g, o, d) ==
  Compared(s, g) /\ (d \/ (s.by # "twin" /\ (Exit0(g) # Exit0(o) \/ ((g = "blank") # (o = "blank")))))

Verdict(s, g, o, d, m) ==
  IF s.gone /\ (g = "absent" \/ m) THEN "next"
  ELSE IF ~Exit0(g) /\ s.by # "same" THEN s.miss
  ELSE IF Differs(s, g, o, d) THEN s.differ
  ELSE IF g = "blank" /\ s.blank \in Miss THEN s.blank
  ELSE "next"

(* What the step registers for cleanup.  The oracle's twin is registered   *)
(* before the outputs are compared, a pair after.                          *)
Registers(s, g, v) ==
  IF /\ s.act = "make" /\ s.keeps
     /\ v = "next" \/ (s.by = "twin" /\ g = "ok")
     /\ g = "blank" => s.blank = "kept"
  THEN s.on ELSE <<>>

\* Mutant: what is made last is cleaned up last.
MutantQueue(rs) ==
  /\ cleanups' = rs \o cleanups
  /\ kept' = kept \cup Elements(rs)
  /\ required' = (required \/ rs # <<>>)

addCleanup(rs) ==
  /\ cleanups' = cleanups \o rs
  /\ kept' = kept \cup Elements(rs)
  /\ required' = (required \/ rs # <<>>)

(***************************************************************************)
(* The steps.                                                              *)
(***************************************************************************)
Running(act) == phase = "steps" /\ pc <= Len(Script) /\ At.act \in act

(* What becomes of step s if the CLI is answered g and the oracle o, d says *)
(* that their outputs differ, m that a failure reads like "not found".     *)
Both(s, g) == s.by = "same" \/ (s.by = "pair" /\ Exit0(g))
First(s) == IF s.on = <<>> THEN "" ELSE s.on[1]
Second(s) == IF Len(s.on) < 2 THEN "" ELSE s.on[2]

Answered(s, g, o, d, m) ==
  /\ Blame(Trouble(g) + Trouble(o) + Count(d) + Count(m))
  /\ misread' = IF m /\ g = "refused" THEN misread \cup {First(s)} ELSE misread
  /\ \E v \in {Verdict(s, g, o, d, m)} :
       /\ known' = IF s.act = "make" /\ v = "next" THEN known \cup Elements(s.on) ELSE known
       /\ addCleanup(Registers(s, g, v))
       /\ Proceed(v)

(* A step that runs a command, or the CLI's and the oracle's.              *)
Command ==
  /\ Running({"use", "make", "delete"})
  /\ \E s \in {At} :
       \E g \in Answers(s.act, First(s), cloud) :
       \E c \in {Effect(s.act, First(s), g, cloud)} :
       \E o \in IF Both(s, g) THEN Answers(s.act, Second(s), c) ELSE {"ok"} :
         /\ cloud' = IF Both(s, g) THEN Effect(s.act, Second(s), o, c) ELSE c
         /\ \E d \in {FALSE} \cup {b \in {TRUE} : Compared(s, g) /\ "differ" \in Faults},
               m \in {FALSE} \cup {b \in {TRUE} : s.gone /\ ~Exit0(g) /\ "misread" \in Faults} :
              Answered(s, g, o, d, m)
  /\ UNCHANGED <<suite, failures, settled, tried, stuck>>

AddCleanup ==
  /\ Running({"keep"})
  /\ addCleanup(At.on)
  /\ Proceed("next")
  /\ UNCHANGED <<suite, cloud, known, failures, faults, settled, tried, misread, stuck>>

(* The last cleanup of that name is taken from the stack, if there is one.  *)
dropCleanup(r) ==
  /\ IF r \in Elements(cleanups)
     THEN \E k \in DOMAIN cleanups :
            /\ cleanups[k] = r /\ \A j \in k + 1 .. Len(cleanups) : cleanups[j] # r
            /\ cleanups' = RemoveAt(cleanups, k)
     ELSE UNCHANGED cleanups
  /\ required' = IF cleanups' = <<>> THEN FALSE ELSE required

DropCleanup ==
  /\ Running({"drop"})
  /\ dropCleanup(At.on[1])
  /\ settled' = settled \cup {At.on[1]}
  /\ Proceed("next")
  /\ UNCHANGED <<suite, cloud, known, failures, faults, kept, tried, misread, stuck>>

(* A block is worked only with what it is about at hand.                   *)
Condition ==
  /\ Running({"need", "given"})
  /\ \E has \in BOOLEAN :
       /\ At.act = "need" => (has <=> At.on[1] \in known)
       /\ Proceed(IF has THEN "next" ELSE "quit")
  /\ UNCHANGED <<suite, cloud, known, cleanups, required, failures, faults, kept, settled,
                 tried, misread, stuck>>

(* mustWaitDeleted: the show fails in a way that looks like "not found", or *)
(* the deadline passes with the resource still there.                      *)
mustWaitDeleted ==
  /\ Running({"gone"})
  /\ LET r == At.on[1]
         there == cloud[r] \in {"live", "dying"}
     IN  \/ /\ ~there
            /\ Proceed("next")
            /\ UNCHANGED <<faults, misread>>
         \/ /\ there /\ "misread" \in Faults
            /\ Blame(1)
            /\ misread' = misread \cup {r}
            /\ Proceed("next")
         \/ /\ cloud[r] = "live" \/ (cloud[r] = "dying" /\ "late" \in Faults)
            /\ Blame(Count(cloud[r] = "dying"))
            /\ Proceed("sweep")
            /\ UNCHANGED misread
  /\ UNCHANGED <<suite, cloud, known, cleanups, required, failures, kept, settled, tried, stuck>>

(* The end of the program: the last cleanupAll of the suite.               *)
Finish ==
  /\ phase = "steps" /\ pc = Len(Script) + 1
  /\ phase' = "sweep"
  /\ UNCHANGED <<suite, pc, outcome, cloud, known, cleanups, required, failures, faults,
                 kept, settled, tried, misread, stuck>>

(***************************************************************************)
(* cleanupAll.                                                             *)
(***************************************************************************)
\* Mutant: a cleanup that fails is taken for one of something gone.
MutantTolerant(r, a, m, c) == r \notin Strict[suite]

(* Whether a cleanup that was answered a is taken for done.                *)
looksDeleted(r, a, m, c) ==
  r \notin Strict[suite] /\ (a = "absent" \/ m \/ (suite \in Confirms /\ c[r] \in {"none", "gone"}))

(* One cleanup from the top of the stack, whatever became of the others.   *)
Sweep ==
  /\ phase = "sweep" /\ cleanups # <<>>
  /\ LET r == cleanups[Len(cleanups)]
     IN  \E a \in Answers("delete", r, cloud), m \in BOOLEAN :
           /\ m => a \in {"refused", "lost"} /\ r \notin Strict[suite] /\ "misread" \in Faults
           /\ Blame(Trouble(a) + Count(m))
           /\ cloud' = Effect("delete", r, a, cloud)
           /\ failures' = (failures \/ ~(Exit0(a) \/ looksDeleted(r, a, m, cloud')))
           /\ misread' = IF m /\ a = "refused" THEN misread \cup {r} ELSE misread
           /\ tried' = Append(tried, r)
           /\ cleanups' = SubSeq(cleanups, 1, Len(cleanups) - 1)
  /\ UNCHANGED <<suite, pc, phase, outcome, known, required, kept, settled, stuck>>

\* Mutant: cleanupAll returns at the first failure.
MutantReturnsEarly ==
  /\ phase = "sweep" /\ (cleanups = <<>> \/ failures)
  /\ phase' = "ended"
  /\ required' = failures
  /\ outcome' = IF failures THEN "failed" ELSE outcome
  /\ UNCHANGED <<suite, pc, cloud, known, cleanups, failures, faults, kept, settled, tried,
                 misread, stuck>>

SweepEnd ==
  /\ phase = "sweep" /\ cleanups = <<>>
  /\ phase' = "ended"
  /\ required' = failures
  /\ outcome' = IF failures THEN "failed" ELSE outcome
  /\ UNCHANGED <<suite, pc, cloud, known, cleanups, failures, faults, kept, settled, tried,
                 misread, stuck>>

(***************************************************************************)
(* The cloud finishes a deletion, or gives it up.                          *)
(***************************************************************************)
Settle(r) ==
  /\ cloud[r] = "dying"
  /\ \/ /\ cloud' = [cloud EXCEPT ![r] = "gone"]
        /\ UNCHANGED <<faults, stuck>>
     \/ /\ "stuck" \in Faults
        /\ Blame(1)
        /\ cloud' = [cloud EXCEPT ![r] = "live"]
        /\ stuck' = stuck \cup {r}
  /\ UNCHANGED <<suite, pc, phase, outcome, known, cleanups, required, failures, kept, settled,
                 tried, misread>>

Client == Command \/ AddCleanup \/ DropCleanup \/ Condition \/ mustWaitDeleted \/ Finish
          \/ Sweep \/ SweepEnd

(* A suite that has ended stays so.                                        *)
Ended ==
  /\ phase = "ended"
  /\ \A r \in Resource : cloud[r] # "dying"
  /\ UNCHANGED vars

Next == Client \/ (\E r \in Resource : Settle(r)) \/ Ended

Spec == Init /\ [][Next]_vars

(***************************************************************************)
(* Properties.                                                             *)
(***************************************************************************)
(* A report that asks for no cleanup is true of everything the suite had   *)
(* registered: it is deleted, unless the cloud gave up a deletion it had   *)
(* accepted, or refused one with words that looksDeleted takes for "not    *)
(* found" (it looks for "no " anywhere in the output).                     *)
Done(r) == cloud[r] = "live" => r \in misread \cup stuck
ReportIsHonest == phase = "ended" /\ ~required => \A r \in kept : Done(r)

(* cleanupAll goes on behind a cleanup that fails: when the suite has come  *)
(* through it, every cleanup that was registered and not dropped has been  *)
(* run exactly once, and no other.                                         *)
EveryCleanupRuns ==
  phase = "ended" /\ outcome # "stopped" =>
    /\ Elements(tried) = kept \ settled
    /\ \A i, j \in DOMAIN tried : tried[i] = tried[j] => i = j

(* The stack is worked from the top, and the suites register in the order  *)
(* in which they make: nothing is deleted before what was made from it.    *)
DependantsFirst ==
  phase = "ended" =>
    \A i, j \in DOMAIN tried : i < j => <<suite, tried[j], tried[i]>> \notin MadeFrom

(* README: "Lifecycle tests create uniquely named resources, clean up      *)
(* resources they create".  A suite that passes leaves nothing behind.     *)
PassedLeavesNothing ==
  phase = "ended" /\ outcome = "passed" => \A r \in Resource : cloud[r] # "live"
================================================================================
