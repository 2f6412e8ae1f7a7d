---------------------------- MODULE AtomicUpdate -----------------------------
(***************************************************************************)
(* What a placement command promises, without generations and requests:    *)
(* each of its targets is updated at one instant, by its edit and of what  *)
(* is there at that instant, at most once, and the report says how many    *)
(* were.  Other users update targets in between.                           *)
(***************************************************************************)
EXTENDS PlacementHandlers, FiniteSets

VARIABLES
  content,    \* of every target
  handler,    \* the command
  change,     \* what its command line says
  targets,    \* what it works on
  done,       \* the targets it has updated
  verdict     \* what it has said, and of how many failures

vars == <<content, handler, change, targets, done, verdict>>

Silent == [kind |-> "running", failures |-> 0]

Init == done = {} /\ verdict = Silent

\* The targets are found.
Find ==
  /\ verdict = Silent /\ done = {}
  /\ targets' # targets
  /\ UNCHANGED <<content, handler, change, done, verdict>>

Update(t) ==
  /\ verdict = Silent
  /\ t \in targets \ done
  /\ content' = [content EXCEPT ![t] = Applied(handler.edit, change, @)]
  /\ done' = done \cup {t}
  /\ UNCHANGED <<handler, change, targets>>

\* The command gives up, and the user does not know about the last target.
GiveUp ==
  /\ verdict = Silent
  /\ verdict'.kind = "error"
  /\ (\E t \in targets : Update(t)) \/ UNCHANGED <<content, handler, change, targets, done>>

Conclude ==
  /\ verdict = Silent
  /\ \/ verdict'.kind = "ok" /\ done = (IF handler.dry THEN {} ELSE targets)
     \/ /\ verdict'.kind = "count"
        /\ verdict'.failures > 0 /\ Cardinality(targets) <= verdict'.failures + Cardinality(done)
  /\ UNCHANGED <<content, handler, change, targets, done>>

Others == UNCHANGED <<handler, change, targets, done, verdict>>

Next ==
  \/ Find \/ GiveUp \/ Conclude \/ Others
  \/ \E t \in targets : Update(t) /\ UNCHANGED verdict

Spec == Init /\ [][Next]_vars
=============================================================================
