---------------------------- MODULE BulkContract ----------------------------
(***************************************************************************)
(* What a command over several resources promises, whatever happens on the *)
(* way: it takes its arguments in order, each of them once; it says that   *)
(* all is well only if the cloud executed the call of every argument; and  *)
(* when it says that n of them failed, at least the others were executed.  *)
(***************************************************************************)
EXTENDS Naturals, FiniteSets

VARIABLES
  total,      \* number of arguments
  next,       \* the argument to be taken next
  executed,   \* the arguments whose call the cloud has executed
  verdict     \* what the command has said, and of how many failures

vars == <<total, next, executed, verdict>>

Silent == [kind |-> "running", failures |-> 0]

TypeOK ==
  /\ total \in Nat \ {0}
  /\ next \in Nat \ {0}
  /\ executed \subseteq Nat
  /\ verdict \in [kind : {"running", "ok", "count", "error"}, failures : Nat]

Init ==
  /\ total \in Nat \ {0}
  /\ next = 1
  /\ executed = {}
  /\ verdict = Silent

\* The next argument is dealt with, with or without effect.
Take ==
  /\ verdict = Silent
  /\ next <= total
  /\ next' = next + 1
  /\ executed' \in {executed, executed \cup {next}}
  /\ UNCHANGED <<total, verdict>>

\* The command gives up: with the argument it is at possibly executed.
GiveUp ==
  /\ verdict = Silent
  /\ next' \in {next, next + 1}
  /\ executed' \in {executed, executed \cup {next}}
  /\ executed' \subseteq 1..total
  /\ verdict' = [kind |-> "error", failures |-> 0]
  /\ UNCHANGED total

\* Every argument has been taken, and the command says how it went.
Conclude ==
  /\ verdict = Silent
  /\ next = total + 1
  /\ \/ executed = 1..total /\ verdict' = [kind |-> "ok", failures |-> 0]
     \/ /\ verdict' \in [kind : {"count"}, failures : Nat \ {0}]
        /\ total <= verdict'.failures + Cardinality(executed)
  /\ UNCHANGED <<total, next, executed>>

Next == Take \/ GiveUp \/ Conclude

Spec == Init /\ [][Next]_vars
=============================================================================
