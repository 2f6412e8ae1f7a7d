---------------------------- MODULE MCReadCommand ----------------------------
(* The commands of ReadHandlers, run by module ReadCommand. *)
EXTENDS ReadCommand, ReadHandlers

CONSTANTS a, b, m

MCItems == 1..3
MCHome == [i \in MCItems |-> i]
MCPrograms == readPrograms
MCLimits == limitsPrograms

\* What the theorems about ShownWasThere and NothingLost ask of the programs.
ASSUME ReadingNarrows == \A p \in readPrograms : Narrows(p)
ASSUME ReadingCovers == \A p \in readPrograms : Covers(p)

\* Two things with one name, with a name each, one of them the other's ID, or
\* one of them not there; items of either, or not there yet.
MCClouds ==
  {[name |-> x, of |-> y] :
     x \in {[t \in {a, b} |-> m], [t \in {a, b} |-> IF t = a THEN b ELSE m],
            [t \in {a, b} |-> IF t = a THEN b ELSE Gone],
            [t \in {a, b} |-> IF t = a THEN m ELSE Gone]},
     y \in {<<a, a, a>>, <<a, b, a>>, <<Gone, a, b>>}}
=============================================================================
