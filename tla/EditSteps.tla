----------------------------- MODULE EditSteps ------------------------------
(***************************************************************************)
(* The steps of the commands that create a resource or change one that     *)
(* exists.  Modules EditHandlers, CreateHandlers and ActionHandlers write  *)
(* each command as the sequence of its steps; module ResourceEdit gives    *)
(* them their behaviour.                                                   *)
(*                                                                         *)
(* A resource has parts, a part has a value for every key.  The scalar     *)
(* fields of a resource are the keys of "fields"; the elements of its      *)
(* lists (routes, addresses, groups, pools...) are keys of "list" that are *)
(* there or not; the other parts are maps, sets of tags, and what has a    *)
(* request of its own.                                                     *)
(*                                                                         *)
(* A step has a kind, the parts it is about with what it does to each, and *)
(* what becomes of its failure: the command stops, counts it, or shows what *)
(* there is.                                                               *)
(***************************************************************************)
EXTENDS Sequences

Parts == {"fields", "list", "profile", "tags", "specs", "access", "state", "settings",
          "secret", "stored", "image", "member"}

(* What a request does to a part: it gives the named keys their values     *)
(* ("add"), only those that the reading has ("found"), or those and none   *)
(* to the others the reading has when the part is to be cleared ("edit",   *)
(* and "forget" without the named keys); it empties the part ("wipe"); or  *)
(* it writes the whole part as made of the reading, when the command line  *)
(* concerns it ("whole"), when that makes a difference ("diff"), always    *)
(* ("rewrite"), or only when it is not empty then ("merge": an empty map   *)
(* is left out of the request, and the part stays as it is).               *)
Effects == {"add", "found", "edit", "forget", "wipe", "whole", "merge", "diff", "rewrite"}

(* Options may be taken and not be used ("ignored").  A request may be     *)
(* followed by the same to another address if it fails ("attempt").        *)
Kinds == {"check", "find", "raw", "reread", "present", "absent", "put", "always", "create",
          "putAnswered", "each", "eachRead", "ignored", "attempt"}

IsStep(step) ==
  /\ step.kind \in Kinds /\ step.on \in {"stop", "count", "show"}
  /\ DOMAIN step.effects \subseteq Parts
  /\ \A p \in DOMAIN step.effects : step.effects[p] \in Effects
  /\ step.kind = "raw" => DOMAIN step.effects = {"profile"}
  /\ \A p \in DOMAIN step.effects :
       /\ step.effects[p] = "merge" => step.kind = "put"
       /\ step.kind = "attempt" => step.effects[p] = "add"

\* removes: unset, the named keys get no value.  clears: the parts with an
\* option that drops all they have.
IsHandler(h) ==
  /\ h.removes \in BOOLEAN /\ h.clears \subseteq Parts
  /\ h.steps \in Seq({h.steps[i] : i \in DOMAIN h.steps})
  /\ \A i \in DOMAIN h.steps : IsStep(h.steps[i])

\* What is always written back has no option that drops it.
Keeps(h) ==
  \A i \in DOMAIN h.steps : \A p \in DOMAIN h.steps[i].effects :
    h.steps[i].effects[p] = "rewrite" => p \notin h.clears

Step(kind, effects) == [kind |-> kind, effects |-> effects, on |-> "stop"]
Counted(step) == [step EXCEPT !.on = "count"]
Nowhere == [p \in {} |-> "add"]

\* Arguments are parsed and names looked up; either may fail, and the command
\* ends.
Check == Step("check", Nowhere)
Find == Step("find", Nowhere)
Put(effects) == Step("put", effects)
Fields == Put([fields |-> "add"])
Tags == Put([tags |-> "diff"])
Always(effects) == Step("always", effects)

SetBy(clears, steps) == [removes |-> FALSE, clears |-> clears, steps |-> steps]
UnsetBy(clears, steps) == [removes |-> TRUE, clears |-> clears, steps |-> steps]

\* Nothing is looked up, or nothing of the resource itself.
OneRequest(effects) == SetBy({}, <<Check, Always(effects)>>)
Unchecked == SetBy({}, <<Always([fields |-> "add"])>>)

\* Elements that the service adds and removes by itself.
Gain == SetBy({}, <<Find, Check, Always([list |-> "add"])>>)
Lose == UnsetBy({}, <<Find, Check, Always([list |-> "add"])>>)
=============================================================================
