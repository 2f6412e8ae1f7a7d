-------------------------- MODULE PlacementHandlers --------------------------
(***************************************************************************)
(* The commands of internal/cli that change what the placement service     *)
(* knows of a resource provider or of a consumer.  Each is written as the  *)
(* record of its choices; module Placement gives them their behaviour.     *)
(*                                                                         *)
(*   of       "provider" or "consumer"                                     *)
(*   many     whether it works on all providers of an aggregate            *)
(*   version  where the generation sent with the write comes from: a read  *)
(*            of its own ("read"), the read of the content ("content"),    *)
(*            the command line ("user"), or nowhere ("none")               *)
(*   reads    whether the new content is made of the one read before       *)
(*   edit     what becomes of the content                                  *)
(*   dry      --dry-run: nothing is written                                *)
(*   reread   whether the result is read again to be shown                 *)
(***************************************************************************)
EXTENDS Naturals

Sources == {"read", "content", "user", "none"}
Edits == {"replace", "override", "remove", "clear"}

HandlerRecords ==
  [of : {"provider", "consumer"}, many : BOOLEAN, version : Sources, reads : BOOLEAN,
   edit : Edits, dry : BOOLEAN, reread : BOOLEAN]

Provider(version, edit) ==
  [of |-> "provider", many |-> FALSE, version |-> version, reads |-> FALSE, edit |-> edit,
   dry |-> FALSE, reread |-> FALSE]

\* Whether the service compares the generation with its own.
Guarded(handler) == handler.version # "none"

resourceProviderInventorySet(amend, aggregate, dryRun) ==
  [Provider("read", IF amend THEN "override" ELSE "replace")
     EXCEPT !.many = aggregate, !.reads = amend, !.dry = dryRun]

\* One class is written; the service leaves the others as they are.
resourceProviderInventoryClassSet == Provider("read", "override")
resourceProviderInventoryDelete == Provider("none", "remove")
resourceProviderTraitSet == Provider("read", "replace")
resourceProviderTraitDelete == Provider("none", "clear")

\* Up to version 1.18 of the API there is no generation.
resourceProviderAggregateSet(old) == Provider(IF old THEN "none" ELSE "user", "replace")

\* Up to version 1.27 of the API consumers have no generation.
resourceProviderAllocationSet(old) ==
  [Provider(IF old THEN "none" ELSE "read", "replace") EXCEPT !.of = "consumer", !.reread = TRUE]

resourceProviderAllocationUnset(old) ==
  [Provider(IF old THEN "none" ELSE "content", "remove")
     EXCEPT !.of = "consumer", !.reads = TRUE, !.reread = TRUE]

resourceProviderAllocationDelete == [Provider("none", "clear") EXCEPT !.of = "consumer"]

-----------------------------------------------------------------------------
\* What an edit makes of the amounts of every key.  For an inventory a key is a
\* resource class and its amount the total (the other fields are left out), for
\* allocations a provider and a class; zero is "not there".  The keys that the
\* command line does not name are zero in the change.
Applied(edit, change, amounts) ==
  CASE edit = "replace" -> change
    [] edit = "clear" -> [key \in DOMAIN amounts |-> 0]
    [] edit = "override" -> [key \in DOMAIN amounts |-> IF change[key] = 0 THEN amounts[key] ELSE change[key]]
    [] OTHER -> [key \in DOMAIN amounts |-> IF change[key] = 0 THEN amounts[key] ELSE 0]
=============================================================================
