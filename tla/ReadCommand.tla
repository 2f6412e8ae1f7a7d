----------------------------- MODULE ReadCommand -----------------------------
(***************************************************************************)
(* One run of a command that reads: the requests of its handler, one by    *)
(* one, while other users rename, move, make and delete what it reads.     *)
(*                                                                         *)
(* The cloud has things (projects, networks, servers, ...) with names, and *)
(* items that each belong to a thing.  A list shows items, all of them or  *)
(* those of the thing its argument says; a show shows a thing.             *)
(***************************************************************************)
EXTENDS Integers, Sequences, FiniteSets

CONSTANTS
  Things,       \* the IDs of the things
  ThingNames,        \* their names
  Items,        \* the items, in the order of the listings
  Home,         \* of an item: the service it is in, where several are asked
  Mine,         \* the thing the caller belongs to
  Gone,         \* the name of what is not there, and the place of an item that is not
  None,         \* no argument
  Programs,     \* the programs a run may execute (see ReadHandlers)
  Clouds,       \* the states of the cloud in which a command may be given
  PageSize,     \* how many items the service gives in a reply
  MaxFaulted,   \* bound on the requests that fail
  MaxMeddled    \* bound on the changes by others

Worlds == [name : [Things -> ThingNames \cup {Gone}], of : [Items -> Things \cup {Gone}]]

Kinds == {"check", "refuse", "ask", "strict", "of", "lenient", "event", "raw", "given", "at",
          "pages", "single", "singleOrNone", "own", "match", "eachStop", "eachSkip",
          "names", "namesStop", "find", "byId", "tryId", "get", "getKeep", "more", "mayMore"}
Hows == {"get", "both", "absent", "once", "first", "firstOrGet", "firstGet"}
Excuses == {"unresolved", "missed", "raw", "cut", "none", "skipped", "unnamed"}

ASSUME ItemsAssumption == Items \subseteq Nat \ {0} /\ IsFiniteSet(Items)
ASSUME NamesAssumption ==
  Gone \notin Things \cup ThingNames /\ None \notin Things \cup ThingNames
ASSUME CloudsAssumption == Clouds \subseteq Worlds /\ Mine \in Things /\ Home \in [Items -> Nat]
ASSUME ProgramsAssumption ==
  \A p \in Programs :
    /\ p \in Seq({p[k] : k \in 1..Len(p)})
    /\ \A k \in 1..Len(p) : p[k].do \in Kinds /\ p[k].from \in Nat /\ p[k].by \in Hows
\* What is shown is found before more is read of it.
ASSUME ShowsAssumption ==
  \A p \in Programs : \A j, k \in 1..Len(p) :
    j < k /\ p[j].do \in {"more", "mayMore"} => p[k].do # "find"
ASSUME BoundsAssumption == PageSize \in Nat \ {0} /\ {MaxFaulted, MaxMeddled} \subseteq Nat

VARIABLES
  world,      \* the cloud
  program,    \* the steps of the command
  arg,        \* the argument of the command
  pc,         \* its next step
  second,     \* what the second request of a lookup is for; None before it
  key,        \* what it sends for the argument
  marker,     \* the last item of the page, or of the loop, it has come to
  rows,       \* of an item: the thing it was listed with; Gone if it is not in the table
  names,      \* the names it has read
  found,      \* the thing it shows
  label,      \* the name it shows for it
  detail,     \* what else it has read about it
  verdict,    \* "running", "ok" (it prints) or "failed" (it prints nothing but the error)
  seen,       \* history: every state of the cloud since the command was given
  excuses,    \* history: why the table may lack something
  faulted,    \* history: the number of requests that failed
  meddled     \* history: the number of changes by others

argVars == <<program, arg>>
tableVars == <<marker, rows>>
showVars == <<found, label, detail>>
vars == <<world, argVars, pc, second, key, tableVars, names, showVars, verdict, seen, excuses,
          faulted, meddled>>

TypeOK ==
  /\ world \in Worlds
  /\ program \in Programs
  /\ arg \in Things \cup ThingNames \cup {None}
  /\ pc \in 1..Len(program) + 1
  /\ {second, key} \subseteq Things \cup ThingNames \cup {None}
  /\ marker \in Items \cup {0}
  /\ rows \in [Items -> Things \cup {Gone}]
  /\ names \in [Things -> ThingNames \cup {Gone}]
  /\ found \in Things \cup {None}
  /\ label \in ThingNames \cup {Gone}
  /\ detail \in ThingNames \cup {Gone}
  /\ verdict \in {"running", "ok", "failed"}
  /\ seen \subseteq Worlds
  /\ excuses \subseteq Excuses
  /\ faulted \in 0..MaxFaulted
  /\ meddled \in 0..MaxMeddled

-----------------------------------------------------------------------------
(* The command line.                                                       *)

Has(p, kinds) == \E k \in 1..Len(p) : p[k].do \in kinds
MayName(p) == Has(p, {"strict", "of", "lenient", "event", "raw", "find"})
Takes(p) ==
  IF MayName(p) THEN Things \cup ThingNames
  ELSE IF Has(p, {"given", "at", "match", "byId"}) THEN Things
  ELSE {None}

Listings == {"pages", "single", "singleOrNone", "own"}

\* What the argument says restricts every listing, or its rows afterwards.
Sends == {"strict", "of", "lenient", "event", "raw", "given", "at"}
Narrows(p) ==
  \A k \in 1..Len(p) : p[k].do \in Listings =>
    /\ p[k].do # "own"
    /\ \/ Takes(p) = {None}
       \/ \E j \in 1..k - 1 : p[j].do \in Sends
       \/ \E j \in k + 1..Len(p) : p[j].do \in {"match", "eachSkip"}

\* Every item is in a service that is listed, and a row is dropped only for
\* what an earlier step has made of the argument, or for an ID.
Whole == {"pages", "single", "singleOrNone"}
Covers(p) ==
  /\ Has(p, Whole) =>
       \A i \in Items : \E k \in 1..Len(p) : p[k].do \in Whole /\ p[k].from \in {0, Home[i]}
  /\ \A k \in 1..Len(p) : p[k].do = "eachSkip" => \E j \in 1..k - 1 : p[j].do \in Sends
  /\ Has(p, {"match"}) => ~MayName(p)

Init ==
  /\ world \in Clouds
  /\ program \in Programs
  /\ arg \in Takes(program)
  /\ pc = 1
  /\ second = None
  /\ key = None
  /\ marker = 0
  /\ rows = [i \in Items |-> Gone]
  /\ names = [t \in Things |-> Gone]
  /\ found = None /\ label = Gone /\ detail = Gone
  /\ verdict = "running"
  /\ seen = {world}
  /\ excuses = {}
  /\ faulted = 0
  /\ meddled = 0

Do(kinds) == verdict = "running" /\ pc <= Len(program) /\ program[pc].do \in kinds
Kind == program[pc].do

\* Mutant: the step after this one is left out.
MutantLeftOut == pc' = pc + 2 /\ UNCHANGED verdict

Advance == pc' = pc + 1 /\ UNCHANGED verdict

Stop == verdict' = "failed" /\ UNCHANGED pc
Fault == faulted < MaxFaulted /\ faulted' = faulted + 1
Excuse(e) == excuses' = excuses \cup {e}

-----------------------------------------------------------------------------
(* Arguments.                                                              *)

(* An argument is an ID or a name; a thing may have the ID of another one  *)
(* for its name.                                                           *)
WithId(w, a) == {t \in Things : t = a /\ w.name[t] # Gone}
WithName(w, a) == {t \in Things : w.name[t] = a}
Meant(w, a) == WithId(w, a) \cup WithName(w, a)

\* Mutant: the first of several will do.
MutantFirst(S) == S

\* One of several is not taken.
Only(S) == {t \in S : S = {t}}

Lookups == {"strict", "of", "lenient", "event", "find"}
How == program[pc].by
TakesFirst == {"first", "firstOrGet", "firstGet"}

(* What the first request of a lookup, or the second one, may find.        *)
Hits ==
  CASE second = None /\ How \in {"get", "both", "absent"} -> WithId(world, arg)
    [] second = None /\ How = "once" -> Only(Meant(world, arg))
    [] second = None /\ How \in TakesFirst -> Meant(world, arg)
    [] second # None /\ How = "get" -> Only(WithName(world, arg))
    [] second # None /\ How \in {"both", "absent"} -> Only(Meant(world, arg))
    [] OTHER -> WithId(world, second)

Hit(t) == t \in Hits /\ (How = "firstGet" => second # None)

(* After which there is a second request, where the first one fails or     *)
(* finds nothing.                                                          *)
AfterFault == {"get", "both", "firstOrGet"}
AfterNothing == Hows \ {"once"}
Ends(hows) == second # None \/ How \notin hows

Misses ==
  \/ Hits = {} /\ Ends(AfterNothing) /\ UNCHANGED faulted
  \/ Fault /\ Ends(AfterFault)

CheckArguments ==
  /\ Do({"check", "refuse"})
  /\ Stop \/ (Kind = "check" /\ Advance)
  /\ UNCHANGED <<world, argVars, second, key, tableVars, names, showVars, seen, excuses, faulted, meddled>>

AskService ==
  /\ Do({"ask"})
  /\ (Advance /\ UNCHANGED faulted) \/ (Stop /\ Fault)
  /\ UNCHANGED <<world, argVars, second, key, tableVars, names, showVars, seen, excuses, meddled>>

\* Mutant: what is not found is left out of the query.
MutantNoFilter == Kind \in {"lenient", "event"} /\ key' = None /\ Excuse("unresolved") /\ Advance

(* An argument that is not found: the end, or sent as it was given.        *)
Unresolved ==
  \/ /\ Kind \in {"strict", "of"} \/ (Kind = "event" /\ arg \notin Things)
     /\ Stop
     /\ UNCHANGED <<key, excuses>>
  \/ /\ Kind = "lenient" \/ (Kind = "event" /\ arg \in Things)
     /\ key' = arg
     /\ Excuse("unresolved")
     /\ Advance

(* The second request of a lookup; firstGet reads what it has listed.      *)
LookAgain ==
  /\ Do(Lookups) /\ second = None
  /\ \/ Hits = {} /\ How \in AfterNothing /\ second' = arg /\ UNCHANGED <<excuses, faulted>>
     \/ Fault /\ How \in AfterFault /\ second' = arg /\ Excuse("missed")
     \/ How = "firstGet" /\ second' \in Hits /\ UNCHANGED <<excuses, faulted>>
  /\ UNCHANGED <<world, argVars, pc, key, tableVars, names, showVars, verdict, seen, meddled>>

Resolve ==
  /\ Do(Lookups \ {"find"})
  /\ \/ /\ \E t \in Things : Hit(t) /\ key' = t
        /\ Advance
        /\ UNCHANGED <<excuses, faulted>>
     \/ Misses /\ Unresolved
  /\ second' = None
  /\ UNCHANGED <<world, argVars, tableVars, names, showVars, seen, meddled>>

(* The service takes it for an ID.                                         *)
Send ==
  /\ Do({"raw", "given", "at"})
  /\ key' = arg
  /\ Advance
  /\ IF WithId(world, arg) = {} THEN Excuse("raw") ELSE UNCHANGED excuses
  /\ UNCHANGED <<world, argVars, second, tableVars, names, showVars, seen, faulted, meddled>>

-----------------------------------------------------------------------------
(* Lists.                                                                  *)

Wanted(t) == t # Gone /\ (IF Kind = "own" THEN t = Mine ELSE key \in {None, t})
Served(i) == program[pc].from \in {0, Home[i]}

(* What the service has behind the marker, and what of it is in a reply.   *)
Behind(m) == {i \in Items : i > m /\ Served(i) /\ Wanted(world.of[i])}
Reply(S) == {i \in S : Cardinality({j \in S : j < i}) < PageSize}

Receive(S) == rows' = [i \in Items |-> IF i \in S THEN world.of[i] ELSE rows[i]]

\* Mutant: the reply to the first request is all there is.
MutantOnePage(S) == TRUE

(* A full page has a link to the next one.                                 *)
IsLast(S) == Cardinality(S) < PageSize

Page ==
  /\ Do({"pages"})
  /\ \E S \in {Reply(Behind(marker))} :
       /\ Receive(S)
       /\ \/ IsLast(S) /\ marker' = 0 /\ Advance
          \/ /\ ~IsLast(S)
             /\ \E last \in S : (\A i \in S : i <= last) /\ marker' = last
             /\ UNCHANGED <<pc, verdict>>
  /\ UNCHANGED <<world, argVars, second, key, names, showVars, seen, excuses, faulted, meddled>>

(* A service that cuts its one reply off does not say so to these handlers. *)
OneReply ==
  /\ Do({"single", "singleOrNone", "own"})
  /\ \/ Receive(Behind(0)) /\ UNCHANGED excuses
     \/ Reply(Behind(0)) # Behind(0) /\ Receive(Reply(Behind(0))) /\ Excuse("cut")
  /\ Advance
  /\ UNCHANGED <<world, argVars, second, key, marker, names, showVars, seen, faulted, meddled>>

(* A listing that fails, or whose marker is not there any more.  Where a   *)
(* service may lack the resource, "not found" stands for no rows.          *)
ListFails ==
  /\ Do(Listings)
  /\ \/ Fault
     \/ marker # 0 /\ world.of[marker] = Gone /\ UNCHANGED faulted
  /\ \/ Stop /\ UNCHANGED excuses
     \/ Kind = "singleOrNone" /\ Advance /\ Excuse("none")
  /\ UNCHANGED <<world, argVars, second, key, tableVars, names, showVars, seen, meddled>>

MatchRows ==
  /\ Do({"match"})
  /\ key' = arg
  /\ rows' = [i \in Items |-> IF rows[i] = arg THEN rows[i] ELSE Gone]
  /\ Advance
  /\ UNCHANGED <<world, argVars, second, marker, names, showVars, seen, excuses,
                 faulted, meddled>>

Listed == {i \in Items : rows[i] # Gone}
Rest == {i \in Listed : i > marker}

(* A row that is not what was asked for, or of which that cannot be read.  *)
Skipped(i) == Gone

(* The request for one row.                                                *)
Again(i) ==
  \/ /\ Kind = "eachStop" /\ world.of[i] # Gone
     /\ marker' = i
     /\ UNCHANGED <<rows, verdict, excuses, faulted>>
  \/ /\ Kind = "eachSkip" /\ world.of[i] # Gone
     /\ marker' = i
     /\ rows' = [rows EXCEPT ![i] = IF world.of[i] = key THEN key ELSE Gone]
     /\ UNCHANGED <<verdict, excuses, faulted>>
  \/ /\ Kind = "eachStop"
     /\ Fault \/ (world.of[i] = Gone /\ UNCHANGED faulted)
     /\ verdict' = "failed"
     /\ UNCHANGED <<marker, rows, excuses>>
  \/ /\ Kind = "eachSkip"
     /\ Fault \/ (world.of[i] = Gone /\ UNCHANGED faulted)
     /\ marker' = i
     /\ rows' = [rows EXCEPT ![i] = Skipped(i)]
     /\ Excuse("skipped")
     /\ UNCHANGED verdict

Each ==
  /\ Do({"eachStop", "eachSkip"})
  /\ \E i \in Rest : (\A j \in Rest : i <= j) /\ Again(i)
  /\ UNCHANGED <<world, argVars, second, pc, key, names, showVars, seen, meddled>>

EachEnds ==
  /\ Do({"eachStop", "eachSkip"})
  /\ Rest = {}
  /\ marker' = 0
  /\ Advance
  /\ UNCHANGED <<world, argVars, second, key, rows, names, showVars, seen, excuses,
                 faulted, meddled>>

\* Mutant: the map gets the name of the last one for all of them.
MutantSameName(w) ==
  [t \in Things |-> IF w.name[t] = Gone THEN Gone
                    ELSE w.name[CHOOSE u \in Things : w.name[u] # Gone]]

NameMap(w) == w.name

ReadNames ==
  /\ Do({"names", "namesStop"})
  /\ \/ names' = NameMap(world) /\ Advance /\ UNCHANGED <<excuses, faulted>>
     \/ Fault /\ Kind = "names" /\ Advance /\ Excuse("unnamed") /\ UNCHANGED names
     \/ Fault /\ Kind = "namesStop" /\ Stop /\ UNCHANGED <<names, excuses>>
  /\ UNCHANGED <<world, argVars, second, key, tableVars, showVars, seen, meddled>>

-----------------------------------------------------------------------------
(* Shows.                                                                  *)

There(t) == t \in Things /\ world.name[t] # Gone

Look(t) == found' = t /\ label' = world.name[t] /\ UNCHANGED detail

FindThing ==
  /\ Do({"find"})
  /\ \/ (\E t \in Things : Hit(t) /\ Look(t)) /\ Advance /\ UNCHANGED faulted
     \/ Misses /\ Stop /\ UNCHANGED showVars
  /\ second' = None
  /\ UNCHANGED <<world, argVars, key, tableVars, names, seen, excuses, meddled>>

(* A reading by the ID that was given; the second of two is left out if    *)
(* the first has worked.                                                   *)
GetThing ==
  /\ Do({"byId", "tryId"})
  /\ \/ found # None /\ Advance /\ UNCHANGED <<showVars, faulted>>
     \/ found = None /\ There(arg) /\ Look(arg) /\ Advance /\ UNCHANGED faulted
     \/ /\ found = None
        /\ Fault \/ (~There(arg) /\ UNCHANGED faulted)
        /\ IF Kind = "tryId" THEN Advance ELSE Stop
        /\ UNCHANGED showVars
  /\ UNCHANGED <<world, argVars, second, key, tableVars, names, seen, excuses, meddled>>

GetAgain ==
  /\ Do({"get", "getKeep"})
  /\ \/ There(found) /\ Look(found) /\ Advance /\ UNCHANGED faulted
     \/ /\ Fault \/ (~There(found) /\ UNCHANGED faulted)
        /\ IF Kind = "getKeep" THEN Advance ELSE Stop
        /\ UNCHANGED showVars
  /\ UNCHANGED <<world, argVars, second, key, tableVars, names, seen, excuses, meddled>>

ReadMore ==
  /\ Do({"more", "mayMore"})
  /\ \/ /\ There(found)
        /\ detail' = world.name[found]
        /\ Advance
        /\ UNCHANGED faulted
     \/ /\ Fault \/ (~There(found) /\ UNCHANGED faulted)
        /\ IF Kind = "mayMore" THEN Advance ELSE Stop
        /\ UNCHANGED detail
  /\ UNCHANGED <<world, argVars, second, key, tableVars, names, found, label, seen, excuses, meddled>>

Render ==
  /\ verdict = "running"
  /\ pc = Len(program) + 1
  /\ verdict' = "ok"
  /\ UNCHANGED <<world, argVars, second, pc, key, tableVars, names, showVars, seen, excuses, faulted,
                 meddled>>

Client ==
  \/ CheckArguments \/ AskService \/ LookAgain \/ Resolve \/ Send
  \/ Page \/ OneReply \/ ListFails \/ MatchRows \/ Each \/ EachEnds \/ ReadNames
  \/ FindThing \/ GetThing \/ GetAgain \/ ReadMore \/ Render

-----------------------------------------------------------------------------
(* Other users.                                                            *)

Meddle ==
  /\ verdict = "running"
  /\ meddled < MaxMeddled
  /\ \/ \E t \in Things, n \in ThingNames \cup {Gone} :
          n # world.name[t] /\ world' = [world EXCEPT !.name[t] = n]
     \/ \E i \in Items, t \in Things \cup {Gone} :
          t # world.of[i] /\ world' = [world EXCEPT !.of[i] = t]
  /\ seen' = seen \cup {world'}
  /\ meddled' = meddled + 1
  /\ UNCHANGED <<argVars, second, pc, key, tableVars, names, showVars, verdict, excuses, faulted>>

Next == Client \/ Meddle

Spec == Init /\ [][Next]_vars

-----------------------------------------------------------------------------
(* Properties.                                                             *)

(* The argument has meant t: as its ID; as its name, no other thing having *)
(* that name at the time, and nothing having that ID at some time while    *)
(* the command ran, unless the request that would have told failed.  Where *)
(* the first match is taken, another thing may have had the name.          *)
HasMeant(t) ==
  \/ arg \in {None, t}
  \/ /\ \E w \in seen : WithName(w, arg) = {t}
     /\ "missed" \in excuses \/ \E w \in seen : WithId(w, arg) = {}
  \/ /\ \E k \in 1..Len(program) : program[k].do \in Lookups /\ program[k].by \in TakesFirst
     /\ \E w \in seen : t \in WithName(w, arg)

\* It has meant nothing else; as a name only where it may be one.
AlwaysMeant(t) ==
  \/ arg = None
  \/ /\ \A w \in seen : Meant(w, arg) = {t}
     /\ arg = t \/ MayName(program)

(* Whatever a table shows was there while the command ran, and belonged to *)
(* a thing that the argument then meant.  In particular a failed lookup of *)
(* an argument never widens the table.                                     *)
ShownWasThere ==
  verdict = "ok" =>
    \A i \in Listed : (\E w \in seen : w.of[i] = rows[i]) /\ HasMeant(rows[i])

(* What was there and meant all the time the command ran is in the table,  *)
(* whatever was made, moved or deleted between its pages, unless a name    *)
(* went out unresolved, the service cut off its reply or has no such       *)
(* resource, or the reading of that row failed.                            *)
NothingLost ==
  verdict = "ok" /\ Has(program, Whole)
  /\ excuses \subseteq {"missed", "unnamed"} =>
    \A i \in Items, t \in Things :
      AlwaysMeant(t) /\ (\A w \in seen : w.of[i] = t) => i \in Listed

(* A name in a table is one the thing had while the command ran; its ID    *)
(* stands there only if the names were not read or it had none.            *)
NamesAreTrue ==
  verdict = "ok" /\ Has(program, {"names", "namesStop"}) =>
    \A t \in Things :
      IF names[t] = Gone THEN "unnamed" \in excuses \/ \E w \in seen : w.name[t] = Gone
      ELSE \E w \in seen : w.name[t] = names[t]

(* What a show prints was true of the thing while the command ran, the     *)
(* thing was what the argument meant, and what it must read it has read.   *)
ShowIsTrue ==
  verdict = "ok" /\ Has(program, {"find", "byId"}) =>
    /\ found # None
    /\ HasMeant(found)
    /\ \E w \in seen : w.name[found] = label
    /\ label # Gone
    /\ detail # Gone => \E w \in seen : w.name[found] = detail
    /\ Has(program, {"more"}) => detail # Gone
=============================================================================
