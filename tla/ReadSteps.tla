------------------------------ MODULE ReadSteps ------------------------------
(***************************************************************************)
(* The steps of the commands that only read.  Modules ListHandlers and     *)
(* ShowHandlers make their programs of them, in the order in which the Go  *)
(* function takes them, and module ReadCommand says what a step does.  A   *)
(* step is about a kind of thing (of), of which                            *)
(* the rows may be about several:                                          *)
(*   check    the client and the options are put right, or refused;        *)
(*   strict   an argument is looked up by ID or name, a failure is the end; *)
(*   lenient  the same, but what is not found goes out as it was given;    *)
(*   event    the same, if it looks like an ID;                            *)
(*   raw      an argument that may be a name goes out as it was given;     *)
(*   given    so does one that has no name;                                *)
(*   of       an argument that must be there, looked up like strict;       *)
(*   at       one that goes out as it was given;                           *)
(*   ask      a request whose failure is the end, and nothing else;        *)
(*   pages    the listing, page by page until there is no next one;        *)
(*   single   the listing, in the one reply there is;                      *)
(*   match    rows are dropped by what the reply says of them;             *)
(*   eachStop, eachSkip  so are they by a request for each of them, whose  *)
(*            failure is the end, or drops the row;                        *)
(*   namesStop, names  the names of what the rows refer to are read; the   *)
(*            latter without regard to failures;                           *)
(*   find     what is to be shown is looked up by ID or name;              *)
(*   byId     it is read by what the argument says;                        *)
(*   get, getKeep  it is read again, a failure is the end or leaves what   *)
(*            was found;                                                   *)
(*   more, mayMore  more is read about it, must or may be.                 *)
(* from tells which service is asked where a command asks several.         *)
(* by tells how a lookup goes, which takes up to two requests:             *)
(*   get      the thing with the ID is read; if it is not there, or the    *)
(*            request fails, those with the name are listed, and there     *)
(*            must be one;                                                 *)
(*   both     so are those with the ID or the name;                        *)
(*   absent   the same, but a failure of the reading is the end;           *)
(*   once     there is only that listing;                                  *)
(*   first    all are listed, and the first with the ID or the name is     *)
(*            taken; if there is none, the thing with the ID is read;      *)
(*   firstOrGet  the same, also if the listing fails;                      *)
(*   firstGet    the same as first, but what the listing has is read too.  *)
(***************************************************************************)
EXTENDS Integers, Sequences

Step(do, of) == <<[do |-> do, of |-> of, from |-> 0, by |-> "get"]>>
From(k, steps) == [i \in DOMAIN steps |-> [steps[i] EXCEPT !.from = k]]
Via(by, steps) == [i \in DOMAIN steps |-> [steps[i] EXCEPT !.by = by]]

Check == Step("check", "")
Strict(x) == Step("strict", x)
Lenient(x) == Step("lenient", x)
Raw(x) == Step("raw", x)
Given(x) == Step("given", x)
Of(x) == Step("of", x)
In(x) == Step("at", x)
Ask(x) == Step("ask", x)
Pages == Step("pages", "")
Single == Step("single", "")
Match(x) == Step("match", x)
EachOrStop(x) == Step("eachStop", x)
EachOrSkip(x) == Step("eachSkip", x)
NamesOrStop(x) == Step("namesStop", x)
Names(x) == Step("names", x)
Find(x) == Step("find", x)
ById(x) == Step("byId", x)
Get(x) == Step("get", x)
GetOrKeep(x) == Step("getKeep", x)
More(x) == Step("more", x)
MayMore(x) == Step("mayMore", x)

-----------------------------------------------------------------------------
(* What the handlers share.                                                *)

computeClientWithMinimumMicroversion == Check
computeClientWithMaximumMicroversion == Check
blockStorageClientWithMinimumMicroversion == Check
blockStorageClientWithExplicitMinimumMicroversion == Check

resolveNetworkID == Lenient("network")
resolveAddressScopeID == Lenient("address scope")
resolveRouterID == Lenient("router")
resolvePortID == Lenient("port")
resolveSubnetID == Lenient("subnet")
resolveServerID == Lenient("server")
resolveVolumeID == Lenient("volume")
fixedIPFilter == resolveSubnetID
serverIDForEventLookup == Step("event", "server")
identityUserIDForScopedCommand == Of("user")
currentTokenUserID == Ask("token")
usageProjectID == Of("project")
projectFlagID == Strict("project")

flavorNameMap == Names("flavor")
imageNameMap == Names("image")
serverNameMap == Names("server")
projectNameMap == Names("project")
serverNetworkLabels == Names("network")
serviceByID == NamesOrStop("service")

filterAgentsByNetwork == resolveNetworkID \o EachOrSkip("network")
filterAgentsByRouter == resolveRouterID \o EachOrSkip("router")
==============================================================================
