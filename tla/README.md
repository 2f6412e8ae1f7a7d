# A formal model of openstack-go

openstack-go is a command-line client: a Go program that takes one `openstack`
command, talks to the HTTP services of a cloud, prints the answer and ends. It
has no goroutines and keeps nothing on disk between runs. What is hard about it
is not inside it but around it: every command of more than one request runs
against a cloud that works in the background and that other people use at the
same time, every request may fail or have its answer lost, and the command must
then tell the truth about what it did. These modules are about that.

All paths below are under `src/`. `core_read.go` and the other Go files without
a directory are in `internal/cli/`.

## 1. Inventory

| component | where | state it keeps | operations | correct when |
|---|---|---|---|---|
| Commands over several resources | `core_read.go`, `identity_write.go`, `neutron_extras.go`, `placement_read.go`, `object_read.go` | loop index, target, counter of failures, list of deletions to wait for | the handlers of `BulkHandlers`: look up and delete (or act on) each argument | the report is honest, an argument's fate is its own, nothing unnamed is touched |
| Lookup by name or ID | same, `find...` | none | Get by ID, list by name, take the only match; five finders take the first | an ID wins over a name, an ambiguous name is refused |
| Server actions with `--wait` | `core_read.go` | deadline | act, poll status and task state, read again | success means the operation succeeded, failure that it failed |
| Project cleanup | `core_read.go` | list of resources, counter | list, filter, show, ask, delete | only what is the project's, was shown and was approved |
| Placement updates | `placement_read.go` | generation read | inventory, trait, aggregate and allocation set | an update is applied to the state it was read from |
| Create, set, unset and action commands | `core_read.go`, `identity_write.go`, `common_read.go`, `neutron_extras.go`, `cinder_extras.go`, `object_read.go` | resource read, counter of failures | one request per option, per key or per part | what was not named stays, a failure is reported, and what others do in between is lost only where a whole list is sent |
| Reading commands | `core_read.go`, `identity_read.go`, `common_read.go`, `placement_read.go`, `object_read.go`, `neutron_extras.go` | argument resolved, marker of the page, rows, names | list, show | the table shows what was there and meant, and lacks nothing without a reason |
| Lifecycle smoke test | `tools/lifecycle-smoke` | stack of cleanups, report | create, check, compare with the Python client, clean up | nothing the run made is left, or the report says so |
| Images and metadata definitions | `core_read.go` | none | create, upload, stage, import, protect | an interrupted upload is not taken for a finished one |
| Object store | `object_read.go` | none | upload, save, delete recursively | as for several resources |
| Quotas | `common_read.go` | none | show, set, delete over three services | a refusal by one service is reported |
| Command tree, options, configuration | `root.go`, `registry.go`, `command_list.go`, `module_list.go`, `compat_errors.go` | option values | resolve defaults, dispatch | the documented precedence |
| Login and service clients | `openstack_client.go`, `token_issue.go` | token, endpoints | authenticate, choose a microversion | - |
| Output | `output.go`, `table.go`, `sort.go`, `pretty_*.go` | rows | sort, fit to a width, format | no cell or row is lost |
| SSH and host keys | `nova_extras.go` | known hosts file | choose an address, run ssh | - |
| Plugins | `internal/cliplugin`, `internal/plugins` | registry | register commands | - |
| Test runs | `lifecycle.go` | stack of cleanups | as the smoke test, in unit tests | as the smoke test |
| Tools | `tools/matrix`, `tools/compat-check`, `tools/cloud-discovery`, `tools/osc-catalog` | files | generate, compare | - |
| Recorded data | `compat` | help texts, fixtures | - | - |

How they interact: a command is dispatched by the command tree to one handler;
the handler builds service clients (one login, shared), calls finders and
services through the gophercloud library, and hands rows to the output code.
Nothing else connects handlers. There are no callbacks but the progress bar of
the wait loop and the `deleteFunc` of a cleanup row. So all concurrency is
between one command, the background work of the cloud and the other users of
the cloud, and the interleaving points are the requests. Every module below has
the same three actors: the client (one action is one request and the handler's
code up to the next), the cloud, and other users, bounded by
`MaxMeddled` or `MaxDisturbances`.

The hard behaviours, with their lines, are the `hazards` of `PROJECT.json`.

## 2. Plan

In this order; 1 to 8 are done.

1. `BulkHandlers`, `BulkCommand`, `BulkContract`: commands over several
   resources with their lookups. Theorems: type correctness, honest report,
   first error stops, the contract; what becomes of
   single arguments.
2. `WaitHandlers`, `ServerWait`: server actions with `--wait`, composed with
   `BulkContract`. Theorems: type correctness, waited operations succeeded,
   reported failures have failed, deadlines come last, timeouts are real, the contract.
3. `ProjectCleanup`. Theorems: type correctness, nothing unapproved, only the
   project's own, honest report, what a cleanup leaves, groups in use stay.
4. `AtomicUpdate`, `Placement`: an update is atomic; the requests of the
   placement commands, guarded by generations, implement it. Theorems: type
   correctness, nothing unseen is overwritten, the step simulation, nothing is
   left out without a reason.
5. `EditSteps`, `EditHandlers`, `ResourceEdit`: set and unset handlers of several
   requests, the unguarded counterpart of 4: what survives a failure, a
   repetition, a lost reading and a concurrent update. Theorems: type
   correctness, nothing is made up, success means as asked, others are undone only in
   races.
6. `CreateHandlers`, `ActionHandlers`: further rows for `ResourceEdit`: creations,
   quotas over three services, the data of images and objects, roles, the
   interfaces of a server.
7. `LifecycleSuites`, `Lifecycle`: the smoke test's suites as programs over the
   stack of cleanups. Theorems: type correctness, every cleanup runs, dependants
   go first, the report is honest.
8. `ReadSteps`, `ListHandlers`, `ShowHandlers`, `ReadHandlers`, `ReadCommand`: the
   lists and shows as programs of lookups, listings and further readings.
   Theorems: type correctness, names and shows are true, nothing is shown
   that was not there and meant, nothing that was is lost.
9. Proofs that the commands make progress: the part of `Terminates` that needs no
   fairness. Done for the bulk and the waiting commands; the reading commands and the
   lifecycle test have loops of their own (pages, retries) and are left.
10. The algorithms of the output and of the tools (fitting a table to a width,
   merging a matrix) as operators against reference definitions.

## 3. Modules

### Commands over several resources

`BulkHandlers` is a table. All these handlers are one loop, "for each argument:
look it up, make one call", and differ in a few choices: which finder, in which
scope it lists, which failures end the command and which are counted, whether a
404 counts as success, whether it waits. One definition per Go function gives
its record of choices, and one per finder the way it searches.

`BulkCommand` gives the loop its behaviour. Its variables are the Go locals (`i`,
`target`, `failures`, `deleted`, the deadline as `expired`), the cloud (`status`
and `name` of every resource) and history. Actions: `Setup` (a user, parent or
domain that is looked up first), `Get`, `List`, `Confirm` (the list-first
finders read once more), `Call`, `AfterLoop`, `Wait` (one poll of
`waitForServerGone`), `Expire` (the deadline passes), `Meddle` and `Reap` (the
world). Each request may be answered, refused, or be executed and its answer
lost; `Call` has a disjunct for each.

`BulkContract` is what the user is promised, without lookups, requests or a
cloud: arguments are taken in order, each once; success means all were executed;
n failures mean that all but n were. What a handler prints as the m of "n of m
failed" is part of its record (`total`) and of its report: three deletions of
metadef parts print the length of the namespace's name there.

### Server actions with --wait

`WaitHandlers` is the table of the ten handlers that poll, `ServerWait` the
handler loop with the poll. The cloud has a `status` and a `task` for every
server, as the compute service has: an action is accepted in certain statuses
when no task is going on, and the task ends in an outcome or a failure of its
own. The poll sees the status of before the operation, of during it, or of
after it, and the task only if the cloud shows it (`showsTask`; a reply without
the key counts as "no task", as in the code). The order of the tests in one poll
is that of the code: target, failure, deadline.
The context of the wait is never cancelled in this program, so its branch of the
`select` has no action. `server backup create` without an image ID in the reply
does not wait, and is then its record without `wait`.

### Project cleanup

`ProjectCleanup` is `projectCleanup` from top to bottom: options that exclude
each other, the project, the two listings, the table, the dry run, the question,
the deletions and the count. Other users create, change and delete resources
between any two requests; the cloud deletes servers in the background. That two
requests of a listing's pages see different states is not modelled: a listing is
one request. Output errors are left out.

### Placement updates

`PlacementHandlers` is the table of the commands that change an inventory,
traits, aggregates or allocations: where the generation of the write comes from,
whether the new content is made of the old, and what the edit does. A target is
a resource provider or a consumer; its content is an amount per key.

`Placement` runs such a command: `ReadVersion` (a provider, all providers of an
aggregate, or a consumer), then for every target `ReadContent`, `Write` (or
`Skip`, with `--dry-run`) and `Reread`. The service is external: `Store` bumps the
generation, `Accepted` compares it; a consumer without allocations is forgotten
and starts again without a generation. Others (`Meddle`) write what they like, at
any moment. The service's validation of amounts is left out: it could only make
it refuse, as a fault does.

`AtomicUpdate` is the contract: reading, editing and writing a target are one
step.

### Create, set, unset and act

`EditSteps` has the steps of the commands that create a resource or change one.
A row of `EditHandlers` (set and unset), `CreateHandlers` or `ActionHandlers` is
the sequence of the steps of one Go function: arguments checked, the resource
looked up, a request sent if the command line concerns it, one request per key.
A step says what its request does to each part of the resource: adds the named
keys, writes the part back as read with the named keys merged in, empties it, and
so on (`Effects`); and whether its failure stops the command, is counted, or
leads to a show of what there is already (`--or-show`). The parts are abstract
("fields", "list", "profile", "tags"...), and a handler's several lists are one
part: the command line of a run is about one of them. Of quotas the parts are the
three services. Where a check stands between two requests it is a step of its own,
for a command that stops there has done half of its work. The functions that put
a request together of the options (`...Values`) are such a check: they look names
up, and may refuse.

`ResourceEdit` executes a row of a table: one action per kind of step, with
`item` for the Go local of the reading and `content` for what the service has.
Every request may be answered, refused, or be carried out and its answer lost.
`Attempt` is the request that is sent to a second address if it fails at the first.
A part whose options the code accepts and does not act on is `Neglected`: by a step
of kind "ignored", or by one with the effect "merge", which leaves an empty map out of
the request and so does not empty the part.
`Meddle` is another user who changes a place, `Repeat` the user who gives a
failed command again. `before`, `touched` and `raced` are history. That a service
answers a removal of what is not there with an error is a refusal like others.

### Reading

`ListHandlers` and `ShowHandlers` have the program of each command that lists or
shows: one definition per Go function, made of the steps of `ReadSteps` in the
order in which the function makes its requests. The steps tell apart what the
code tells apart: whether the failure of a lookup ends the command or lets the
argument go out as it was given, whether a listing follows the links between its
pages, whether a row is asked for again and what happens if that fails, whether
the second reading of a show may fail; and of a lookup which two requests it makes,
which failure of the first leads to the second, and whether one of several is taken
(`by`). `ReadHandlers` collects the commands and
gives the programs of a run: a command is given one of the options that say what
is listed, or none.

`ReadCommand` executes such a program in a cloud in which other users rename,
make, delete and move things between any two requests (`Meddle`). `Page` is one
reply of a listing that goes on behind the marker of the last; `OneReply` a
listing that does not look for a next page, whose reply the service may have cut
off; `LookAgain` and `Resolve` the two requests of the lookup of an argument, between
which the cloud may change, `Each` the request for one row,
`ReadNames` the map of names, `FindThing`, `GetThing`, `GetAgain` and `ReadMore`
the readings of a show. `seen` has every state the cloud was in while the command
ran, for a table can only be true of those; `excuses` collects the reasons for
which it may lack something. That markers of pages are compared by their place in
the listing, and that a deleted marker is an error, is how the services of the
cloud do it; the columns, the sorting and the rendering are left out.

### The lifecycle smoke test

`LifecycleSuites` has each suite as a program: the commands it runs with the CLI,
those it runs with the Python client next to it, what it creates, from what, when
it registers a cleanup and drops one, and where a failure leads. `Lifecycle` runs a
program: `Command`, `AddCleanup`, `DropCleanup`, `Condition`, `mustWaitDeleted`, and
for `cleanupAll` `Sweep` and `SweepEnd`. The cloud may refuse a command, lose its
answer, answer without an ID or so that it looks like "not found", and may
accept a deletion and then give it up (`Settle`); the two clients may differ.

## 4. Runs

| run | what it asks | size |
|---|---|---|
| `bulk_commands` | every handler of the table with every choice of its options (many are the same record), two resources with every assignment of names, one named like the other's ID included, one or two arguments, one failing argument, one resource others touch; the commands end and keep `BulkContract`, waited deletions included | 947 thousand states, with liveness |
| `server_wait` | the waiting handlers and those that differ without `--wait`, over clouds that show the task or hide it: success, failure and timeout mean what they say; they end and keep `BulkContract` | 264 thousand states, with liveness |
| `server_unshelve_wait` | violation: a server shelved while stopped is unshelved, and the wait times out | stops at the first error |
| `project_cleanup` | all options, one fault, two servers and a group, all of which others may touch: a member may come between listing and deletion | 2.3 million states |
| `placement` | every record of the table over two targets with two keys, two updates by others, one fault | 304 thousand states |
| `placement_atomic` | the guarded commands keep `AtomicUpdate` | 280 thousand states |
| `edit` | every distinct row of the three tables, two keys per part, up to two named, up to two parts concerned; one change by others or one repetition | 867 thousand states |
| `port_set_lost_reading` | violation: a failed reading empties the binding profile | stops at the first error |
| `lifecycle` | every suite, up to two things going wrong anywhere in it | 112 thousand states |
| `lifecycle_leftover` | violation: two groups that are created but look different are left behind by a suite that passes | stops at the first error |
| `reading` | every list with one of its options or none and every show, two things with one name, with a name each, one of them the ID of the other, or one of them not there yet; three items in pages of two, two changes by others and one failed request | 3.5 million states |
| `reading_limits` | violation: `limits show --project` shows the caller's volume limits | stops at the first error |

Deadlock is checked where a run has a step for having ended (`lifecycle`); the
others end with a command that has returned. That commands do return is
`Terminates`.

Every property of a passing run has a mutant in `PROJECT.json`: a definition
that differs from a modelled one as a plausible slip in the Go code would (a
`continue` for a `return`, a counter not increased, the deadline computed per
poll). Under the mutant TLC finds the property violated, so the property
constrains the code and not only the model. Mutants stand before the definition
they replace and are used by nothing else.

### Bounds

Two resources are enough for every pair of properties: what distinguishes one
argument from another is whether they are the same, whether one is named like
the other, and whether a name is shared; all three happen with two. Two
arguments let a failure or a leftover of the first reach the second. One fault
and one meddled resource put every single disturbance at every request; a cleanup
has three, for a membership concerns a server and its group at once. The
proofs below do not have these bounds. Two updates by others let a
consumer be emptied and filled again between two requests; two keys tell an edit
of one from a replacement of all. In the edits two keys let one be named and one
not, in the same part; two parts let the failure of one step meet the next; a
second named key makes a removal one by one stop half way. There is one change by
others or one repetition; the theorems allow any number of both.

Pages of two and three items make a full page, its link and a rest; two changes
between requests let an item leave one page and enter the next, or a name go from
one thing to another. A smoke test is long and its faults are independent of each
other but for the sweep: one fault starts it and the second meets it.

### Fairness

`FairSpec` adds weak fairness of `Client /\ NoFault`, for the process runs and an
HTTP request is answered or fails in the end, and of `Expire`, for time passes.
(Fairness of `Client` alone would let a wait end by a request that must fail.)
Nothing is assumed of the cloud: `Finish`, `Reap` and `Meddle` may never happen.
A command must end all the same; that is what the deadlines are for, and a
mutant that computes the deadline at every poll violates `Terminates`.

## 5. Proofs

All theorems hold for any sets of resources, argument lists of any length, and
any bounds on faults and on other users.

`BulkCommand_proofs`. `IInv` strengthens `TypeOK` by `Position` (where in the
loop the program counter may be), `Aimed` (the target belongs to the current
argument), `Awaiting` and `Books`: the executed arguments are among those the
loop has reached, and the arguments left behind are covered by executions and
counted failures. `ReportIsHonest` alone is not inductive: it says nothing
before the report. From `Books` follow `Honesty` and, with a second invariant
for the handlers that stop, `StopsAtFirstError`. `ImplementsContract` maps every
step to a step of `BulkContract` or a stutter, for the same `IInv`. Assumptions:
those named in `BulkCommand`, of which the only one with content is that the
placeholder for "no target" is not a resource.

`BulkTargets_proofs` is about single resources. `CloudMoves` says what any step may
do to the cloud, and `Route` which requests a lookup can have reached. On these rest
an invariant for each property, which says the same of the target being worked on
as of those settled. `Targeted`: it is denoted by its argument. `Awaited`: with
`--wait` and no failure counted, every server that was deleted is remembered until
it is gone. `IdsFirst`: it is the ID that was given, unless a request by that ID
missed. `Refusing`, with `OurDoing` for what the command itself has removed: the others of
that name were addressed before. `Fates`: an argument left behind was settled,
failed in a request of its own, or denoted nothing. Two of them assume something of the
table of handlers, which TLC evaluates: `WaitsForDeletes` (only deletions are
waited for, and none that takes a missing resource for done) and `ListsShowIds` (a
finder whose listing matches IDs as well as names lists every project).

`ServerWait_proofs`. `IInv` is `TypeOK`, `Position`, `Tracked` (an accepted
operation that is pending is the task the server has, so a server without a task
has nothing pending) and `Behind` (every argument behind a waiting handler went
well). `HandlersAssumption` says of the table that no handler waits for a status
a failed operation leaves behind, and that a status it takes for a failure is one
that only failures lead to; TLC evaluates it on the table of the runs. That
assumption and `Landed` (a server whose operation succeeded while the command polls
it has a status in which successes end) give `FailuresAreReal`; `DeadlinesComeLast`
holds because the poll behind the deadline still looks at the server.
`TimeoutsAreReal` is about the handlers that wait for every status in which their
operation may end well (`Expects`). `Arrived`: where nobody else touches servers, an
operation that has succeeded has left the server that is polled in one of those
statuses; it needs `AtLast` (only the last action of a handler is waited for) and
`Shelving` (a server that is being offloaded under a poll was shelved by it). `Patient`
adds that a command that timed out has ended. The handlers that do not meet
`Expects` wait for one status where there are two: `OneStatusOnly` names them, TLC
evaluates it, and the run `server_unshelve_wait` shows what becomes of one.
`ImplementsContract` maps each step to one of `BulkContract`: the cloud's acceptance of
the last action for an argument deals with it (`Deals`), a step that gives up fails
(`Fails`), the last one ends (`Ends`), and all others stutter (`Stays`); `Books` says
which arguments are accepted at every place of the program.

`ProjectCleanup_proofs`. `IInv` is `TypeOK`, `Seen` (what is to be deleted or
was, was listed), `Phases` (approval precedes deletion and excludes the dry run)
and `Own` (the list keeps to the project, where groups name theirs). The report
needs `Distinct` (nothing is listed twice, or deleted before its turn), `Stages` (what
may be known at each stage) and `Account`: once approved, what was listed is still to
come, counted as a failure, or deleted. What is left behind needs `Complete` (behind
the listing of its kind a resource is on the list or there is a reason), `Unused` (a
group on the list had no member when the groups were listed, and has members only
from others) and `Going` (what was deleted and is there
is going, or came again).

`Placement_proofs`. `Fresh` says that the generation of a target the command has
not written never falls behind the one that was read, and is ahead of it once
others have written; with the service's check, `OnlyWhatWasSeen` follows. `Books`,
`Counted` (every target left behind is updated or counted) and `BaseFresh` (what
was read is still there while the generation stands still) give the step
simulation of `AtomicUpdate`. It assumes that no consumer is emptied meanwhile and
that what is made of a reading carries a generation: `allocation unset` below
version 1.28 of the API does not, and is not atomic. `NoneIsLeftOut` rests on `Same` (a
provider of an aggregate that nobody updated still has the generation of the listing)
and `Reasons` (one that was missed was updated by others, or its own request failed).

`ResourceEdit_proofs`. One lemma, `ClientStep`, says what any step of the client
may do to one place of the resource and of the reading. `NothingIsMadeUp` needs
`Between`: the reading too holds only what there was or what is asked, else
writing it back would do harm later. `OthersAreUndoneOnlyInRaces` needs
`UpToDate`: what is not to be changed and was not changed by others is read as it
is. Both assume of the table that no step drops what it has not read (`Keeps`),
and both except a binding profile whose reading failed
(`Misread`). They hold for any table whose steps are of the kinds and effects of
`EditSteps`. `SuccessIsAsAsked` needs `Progress`: while nothing has failed, what the
steps behind were to give or to drop is given and dropped (`Given`, `Emptied`, and
`MidWay` for a step of many requests), and a place holds what was read of it until it
is written (`Known`). It assumes `Thorough` of the table: each option has a step that
does it whenever it is used, from a reading that is not older than the command's own
writes where it depends on one, and no later step that drops it. TLC evaluates that
on the whole table.

`ReadCommand_proofs`. `Position` says where the marker may be set and that a table
is printed behind the last step. Each property then has an invariant that relates
what has been collected to the steps behind the next one. `LooksBack` says what the
first request of a lookup has told, when the second is to be sent: nothing had that
ID, or the request failed, or what the first match was. From it follows `HitIsMeant`:
what a lookup finds is meant by the argument (`HasMeant`), by its ID, or by a name that
no other thing had and that was no ID of another at some time while the command ran
(a lookup of two requests cannot know more), or as a first match. `NamesRead`: the map of
names is that of one state of the cloud, or is empty and why is known. `Showing`:
the thing shown was meant, its label and detail were its own, and after `more`
nothing is looked up again. `Placed` and `KeySent`: a row was there, and belongs to
a thing that was meant, or a step that compares it is still ahead. This theorem
assumes `Narrows` of the programs: every listing goes out restricted, or its rows
are compared afterwards. TLC evaluates that, as it does the other assumptions, on
the whole table; the program of `limits show --project` does not meet it.
`NothingIsLost` needs two invariants. `KeyRight`: what is sent for an argument that
means one thing all along is the ID of that thing. `Had`: what belongs to it all along
is in the table once a listing of its service is over, or its marker has passed it.
Two lemmas about pages carry the step: a page holds all there is up to its last item
(`PageIsDense`), and one that is not full holds all there is (`LastPageIsWhole`).
The theorem assumes `Covers` of the programs, which TLC evaluates on the table: the
listings of a command ask every service, and rows are dropped only for what was
looked up before.

`Lifecycle_proofs`. `Past` says that what was registered, and what was dropped, are
steps that lie behind; `Stack`, that what was registered and not dropped is on the
stack or was run, once; `Order`, that what is made lies above what it is made from,
and is run before it. The first gives the second: a step registers nothing that
the stack has had. `RegisterAssumption` says of the programs that they register a
resource once, drop no cleanup they still have to register, and register in the order
in which they make; TLC evaluates it on the seven suites. Nothing is assumed of the
cloud, nor of how often things go wrong. `HonestReport` is about the moment a cleanup
is taken from the stack. `DropAssumption` says of the programs, and TLC evaluates it on
the seven, that each such step has a deletion, or the wait for its end, before it, that
the suite does not reach the one but through the other (no block lies between them that
could be left behind the deletion and in front of the drop), and that the resource is
not made again. `Dropped` follows the suite from the deletion to the drop: there the
resource is `Done`. It needs what `Leave` skips (`OnlyThrough`) and what a verdict of
"next" says of a deletion (`DeletionDone`). `Swept` says the same of a sweep without a
failure, and `Asked` that the report asks for a cleanup while there is one on the stack.

`StepsRunOut`, in `BulkCommand_proofs` and `ServerWait_proofs`, is the part of
`Terminates` that needs no fairness. `Left` bounds what a command may still do from
its place in the program: every step of the client and every deadline makes it less
(`Shortens`), the cloud and other users leave it as it is, and it starts at nine or
six per argument. A poll that finds the operation going on changes nothing and is no
step; only the deadline, which is one, ends those.

Only model-checked: that a command which may go on does (`Terminates`), since
fairness is out of the prover's reach.

## 6. Where the code and its promises differ

The violation runs show four such places; `findings` in `PROJECT.json` quotes
the lines.

- `server_unshelve_wait`: the wait for an unshelved server knows one status only,
  and times out for a server that was stopped when it was shelved.
- `port_set_lost_reading`: a failed reading is taken for an empty binding profile.
  This one takes a failed request; the others are reachable without a fault.
- `lifecycle_leftover`: what a pair of creates made is not registered for cleanup
  when the outputs of the two differ.
- `reading_limits`: `limits show --project` tells only the compute service whose
  limits are asked for.

Known, and not shown by a run: `project set --tag` replaces the other tags of the
project; `server shelve --offload` asks for the offload while the shelving goes
on, and may be refused; the cleanup of a project takes groups of servers that name no
project for its own where the API is too old to say whose they are, and deletes a group
that got a member since the listing.

Options that are accepted and do nothing (`Neglected`, which `AsAsked` excuses):
`quota set --class` or `--default` with quotas of the network service
(`common_read.go:302`), and `--no-property` without `--property` of `volume set`,
`volume backup set` and `volume snapshot set` (`core_read.go:9996`, 10305), whose empty
map the request leaves out.

`volume transfer request create` posts a second time, to an older address, after any
failure of the first, a lost answer included (`core_read.go:12732`): two transfers may
be the result. The deletions of metadef objects, properties and
associations report "n of m failed" with the length of the namespace's name for m
(`core_read.go:4514`, 4654, 4849): `ReportIsHonest` is, for them, about the arguments.

Of volume groups, their types and snapshots, and of consistency groups and their
snapshots, a show takes the first listed with the ID or the name
(`core_read.go:12225`, 12616, 12392, 11510, 11666), without regard to
others of the same name; so does `consistency group snapshot list
--consistency-group`. `HasMeant` asks less of those.

Where a failure or an old API hides from the program what it would have to know, no
property can promise the better outcome, and the one next to it has an exception:
a failed reading by ID, after which the name decides; a status ERROR from before the
operation; a consumer that was forgotten and came back; a deletion that the cloud
accepts and then gives up. These stand in `hazards` without a property and with a
note.

## 7. Not modelled

- Formatting: table rendering, columns, sorting, colours, the progress bar.
- Option parsing, configuration and login, HTTP and JSON, which the libraries do.
- The values a request is made of, beyond their being put together of the options
  and of what was read; the bytes of uploads and downloads. That an option with an
  empty value is taken for one that is not given.
- `project set` with tags, `object set` and `unset`, `image metadef object update`
  and `consumer set`: what becomes of what the request does not name is a matter
  of the service and not in this repository. `image metadef resource type
  association delete --force`, which opens the namespace for one deletion, is in
  `BulkHandlers` without `--force` only. `consistency group add volume` and its
  counterpart, which leave out the volumes they do not find.
- `endpoint delete`, whose lookup goes by the ID or name of a service.
- Host keys and SSH, plugins (they only add commands to the tree), the tools for
  catalogs, matrices and comparisons, and recorded data.

`components` in `PROJECT.json` gives the reason for each part, and section 2 what
is still to come.
