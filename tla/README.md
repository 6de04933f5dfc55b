# Formal models of the `op` secrets engine

`openbao-plugin-secrets-onepassword` is an OpenBao plugin that serves 1Password
items. It keeps one in-memory replica per vault, refreshed by *delta cycles*
(list the items, fetch what changed), folds its own writes into the replica,
paces every request with a *rate governor*, and keeps nothing but its
configuration on disk. All of it runs in goroutines of one process: requests,
the periodic function, and whatever joins a cycle in flight.

This directory holds TLA+ models of that code, configurations that check them
with TLC, and proofs checked by TLAPS. Paths below are relative to the
repository.

## 1. Inventory

| Component | State | Operations | What is hard |
| --- | --- | --- | --- |
| Vault replica, `backend/replica.go` | `overview`, `bodies`, derived `titles` and `splitPaths`, `tombstones`, `negativeCache`, `lastCycle`, `staleSuspect`, `invalidatedAt`, `consecutiveFailures` | `applyWrite`, `applyDelete`, `invalidate`, address resolution, negative cache | three kinds of writer (cycle, write, delete) with data of different ages |
| Delta cycle, `backend/cycle.go` | `inflight` and `cycleResult`; `active`, `toFetch`, `toRemove`, `results` as locals | `runCycle` (single flight), `doCycle` | the lock is released for each request: what was listed is stale when it is applied |
| Writes, `backend/writes.go` | locals of a handler | create, update, delete an item; update a field | 1Password and the replica change in two steps; a lost answer; no compare-and-swap |
| Rate governor, `backend/governor.go` | `state`, `resumeAt`, `backoff`, `clientInit`, `events`, limits, the probe's last result | `allow`, `recordRequest`, `recordSuccess`, `clientInitAllowed`, `recordClientInitResult`, `reconfigure`, the probe | asked before and told after, with anything in between; overlapping windows of time |
| Configuration, `backend/config.go`, `paths_config.go` | the storage entry | validate, `applyConfig`, read | a network call, a storage write and a swap in memory, which may fail or be cut off in between |
| Backend, `backend/backend.go` | `config`, `client`, `vaultDirectory`, `allowlistIDs`, `replicas` | `ensureClient`, `refreshVaultDirectory`, `coldStart`, `periodic`, `initialize`, `runVaultCycle`, the read path's `ensureItemFresh` | state read before a handshake and used after it; recovery only by retries |
| `op/refresh`, `op/invalidate` | none of their own | a cycle of one or all vaults; expire freshness | meet cycles in flight |
| Reads and listings, `paths_item.go`, `paths_field.go`, `paths_items.go`, `paths_vaults.go` | none of their own | resolve, freshen, answer | the freshness window, the ceiling, stale serving and the negative cache |
| Status, `paths_status.go` | none | read-only report | - |
| SDK wrapper, `opclient.go` | none | chunked `GetItems`, forwarding | one chunk of several fails |
| SDK fake, `opclient_fake.go` | items by vault, as 1Password would hold them | what the code relies on in 1Password: listing, versions, create, whole-item put | - |
| 1Password | items, versions, tokens | external | changed by others at any time |

How they interact. A read, a write's miss, `op/refresh` and the periodic function
call `runVaultCycle`, which needs a client (`ensureClient`) and joins or leads a
cycle of that vault (`runCycle`). The leader asks the governor once (`allow`),
calls 1Password, tells the governor what it spent and how it ended
(`recordRequest`, `recordSuccess`) and changes the replica under its mutex. A
write asks the governor, calls 1Password and changes the replica itself, without
the cycle's lock. A configuration write builds a client, stores the configuration,
swaps both in, and tells the governor (`reconfigure`). A restart loads the
configuration and starts from empty replicas.

What makes each part correct:

- replica, cycle, writes: index and bodies agree; a body is never replaced by an
  older one; a write the caller was told of is served; a deleted item stays away;
  what raced or failed is repaired by later cycles; concurrent triggers coalesce
  and all return;
- governor: a 429 is respected to its horizon; the hourly limit is overshot by a
  bounded amount only; no failure blocks longer than its window, so the engine
  recovers alone; `auth_failed` lasts until the configuration is rewritten;
- configuration and backend: what is in force is durable and is what a restart
  loads; the client and the vaults served are the configured ones; an empty engine
  becomes warm, and stays warm, without an operator;
- reads: an answer is no older than the configured policy allows, a miss costs at
  most one cycle, an address means the same item to reads and writes.

The full list of hazards, each at its line, is in `PROJECT.json`.

## 2. Modules

| Module | What it is |
| --- | --- |
| `VaultReplica` | one vault: 1Password, the replica, `runCycle`/`doCycle`, the write handlers, invalidation, restarts |
| `Coalescing` | what `runCycle` promises its callers; `VaultReplica` implements it (`Coalesces`) |
| `Governor` | the governor and the cycles, writes and client constructions it paces, with a clock |
| `Usage` | the recorded units, their two windows, `usagePct` and the probe that feeds it |
| `ConfigStore` | what a write of `op/config` promises; `Engine` implements it (`ConfigWrites`) |
| `Engine` | configuration, client, directory, the timer, requests, restarts |
| `ReadPath` | how a request gets its answer: freshness window, negative cache, the cycle it leads or joins, the upsert that creates what it misses, invalidation, config writes; with a clock |
| `ItemWrites` | addresses, the index of split paths, the merge of fields, and the update and create requests, while `path_split` changes |
| `VaultReplicaProofs`, `GovernorProofs`, `UsageProofs`, `EngineProofs`, `ReadPathProofs`, `ItemWritesProofs` | theorems and proofs about these modules |
| `ItemLemmas` | what the operators of `ItemWrites` do: the index, addresses, the order and the merging of a body |
| `InductionLemmas` | induction, extrema, folds, sorting and sums, in the form the proofs cite |
| `MCVaultReplica`, `MCGovernor`, `MCUsage`, `MCEngine`, `MCReadPath`, `MCItemWrites` | constants and symmetry for TLC |

The components meet in the code at narrow calls, and each model keeps the
others at the width of that call. `VaultReplica` lets the governor deny any cycle
(`GateDenies`). `Governor` sees a cycle as the answers of its two requests.
`Engine` sees a cycle as one answer and keeps of the governor only `auth_failed`,
the state that does not end by itself; the others appear as calls that fail or
are denied a bounded number of times. `ReadPath` keeps of a body only whether the
replica holds it, since versions and tombstones are `VaultReplica`'s, and lets the
governor refuse a cycle, or usage be above the ceiling, at any time. `ItemWrites`
keeps whole items and takes a successful cycle in two steps, which is as much as
the index of split paths can see of one.

### VaultReplica

A step is one section of `v.mu` or `v.cycleMu`, or one request seen at the moment
1Password serves it. `RunCycle` is the first section of `runCycle`; the leader then
goes through `ListItems`, `Diff`, `GetItems` (once per chunk of `ChunkSize`; each ID
may fail by itself), `Apply`, `Unpublish` (`v.inflight = nil`) and `Release`
(`wg.Done`, after which leader and followers return), or leaves early by
`GateDenies` or `RequestFails`. A write handler is `Locate`, `CreateItem`/`PutItem`/
`DeleteItem` (1Password has done it), `ApplyWrite`/`ApplyDelete` (the replica has it),
or `WriteFails`, which includes the write that was done and whose answer was lost.
`ChangedElsewhere` is every other user of the vault: it creates, edits, archives,
restores and deletes.

1Password gives every edit a new `Version` and a later `UpdatedAt`, so one number
stands for both; `overview[i]` is the `UpdatedAt` the index holds, `bodies[i]` the
`Version` of the body, and `Absent` (0) stands for a missing key.

`freshness` is what the timer looks at before it cycles the vault. `PassedOver` is a vault
that holds items and has no `lastCycle`, because it was invalidated or because a write
put an item into it before its first cycle: `coldStart` and `periodic` both skip it, and
only a read, a refresh or a write that misses cycles it.

History variables record promises, not code: `acked` is the version a caller was
told is written, `gone` the items whose deletion was folded in; `raced` and `revived`
mark the two holes of section 5.

### Governor

The clock ticks, and every instant is kept as the number of ticks left until it is
reached, so that `now.Before(x)` is "the countdown of `x` is not 0" and the clock
itself needs no bound. The `events` slice is kept as the units recorded at each age
below one hour (`spent`).

A caller runs a cycle (`Begin`, for a read, a refresh or the timer) or a write
(`BeginWrite`, with `beginWrite`'s own `allow`), and is at one step of it:

- `client`, `connect`: `FindClient` is `ensureClient` up to the factory, `Connected` and
  `ConnectFails` its answer. A write that has its client looks for its item
  (`locateItem`): it finds it, or ends, or runs a cycle of its own through
  `ensureItemFresh` and `runVaultCycle`;
- `ask`, `wait`: `Ask` is `doCycle`'s `allow`, `Join` the caller that meets a cycle in
  flight; a write that joins waits for it;
- `list`, `get`: `FirstAnswer` and `CycleDone` are the answers to `ListItems` and to the
  `GetItems` calls, with the `recordRequest` and `recordSuccess` they cause;
- `lookAgain`: when the cycle has ended, was denied or has failed (`CycleEnds`), the
  write that asked for it, and those that joined, look once more (`LookAgain`);
- `fetch`, `put`: the write's own calls, answered by `FirstAnswer` and `WriteDone`.

`CallFails` is an answer that is an error: `limited`, `auth` or `other`, as
`classifyError` sorts them. History: `embargo` is the last 429's horizon, nothing once
an auth failure came after it, and `longest` the longest refresh interval that has been
in force in this process.

Three things are narrower than the code. `Reconfigure` is `applyConfig`'s swap of the
client and `governor.reconfigure` in one step, and `Init` starts with a configuration;
`Horizon` leaves out the branch of `rateLimitResumeAt` that reads "retry in N" from the
error (`governor.go:495-507`), which the SDK in use never sends; and with limits below
five units the burst brake denies nothing that the limit does not, so the run does not
tell the two apart (no property is about the brake).

### Usage

The clock counts up here, and a unit is its instant. `stamps` is every unit recorded
since the start and `first` the place from which `events` still holds them, which is
what slicing `events[i:]` does; so a proof can speak of the units that were pruned.
`RecordRequest` appends and prunes, `Prune` is what `allow`, `usagePct` and `snapshot` do
before they count. `ProbeDue`, `ProbeStarts` and `ProbeFails`/`ProbeAnswers` are the
three sections of the mutex in `runProbeIfDue` and `probeNow`; one timer calls them. What
the command prints is a percentage from `Percents`, or a row without a limit. `measured`
is history: whose percentage was stored, and how many config writes there were when its
probe began.

### Engine

`BeginWrite`, `BuildClient`, `Put`, `Swap`, `Reconfigure` are the steps of
`applyConfig`; `EnsureClient`, `ClientBuilt`/`ClientRefused` those of `ensureClient`;
`ListVaults` ends `refreshVaultDirectory`, `Cycle` ends `runVaultCycle`;
`RefreshDirectory` and `PeriodicCycle` are what a tick of the periodic function
starts, `Trigger` what requests start. A replica is `cold` (no items), `cycled`, `due`
(its last cycle is `refresh_interval` old) or `invalidated`. Every modelled vault
holds items: a truly empty one would count as cold for ever (`coldStart` tests
`itemCount() == 0`). `durable` and `unread` are history: the configurations that
reached storage, and whether the last start could read it.

`ConfigStore` sees storage, the configuration in force and each writer's call: asked,
kept, effective, out. `WrittenAhead` maps a writer to it by the step it is at (`Calls`);
the client, the directory, the replicas and every request are invisible to it.

### ReadPath

All requests ask for one address, a title; `Titled` are the items that bear it. A
request carries what `ensureItemFresh` takes at its start, the configuration (`cfg`)
and `now` (`start`), and passes `Resolve`, then `Judge` if the item is known
(served from the window, or a cycle), or `MissUnasked`/`MissKnown`/`MissAsked` if it is
not (passthrough off, a hit of the negative cache, a cycle). `LeadCycle`, `JoinCycle`
and `NoClient` are the ends of `runVaultCycle`; `LookAgain`, `Count`, `EmptyVault` and
`StoreMiss` what follows it. A reader then goes through `CheckStale`
(`checkServeStaleAllowed`), `ReadBody` and `ReadMeta`, two sections of the mutex; an
upserter through `CreateItem` and `ApplyWrite`. `Invalidate` and `ClearMisses` are the
two sections of `invalidate`, `WriteConfig` the swap of `applyConfig`.

The clock may tick between any two steps, and `now`, `lastCycle` and the stamp of the
negative cache are ticks; a zero `time.Time` is `Never`. History variables say what an
answer rests on: `heard` is `listed` when the request led a cycle that fetched every
item and `window` when it was served within the freshness window; `born` is when an item
appeared, `lastApply` when a cycle last succeeded; `unheeded`, `early` and `overtaken`
follow an invalidation until data listed after it is applied.

### ItemWrites

An address is a sequence of segments, a title a member of a small set, and what
`splitTitle` makes of a title under a `path_split` is the constant `SplitAt`. The index
`splitPaths` is state, as in the code: it is rebuilt, with the items met in any order
as by the loop over a map, when a write or a cycle is folded in, with the `path_split`
that this writer or cycle took before its call. `resolveItemAddress`,
`resolveItemFromSegments`, `resolveSplitPath`, `resolveFieldAddress`, `lookupField`,
`applyFields` and `parseFieldWrites` are operators under the source's names. A writer
goes through `beginWrite`, `locateItem` (twice, with a miss between), `fetchFresh` and
`PutItem`, or `CreateItem`, and `applyWrite`; `Fails` is any call that does not answer.
1Password's side follows the fake: a put stores the whole item that was sent and
raises the version it finds. `touched` is history: the item changed in 1Password after
the writer fetched it.

Fields and sections are sequences, as the slices are, and a search takes the first hit.
A section's random ID is the number of sections when it is made, so `WellFormed` can say
that the IDs of an item's sections differ. A body is a set of writes that names a
section's label once (an object of objects, `parseFieldWrites`), and `Alphabet` is the
order `sort.Slice` puts it in; a body's labels and section titles are not empty, which
`add` and `sectionMap` reject (`writes.go:264`, `writes.go:224`).

## 3. Runs

| Run | Instance | Shows |
| --- | --- | --- |
| `replica` | 1 item, 2 callers, 2 writers, 2 changes in 1Password, 1 fault, fair | `IInv` and its parts, `AckedWriteVisible`, `DeletedStaysGone`, `BodyNeverRegresses`, `EveryCallReturns`, `Converges`, `Coalesces` |
| `governor` | 1 vault, 2 callers, an hour of 2 ticks, limits 1 and 3, intervals 1 and 2, 2 faults, 1 rewrite, fair | `HourlyBudget`, `RateLimitHeld`, `BlackoutBounded`, `Recovers` |
| `read_path` | 2 items, 1 of them titled, 1 reader, 1 upserter, 3 configurations, 3 events | `MissIsJustified`, `ColdIsNotAbsent`, `WindowHolds`, `SuspectIsTold` |
| `item_writes` | 2 items and 2 new ones, 4 titles, `path_split` unset and then ".", 2 writers with 4 requests, 1 edit, 1 rewrite, fair | `ReadBack`, `KeepsTheRest`, `IndexIsExact`, `AddressesAgree`, `SplitTakesEffect` |
| `engine` | 1 vault, 1 unlisted entry, 2 tokens, 1 config writer, 1 request, the timer, 2 writes, 2 faults, fair | `InForceIsDurable`, `ConfigIsStored`, `ConfigWrites`, `Recovers` |
| `usage` | an hour of 1 tick, a day of 3, 5 ticks, 3 units, 2 tokens, 3 configurations, 2 rewrites, 1 restart | `CountsAreExact`, `ProbeOnlyTightens`, `ProbeIsOfConfig` |
| six more | | the findings of section 5, each a counterexample |

Why these bounds. Two callers are a leader and a follower, and a leader that has
unpublished beside a new one. Two writers and two changes in 1Password, made by them or
elsewhere, give the orders of create, update, delete and their folding against a cycle.
One item is enough for the replica's properties, each of which is about one item at a
time; that a cycle on several items, fetched chunk by chunk, keeps them is what the
proofs show, which are for any `Items` and `ChunkSize`. One fault is enough for a
denial, a failed request, a failed item, a lost answer or a restart at every point; two
faults in `Governor` give a 401 and a 429 of two calls, or two consecutive failures.
With an hour of two ticks a limit, a backoff and the hourly window end at different
ticks. Limit 1 is the boundary where one unit fills the window, and 3 is one that a
write with its cycle overshoots by itself. An interval of one tick cuts the second
backoff delay and an interval of two does not, and the rewrite goes from either to the
other, also in the middle of a backoff. On one vault two writes share a cycle, so the run
stays two units below the bound of `HourlyBudget`; two writes on two vaults attain it,
and the theorem is for any number of vaults. Two tokens and two configuration writes make
one rotation; what concurrent configuration writers do to each other is covered by the
proofs of `InForceIsDurable` and `ConfigWrites`, which are for any number of them.
`MaxFailures` caps a counter that only the capped delay reads.

In `Usage` a day of three ticks and a clock of five let a unit age past the hour, past the
day, and be pruned late; two rewrites put another token in force and take it back, or
remove the probe and ask for it again, between any two steps of the timer.

In `ReadPath` an item that bears the title and one that does not tell an empty replica
from one that lacks the item; a reader and an upserter are a leader and a follower of
one cycle, and one of them can store the miss the other finds. Of the three
configurations one has windows of a tick, one `passthrough_ttl` and
`negative_cache_ttl` 0, and one has `passthrough` and `serve_stale` off; `always_fresh`,
which only adds cycles, is left to the proof. Three events are the shortest way to each property's edge: an item
appears, an invalidation comes or a tick passes between two steps, with one fault beside
it. In `ItemWrites` the titles "a.b" and "a/b" have one split form, which the item "a"
with a field "b" is an address of too, and one title is the ID of another item; a
renamed item and a created one make three bearers of a split path, the case in which the
order of the loop could matter. One rewrite of `path_split` leaves a writer or a cycle
with the older one.

Two instances start in fewer states than their modules allow: `read_path` with
passthrough on with a window of one tick and an item of another title present, since a
config write and a removal take them away, and `item_writes` with `path_split` unset, since the rewrite sets it.
That a `path_split` can be taken away again, or replaced by another, is not checked. The
proofs about `ReadPath` are for all of its initial states.

Every bound appears as a constant and only limits how often something external, or an
operator's write, may happen.

`CHECK_DEADLOCK FALSE` appears in the `Engine` runs only: with faults, writes and
invalidations used up the engine may rest.

## 4. Fairness

- `VaultReplica!FairSpec`: a leader's next step is taken (an SDK call returns, with an
  answer or with an error; a goroutine that can run does), and the timer cycles the vault
  again and again as long as it is not `PassedOver`. A vault that is passed over for good,
  invalidated and never read or refreshed since, is not cycled by anything
  (`InvalidatedIsRefetched`, section 5), so `Converges` excepts it: the replica ends up
  exact, or passed over for ever. Nothing makes anyone read, refresh, write, edit or
  invalidate.
- `Governor!FairSpec`: time passes; a caller's next step is taken and its calls
  return, under the context of the request or of the periodic function. Nothing
  makes a caller begin: `Recovers` says that a caller would be let through.
- `Engine!FairSpec`: calls return, OpenBao keeps calling the periodic function, and
  strong fairness of `PeriodicCycle(v)` says that one call visits every allowlisted
  vault in turn: a vault that is due at tick after tick is visited, although the
  timer is busy with other vaults in between.

- `ItemWrites!Fairness`: cycles start, succeed and end again and again, which is what
  the timer and `Governor!Recovers` give for a vault that is not left invalidated and
  unread (the module has no invalidation); a writer may stop anywhere. `SplitTakesEffect`
  then says that a new `path_split` reaches the index, although a write that took the
  older one may rebuild with it meanwhile.

Faults are bounded in number, so the liveness properties read: once faults end.

## 5. Where the code and its documents differ

Each is a run that TLC finds violated; `PROJECT.json` quotes the sentence.

- `ReadYourWrites`: a cycle that listed before a `CreateItem` and diffs after its
  `applyWrite` drops the created item (`cycle.go:155`). `AckedWriteVisible` is the same
  statement with exactly that race excepted (`raced`), and it is proved. The next
  cycle repairs it (`Converges`).
- `AuthFailedSticky`: a 429 after a 401 overwrites `auth_failed` and expires to
  `normal` (`governor.go:288`).
- `ClientIsConfigured`: `ensureClient` may publish a client of the configuration it
  read before a rewrite (`backend.go:165`).
- `InvalidatedIsRefetched`: the periodic function never cycles an invalidated vault
  (`backend.go:613`).
- `ReadBackAlways`: a label written without a section goes to the top level, and is read
  back from the first field that bears it, which may be in a section
  (`paths_field.go:150`, `writes.go:325`), where the plan promises that an immediate read
  returns the new value. `ReadBack` is the same statement with exactly that case excepted
  (`Shadowed`), and it is proved.
- `NeverDropsData`: `PutItem` sends the whole item as `fetchFresh` got it and names no
  version, so a change made in 1Password in between is undone (`writes.go:404`), where the
  plan promises that a write never drops data it was not told about. `KeepsTheRest` is the
  same statement with exactly that race excepted (`touched`), and it is proved.

One more difference is plain in the code and needs no run: the directory is built once
per process (`coldStart`, only while it is nil, `backend.go:497-503`), and `applyConfig`
leaves it alone (`config.go:194-201`), so a configuration write that changes `vaults` has
no effect on what is served until a restart, where `README.md:129-130` has "A write always
replaces the whole configuration."

`ConfigIsStored` holds for one configuration write at a time; two concurrent ones can
leave one in storage and the other in force. `Governor!Recovers` is said of misses and
manual refreshes; of the periodic class it would be false, since other classes may
keep the count above the burst brake for ever.

Other properties hold with exceptions that they name. Each exception is what the code
does. The first two go against a sentence too, and are kept here because the property
with the exception is the stronger statement about the code; the others are where no
document promises otherwise:

- `DeletedStaysGone`: an update answered before a delete and folded in after it puts the
  item back and removes its tombstone (`revived`, `replica.go:321-324`), where the plan
  has "delete removes it" (`docs/plans/2026-11-04-item-writes.md:39`).
- `ConfigIsStored`: when the read of storage at start fails, the configuration stays out
  of force until it is written again or the plugin restarts (`unread`, `backend.go:577`),
  where `backend.go:569-573` speaks of recovery "with no operator action".
- `ProbeIsOfConfig` is about measurements begun after the last configuration write:
  `reconfigure` keeps the percentage it finds, even when it removes
  `ratelimit_probe_cmd` (`governor.go:157`).
- `AddressesAgree`: `item/` looks at IDs and titles before split paths and `field/` at
  split paths first, so they may differ where a title is another item's ID, or where the
  field's name makes the address a split path of its own (`paths_field.go:111`).
- `MissIsJustified` promises nothing of a "not found", or of an item created for want of
  one, that rests on a failed or incomplete cycle, on one that was in flight already, or
  on none (`backend.go:446`): two upserts of one title may both create it.
- `SuspectIsTold`: a cycle that listed before an invalidation and is applied after it
  wipes the mark (`overtaken`, `cycle.go:208`), for `WindowHolds` too; and a cycle applied between the body and
  the metadata of one response clears it under an old body (`paths_item.go:118`).

## 6. Proofs

The theorems hold for every value of the constants under the named assumptions of
the modules (the bounds are naturals, `Nobody` is no caller and no item, `Hour`,
limits and intervals are positive, and so on).

`VaultReplicaProofs`. The safety properties are not inductive by themselves. That an
acknowledged write survives a cycle depends on what the cycle holds in its locals; so
`IInv` adds:

- `SingleFlight`: the goroutine between publishing and unpublishing is the one in
  `inflight`, which is why no two cycles hold locals at once;
- `ServerFits`: an existing item has a version, promises are not ahead of 1Password,
  and an item deleted through the engine is deleted there;
- `LocalsFit`: what is fetched was listed, no body is older than its listing (list
  first, fetch later), what is removed was not listed;
- `WritersFit`: a writer waiting for the replica's mutex holds what 1Password answered;
- `FetchedFits`: a fetched body is older than an acknowledged write only where the
  replica already holds one at least as new;
- `DeadAreBuried`: a cycle that still lists a deleted item will meet its tombstone.

`InductiveInvariant` proves it action by action and `IndexMatchesBodies`,
`IndexNotAheadOfBody`, `AckedWriteVisible` and `DeletedStaysGone` follow.
`BodiesNeverRegress` is the action property. `RunCycleCoalesces` is the refinement:
initial states map to initial states and each step to a step of `Coalescing` or a
stutter, by `SingleFlight`.

`GovernorProofs`: typing; `RateLimitsHold`, inductive with the typing, since every
action that writes `gstate` also sets `embargo` or `excused` unless the horizon is
over; `BlackoutsBounded`, where a backoff is bounded by the longest interval that has been in
force since the process started, since one that began under a long interval is not cut
when a rewrite shortens it.

`EngineProofs`: typing; `ConfigInForceIsDurable`, for any number of concurrent
writers; `ConfigInForceIsStored`, under the explicit assumption that there is at most
one writer, from the strengthening that between `Put` and `Swap` the stored
configuration is the one the writer carries, and otherwise the one in force; and
`ConfigIsWrittenAhead`, the refinement of `ConfigStore` for any number of concurrent
writers, step by step: a config write's own steps and a restart are each a step of the
promise, the handshake and all that others do a stutter.

`ReadPathProofs`. The four safety properties of the read path, for every number of items,
readers and upserters, every clock and every set of configurations. What a miss rests
on is scattered over the cycle, its leader and the negative cache, so `IInv` adds:

- `PastStamps`: no stamp is in the future, which is what makes differences of times mean
  ages;
- `WarmFits`: a set `lastCycle`, an indexed item or a stored miss each imply that a
  cycle has applied (`ColdIsNotAbsent`, and the age in `WindowHolds`);
- `CycleFinds`: at every phase of a cycle led by a request, an item older than that
  request is listed, about to be fetched or indexed, and will not be removed;
- `LeaderFinds`: after a whole cycle its leader finds such an item in the index, so it
  never gets as far as storing a miss;
- `MissFits`: a stored miss that rests on such a cycle is older than every present item
  of that title, which the next request can count on (`MissIsJustified`);
- `InvalidationKept`: an unheeded invalidation leaves `stale_suspect` set and
  `lastCycle` zero until a cycle is applied (`SuspectIsTold`, and that `WindowHolds`
  serves nothing from the window of a marked replica).

The proof takes what concerns one request (`Sound`) apart from what concerns the
replica, and the steps that leave index, marks and clock alone (`Calm`) apart from those
that do not. Assumed are `Titled \subseteq Items`, that the names are distinct, and that
`Configs` is not empty and well typed.

`InductionLemmas`. The library's induction theorems take a predicate,
which the provers cannot instantiate. The lemmas here take a *set* instead: a proof
names the set of the numbers, or of the finite sets, that its claim holds for and shows
it closed. They rest on `WFMin`, the least element of a well-founded order. From them
follow that `FoldLeft` over a sequence runs through its elements in order (`FoldExists`),
that a finite set has a maximum and can be put in a total order (`SortedExists`), and
what `SumFunction` is: a natural number that changes with one of its values, bounded by
the number of values times a bound of each, and unchanged by a shift of the values.

`UsageProofs`. `CountsStayExact` rests on `PrunedAreOld`: everything before `first` is a
day old, and stays so as the clock runs, so neither window misses a unit; that the
instants are in order is not needed. `ProbeTightens` needs
`PctIsMeasured` besides: a percentage that is not zero was measured by this process. `ProbeFitsConfig` rests on `TakenTogether`: a
running probe's token and the fact that a probe was asked for are those of the config
write it counted when it began, and a later write only makes that count older.

`GovernorProofs!HourlyBudgetKept`. A caller that `allow` let through *owes* the requests
of its job that are not counted yet. What is counted and what is owed together stay
under the limit plus one whole job per caller, `Max(Limits) - 1 + Cardinality(Callers) *
(3 + MaxChunks)`. The longest job is a write that does not know its item: it was let
through for a fetch and a put, and before those it asks again for a cycle, a listing and
its chunks. A caller is let through only while the count is under the limit, and then at
most every caller owes a job; an answer moves units from what is owed to what is counted;
a tick only drops counted units; a restart and a failure drop what is owed. Where nobody is let through, the sum cannot grow. The
invariant is inductive with the typing alone; what it needs is the arithmetic of sums.

`ItemLemmas` says what the operators of `ItemWrites` do, whatever the system did before:

- `RebuiltIsExact`: in whatever order the loop meets the items, a key that one item bears
  is left with that item and any other key with nothing. The invariant of the loop: after
  any number of items a key is absent, bears the one item met with it, or is poisoned
  because two were met;
- `ParseIs`, `Parsed`: a body can be sorted, and what comes out is the body, no two
  writes for one field, and those of the top level first;
- `ApplyWellFormed`, `ApplyKeeps`: merging keeps items well formed, and changes no
  section, and no field but the value of one that a write names, and its type if that
  write names one;
- `ApplyLands`: when all is merged every write has *landed* (`Landed`): it stands at a
  place where no earlier field answers to the same address. It lands when it is merged,
  and no later write of the body moves it, adds a field before it or names it again.
  For a write to the top level this needs the top level to come first, so that the
  body's own sections come after its field.

`ItemWritesProofs` proves all safety properties of `ItemWrites`, for every set of items,
titles, separators, requests and writers, and every initial store.

- `TypesKept` is `TypeOK`, which is inductive as it stands;
- `IndexStaysExact` follows from `RebuiltIsExact`, since whoever changes the overview
  rebuilds the index; so a stale `path_split` makes it exact for a former separator,
  never inexact;
- `AddressesKeepAgreeing`: from the exactness of the index, in particular that a key of
  one segment is the title of the only item that bears it, and from how many segments
  the index takes of an address and of that address with one more;
- `TheRestIsKept` needs `Fresh`: an ID that a writer has yet to create is free in
  1Password, and the copy of a writer at `put` is what 1Password holds unless it was
  touched. Then `ApplyKeeps` is what the property asks;
- `WritesReadBack` needs `Outcomes`: what a writer has sent is its copy with its writes
  merged. Then `ApplyLands` gives the place, and that `lookupField` finds it.

Assumed there: titles and labels are not empty where the code rejects empty ones; a
title that is not cut is its own split path; the IDs 1Password gives to new items are
new and distinct; items are well formed in the initial store; bodies are as
`parseFieldWrites` accepts them; and the sets of IDs and of a body's writes are finite.

Only model-checked: all liveness (`EveryCallReturns`, `Converges`, both `Recovers`,
`SplitTakesEffect`), which together with `ENABLED` is beyond the prover.

## 7. Not modelled, and why

- How `path_split` cuts a title, and how a path is cut into segments: `SplitAt` and
  sequences of segments stand for the outcome. Field IDs, notes, tags, URLs and
  categories: no property tells them apart.
- Titles of vaults (`resolveVaultAddress`), `write_vaults`, and the existence check that
  chooses between create and update operations: both handlers are one here, as
  `pathItemWrite` is.
- The matching of `always_fresh` patterns: a configuration has it for the address or
  not.
- The parsing of the probe's table and its warning; a percentage is any of `Percents`.
  `ReadPath` lets the ceiling be reached at any time, whatever `Usage` says.
- The answers of listings: they report the index.
- An empty vault in `Engine`, and the rate at which such a vault, or a failing directory
  refresh, is asked for: rates of requests are counted in `Governor` only.
- `op/status`, logging, response formats, path schemas, `cmd/`: they change no state.
- Validation of a configuration: `Engine` begins with one that validates.
- The SDK and 1Password: external, modelled by what the code relies on.

## 8. Plan

Done: `VaultReplica` with `Coalescing`, `Governor`, `Usage`, `Engine` with
`ConfigStore`, `ReadPath`, `ItemWrites`, their runs and the theorems above. What is left, in this order:

1. `backoffDelay` and `checkGuardrail` against reference definitions.
2. An abstract specification of what a read promises, with `ReadPath` shown to
   implement it: an answer within the window or a stated reason why it is older.
3. `resolveVaultAddress` and `write_vaults` on the directory of `Engine`.
