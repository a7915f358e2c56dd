# Verification of atrium-ddns

TLA+ models of the atrium-ddns backend (`src/backend/src/atrium_ddns`), the TLC
configurations that check them on small instances, and proofs, checked by TLAPS,
of what holds for every instance. Paths below are relative to the repository;
`router_nic.py` and the other bare file names are in `src/backend/src/atrium_ddns`.

To repeat everything, in this directory:

    tlc -config <run>.cfg <MC module>        # the runs listed in PROJECT.json
    tlapm PublishingProofs.tla               # and the other *Proofs modules

## 1. The system

atrium-ddns is a DynDNS service. A router at a customer's site calls
`GET /nic/update` with its address whenever it changes; the service checks the
device's secret, writes the address to every DNS provider bound to the hostname's
zone, and answers in the DynDNS protocol's words (`good`, `nochg`, `badauth`,
`nohost`, `dnserr`, `911`, `abuse`). A worker re-reads the zones periodically and
stores what it saw; people see the result on a board and can edit, publish by hand,
check now, clear, or adopt what the zone says. A fleet that a predecessor of the
service ran is brought over by a script. All state is in MySQL at READ COMMITTED;
several web processes and one worker share it, and no lock but the database's row
locks exists.

| component | state it keeps | operations | code |
|---|---|---|---|
| publishing of a hostname | `ddns_hostname.last_ip_v4/v6`, `last_updated_at`, `dns_ip_*`, `dns_checked_at`, `dns_check_error`; the provider's record set | `/nic/update`, `/nic/delete`, manual update, sweep, clear, adopt-zone | `router_nic.py`, `router.py:3930-4280`, `worker_jobs.py:1070-1570` |
| DNS phase over a zone's backends | bindings, selections, credentials; per-provider record sets | load plan, ask, write, aggregate, record | `router_nic.py:265-562, 1013-1115`, `providers/` |
| rate limiter | `ddns_rate_limit_event` | count, charge, prune, change the limit | `auth_device.py:454-530`, `router_nic.py:743-837` |
| health-check sweep, Check now | which rows are due, the batch, the run's summary; the last manual run in the audit log | press, claim, count, fetch, check, write, clear | `worker_jobs.py:1070-1473`, `router.py:954-1158` |
| catalogue | `ddns_domain`, `ddns_domain_backend`, `ddns_device`, `ddns_hostname`, `ddns_hostname_backend` | create, rename, move, assign, select, delete | `router.py:2055-3927`, `models.py`, `scope.py` |
| device credential | `ddns_device.password_hash` | authenticate with lazy re-hash, rotate | `auth_device.py:158-389`, `router.py:2841-2892` |
| event log and retention | `ddns_dns_event` | record and commit, page by keyset, prune in batches | `router_nic.py:575-679`, `router.py:4669-5128`, `worker_jobs.py:1672-1803` |
| board | none; it reads devices, names and the log | device liveness, joints, verdicts | `worker_jobs.py:1578-1664`, `router.py:560-869` |
| legacy importer | the target's five tables; a copy of the legacy database | plan, check, insert, commit, verify | `scripts/import_legacy.py` |
| wire verdicts | none (events) | order of refusals, response lines | `router_nic.py:743-1251` |
| delegation walk | none | find the nameserver to ask | `worker_jobs.py:769-937`, `providers/base.py` |
| rehearsal, seeds, settings schema, frontend, scripts | see PROJECT.json | | |

How they meet. A publish and a sweep write the same row and never lock against one
another; a publish reads bindings and selections once and runs its DNS phase on that
copy; the rate limiter's correctness rests on a row lock `_touch_device` takes for
other reasons, and so does the board's, which takes the newest event for the last one;
the re-hash of a credential is written by the commit of whatever call it happened in;
the sweep's batch depends on readings that publishes clear; a rename of a zone decides
whether `/nic/update` will still find the names under it; the prune deletes rows the
board infers from and the log's reader pages over; the importer writes five tables
beside tenants who take names.

What is hard. DNS is written outside any transaction, with a commit after it that may
fail and is then swallowed; the answer the device gets is about DNS and the row is
repaired by the next call. A session keeps the copy of a row it loaded first and
writes only columns that differ from the copy. A sweep has two sessions with network
in between. Handlers check what they read and write later, without a lock. An event
takes its time when it is recorded and its id when it is committed. Providers' own
servers lag behind what they accepted. The hazards are listed, each at its line and
with the properties that cover it, in PROJECT.json.

What makes each component correct, in a sentence: the row, the provider, the zone and
the board come to agree with the device (publishing); one answer stands for several
backends without hiding one that was never written (DNS phase); no window holds more
calls than allowed (rate); every row is looked at, the summary adds up and a cooldown
is kept (sweep); legal edits never make a row the wire cannot serve, except by the
races and moves named (catalogue); the secret shown is the secret that works
(credential); a reader of the log misses and repeats nothing and the prune takes only
what is expired (log); what is inferred from the log is what happened (board); the
fleet moves at once, once, and publishes afterwards as before (importer).

## 2. Modules

| module | models | state ↔ code |
|---|---|---|
| `Publishing` | one hostname and everything that races over it | `row` is the committed hostname row; `accepted` what the provider was told, `served` what its nameservers answer; `call`, `sweep`, `adopt` are requests in flight with the copies they hold; `grace` is the publish grace as a predicate; `carried` is history |
| `DnsPhase` | one call over every backend of a zone | `bound`, `selected`, `creds`, `inside`, `hosted` are configuration; `call.plan` is the plan `load_plans` built, `call.answers` the statuses so far, `call.turn` what an adapter keeps between two exchanges of a delete; `holds[b]` is what backend b's own servers have; `call.excused` is history |
| `RateLimit` | the limiter of one device | `rows` are committed rate rows, `call` the requests that have counted or charged, `recorded` is history of every committed row |
| `HealthSweep` | which hostnames a sweep takes, and the Check-now cooldown | `stamp` is `dns_checked_at` as a rank, `fresh` and `grace` the two clauses of the due predicate, `sweep` the summary so far, with the two clauses as of the sweep's own `now`; `claimed` is whether the audit log has a manual run within the cooldown, `begun` is history |
| `Catalog` | the editing endpoints over five tables | one function per table's interesting column; `call` is what a request has read and means to write; `overtaken` is history: requests some other commit has passed |
| `DeviceAuth` | one device's credential | `stored` is the hash as (plaintext, scheme), `shown` what the owner was shown last, `router` what the device is configured with |
| `EventLog` | the log of one device, its writers, the prune and a reader | `log` holds committed rows, `call[c].rows` the rows a transaction has recorded and not flushed; `walk` is a reader's cursor and what it was shown; `prune` the run; `told` and `prune.due` (what the run found expired and has not deleted) are history |
| `Board` | extends `EventLog` with the board's five statements | `board` is what they have returned so far |
| `LegacyPlan` | what the importer plans from a legacy database | no state: `build_plan`, `resolve_backends` on either side, and `compare` as operators |
| `Importer` | runs of the importer beside the rest of the service | `rows` are committed rows in the owner's scope, `taken` other tenants' keys, `run[r].pc` how far a transaction is and thereby what it has inserted |
| `Migration` | what an import promises | whether the fleet has moved, and where each name publishes |

The `*Proofs` modules hold the theorems. The `MC*` modules give a module its symmetry
sets and function-valued constants (for `MCImporter`, the legacy databases) and nothing
else. `map` in PROJECT.json has, for every definition that stands for code, the lines it
stands for.

Conventions. One action is one database transaction, or one network exchange, or the
stretch of a handler between two points where another process can get in. A handler
that checks and then commits is two actions when the check reads committed state
without a lock. Publishing's `Flush` is SQLAlchemy's rule that an UPDATE names the
changed columns of the session's own copy; it is what makes stale copies visible.
A definition marked `mutant` is a plausible bug of the code, used by no specification;
it serves to show that a property can fail.

How actions correspond to handlers:

- `/nic/update` is `WireSend`, `WireAdmit` (the device row is held from here),
  `AlreadyServed` / `WriteRecord` / `ProviderFails` (DNS), `Commit` / `CommitFails`
  (`persist_updates`, `commit_after_dns`). The manual update is `ManualLoad`, which
  reads the row *before* it is serialised against the device, and `ManualAdmit`, then
  the same steps. `/nic/delete` is `NicDelete`.
- A sweep is `SweepRead` (first session), `SweepResolve` per family with no session,
  `SweepWrite` (second session). `HealthSweep` has the same job seen from the
  population: `Count`, `Fetch`, `Write`. "Check now" is `Press` (the cooldown is read),
  `Claim` (the run is recorded and committed), and then the same three.
  An address comes to a row by `Publish` (good), `Record` (nochg, which starts no grace
  and clears no reading) or `Adopt`, which also takes it away when the reading is empty,
  inside a grace too. `now` is read once, before the count: time that passes afterwards
  changes nothing for that sweep.
- In `DnsPhase`, `Unprovisioned` is what `_run_backend` and the adapters answer without
  asking anybody: 911 without credentials, nohost outside the zone, dnserr when a
  required key is missing. `Unchanged` and `Upsert` are `createrecords` with the check
  before it; `Asked` says whom the check asks: nsupdate the server it is about to update,
  route53 and hetzner the delegated nameservers. A delete is `DeleteMessage` for
  nsupdate (one message), `ListRecords` and `DeleteListed` for route53, and a
  `DeleteNextType` per record type for hetzner, where a 404 goes on to the next type and
  any other failure ends the backend's turn half-way. Discovery may fail, and the account may
  not have the zone: then the configured name stands in for the handle (`Unfound`), an
  update is refused or finds nothing to do, and hetzner's deletes are 404s.
- In `Catalog` every handler of `router.py` is one action, or a check (`RenameDomain`,
  `CreateHostname`, `AssignHostname`, `SetPublishing`) and its `Commit...`; a PUT of
  the publishing selection is three, since its DELETE locks rows before its INSERT.
  Foreign keys, UNIQUE indexes and ON DELETE rules are in the commit guards and in
  `Cascaded`.
- In `EventLog` a request is `Admit` (or `Press`, `Adopt`, `Unauthorised`), `Answer`,
  which records a row per backend attempt, and `Commit`, which gives them their ids.
  `OpenLog` and `NextPage` are `get_events` without and with a cursor. The prune is
  `PruneStart`, a `PruneBatch` per DELETE, and `PruneCount`, the count at its end.
- In `Board` the five actions `ReadDevices` ... `ReadWindow` are the five SELECTs of
  `get_board` and of the `device_statuses` it calls, in their order.
- In `Importer` a run is `BuildPlan`, `AssertEmpty`, `ResolveOwner`, one `Insert...` per
  table, `Commit` or `DryRun`, and `Verify` in a session of its own; `Dies` is a process
  or a statement that fails anywhere between.

The modules are separate because their subjects meet in one variable each: DnsPhase
takes from Publishing that a device's calls are serialised (`DeviceRowFree`, proved as
part of `SerialInv`), HealthSweep takes from it that a publish clears the reading,
RateLimit and EventLog restate the same device-row lock as their own.

## 3. Runs

| run | checks | what it shows |
|---|---|---|
| `publishing_races` | TypeOK, LastIpWasCarried | under every misfortune at once and an adoption in flight, the row never records an address the provider did not hold |
| `publishing_serialised` | RowTracksZone | two calls of one device and two sweeps: between calls the row is what the provider holds |
| `publishing_divergence` | DivergenceIsReal | both families, lagging servers, deletes, failing queries: what the board calls a divergence is one |
| `publishing_converges` | Convergence | lag, lost commits, provider failures that applied, overlapping sweeps: once the device keeps its address all four parties agree |
| `rate_window` | TypeOK, OverrunBounded | two wire calls, two manual updates, the limit changing, the prune running |
| `dns_backends` | EveryBackendCatchesUp | an nsupdate server and a delegated hetzner account, credentials incomplete, missing and repaired: a backend that failed behind another's `good` catches up |
| `dns_configuration` | TypeOK, DeleteIsComplete, WordNamesTheFirstFailure, RecordedIsHeld, NochgIsFinal | a route53 account and a delegated hetzner account, both families, discovery and deletes that fail half-way, while others edit, bindings and selections change and the zone comes and goes |
| `sweep_population` | TypeOK, SummaryReconciles, DebouncedUnlessTogether, NobodyStarves | a worker sweep and two presses of Check now with a batch smaller than the population, which is published, recorded, adopted, cleared and edited meanwhile |
| `catalog_callers` | TypeOK, StaysInZone, StraysOnlyByMove, CrossedOnlyByAdmin, PutReplaces, WidensOnlyKnowingly | a tenant and an administrator of every tenant over the same rows, moves and races included |
| `auth_device` | TypeOK, IssuedSecretWorks, LostOnlyToStaleUpgrade, FleetMigrates | issued and imported devices, calls and rotations |
| `importer` | TypeOK, AlarmHasACause, NeverMerges, MovesAtOnce | two runs, dry ones included, over 39 legacy databases, beside another tenant, the owner and the devices; implements `Migration` |
| `event_log` | TypeOK, LatestIsLast, ShowsNothingTwice, MissesNothing, PruneSparesTheRetained, PruneLeavesNothingDue, LowerJointIsReal, LivenessIsHonest | two requests, the prune, and a reader of the log or of the board |

The properties say more than their names. `LastIpWasCarried` compares the row with the
whole history of the provider's record set. `DivergenceIsReal` relates the verdict
stored by a sweep to the provider's record now, so it covers the clear in
`persist_updates`, the publish grace and the shared `dns_checked_at`. `OverrunBounded`
quantifies over every placement of the window and over rows that were pruned since.
`DeleteIsComplete` looks at every backend that has answered while others still run, and
at all the record types asked for, where hetzner learns of them one at a time.
`NochgIsFinal` is about the end of a call: aggregate, the adapters' checks and
everything that happened between the first backend's answer and the last's.
`PruneLeavesNothingDue` compares a run's end with what it found at its beginning, several
batches and commits earlier.
The catalogue's action properties name the only ways into each bad state: a race
that ends in that very step, a move, or an administrator. `LivenessIsHonest` and
`LowerJointIsReal` compare what is inferred from a log that is being pruned with
`told`, what really happened. `MovesAtOnce` is the refinement `Fleet!Spec`.

### Bounds

Two addresses suffice where a property compares a stale with a current one; a third
would be another stale one. One wire call is enough where calls are serialised anyway
(the proof of `RowTracksZone` is for any number); two are used where serialisation is
the question. One scheduled sweep is the code's `max_instances=1`; presses are added
where two sweeps matter, and two presses are the least that can come together. Rate: a
clock of 4 with a window of 2 places a window before, across and after every row, and
two callers of each kind exceed a limit of 2 by every way of interleaving. DNS: two
backends are the least for order and for one failing behind another;
`dns_configuration` uses one address, since its properties tell an address from none, and
a route53 account that is not delegated beside a hetzner account that is, so that both
multi-step deletes and a check asked of another account's servers occur.
Sweep: two hostnames with a batch of one is the least in which one can be starved.
Catalogue: two domain rows over two nested zone names, two bindings and one hostname
row cover every foreign key both ways; ids are allotted once, so histories are finite.
Credential: three rotations (`MaxSecrets`) are one more than the requests in flight.
Importer: a zone with two accounts and three names has every way for TTLs to agree, tie
or disagree and for a name to be bound to none, some or all; one edit (`MaxEdits`) and
one name taken (`MaxTaken`) are the least that can raise the alarm or refuse a run, and
each legacy defect `build_plan` or the target refuses is one database. Event log: pages
of one row and two rows an instant put a boundary inside every tie; batches of one with
two of them allowed end short, full, and at the limit with rows left.
Retention 1 is shorter than the idle window 2, the order of the two settings nothing
forbids, and the days on which something happens (`Instants`, 1 and 3 after 0) lie before,
at and past each of the two boundaries; three rows (`MaxRows`) are one more than a run
may delete. `MaxClock`, `MaxSecrets`, `MaxEdits`, `MaxTaken`, `Instants` and `MaxRows` are
the only bounds in guards; proofs hold for every value of them.

`Hazards` (Publishing) and `Faults` (DnsPhase) name the misfortunes a run allows; a run
leaves one out only where the property is false under it by design, and the README or
the property's comment says why: a foreign edit is by itself a row that does not track
the zone, a failing query keeps the board from settling. The two DnsPhase runs divide the
faults between them: credentials and names in one, the account's zone, discovery, pages,
bindings and foreign edits in the other.

### Deadlock

Publishing, DnsPhase, HealthSweep and DeviceAuth are checked for deadlock: some
process can always move. The others stop for reasons of the instance and their
configurations switch the check off: RateLimit at `MaxClock` with every call idle,
Catalog when every id was allotted and deleted, EventLog when `MaxRows` were recorded
and the clock is at its bound, Importer when every run is over.

### Fairness

*Publishing.* The device calls for ever with both addresses; a request that started
ends; waiters for the device row are served in turn (InnoDB queues lock waits), hence
strong fairness for `WireAdmit`; the scheduler ticks every minute; a provider, a
nameserver and a commit tried again and again succeed in the end (strong fairness for
the good outcome - without it a device whose provider is down for ever never
converges, as it should not). Propagation is finite and shorter than the grace, which
`health_check_publish_grace_seconds` exists for.
*DnsPhase.* The same about one call at a time; a good upsert is owed only where the
asked server really has another address, never to a lucky resolver failure.
*HealthSweep.* The worker's ticks do not fail for ever; the interval and the grace are
finite. Nothing is owed to a press of Check now.
*DeviceAuth.* The device calls for ever and some commit succeeds.

## 4. Proofs

Each theorem is for every value of the constants under the module's assumption.

- `PublishingProofs!TypeCorrect`, `RecordedWasCarried`: `[]TypeOK` and
  `[]LastIpWasCarried`. LastIpWasCarried is not inductive: the row receives addresses
  from sessions, observations and adoptions. `CarriedInv` says of every place an
  address can come to rest on its way (the served zone, a call's copy and, once
  answered, its address, a sweep's observation, an adoption's copy) that the provider held it.
- `PublishingProofs!DivergencesAreReal`: `[]DivergenceIsReal` for any calls, sweeps,
  families, addresses and lag, with deletes, clears and failing queries in between. The
  premise, `ReadingsAreApart`, is the one the run is checked under: no sweep overlaps a
  call, nobody else edits the zone, providers and commits succeed, and no press of Check
  now ignores the grace while servers lag. DivergenceIsReal speaks of moments at which
  nothing is in flight; `ReadingInv` says at every moment where a record set can differ
  from what the row's reading says of it: behind a call that has written it and not yet
  committed, or behind servers still inside the grace. It also keeps calls and sweeps apart, so
  that a sweep in flight has seen the record set as it is.
- `PublishingProofs!SerialisedByTheDeviceRow`: `[]RowTracksZone` when only the device's
  wire calls change the zone, servers follow at once and commits succeed. `SerialInv`
  adds that at most one call holds the device row and what its copy says of the row.
  The premises are the theorem's hypotheses; each has a reason in section 6 or in the
  hazard list.
- `RateLimitProofs!RateTypeCorrect`, `OverrunIsBounded`, `WireNeverOverruns`: from lock
  exclusion (`LockInv`), from the fact that the prune keeps what a window can still see
  (`KeptInv`, needs `Window <= Retention`), and from a counting argument over finite
  sets (`BoundAt`). Without manual calls the limit holds exactly.
- `DnsPhaseProofs!DnsTypeCorrect`: `[]TypeOK`, in which the plan is an ordered sequence
  of the backends it asks. The plan sorts a set by rank (`Rank`, `InOrder`), and
  `RankGrows` and the lemmas after it show by counting that every position is taken
  exactly once. The other four hold without premises too. `FirstFailureIsNamed`
  (`WordNamesTheFirstFailure`): `AggregateTells` says of any sequence of answers which
  one the aggregate picks. `DeletesAreComplete` (`DeleteIsComplete`): `HeldInv`
  says of the backend whose turn it is which record types are gone already and what a
  listing has left out, through every adapter's exchanges. `WhatIsRecordedIsHeld`
  (`RecordedIsHeld`): each backend that has answered well in the running update is served by one of those
  asked for it, until the call is over. `NochgIsSo` (`NochgIsFinal`) combines the last
  two with the aggregate: all answers were nochg.
- `HealthSweepProofs!SweepTypeCorrect`, `SummaryIsTrue`, `OnlyPressesTogether`. For the
  summary, the strengthening ties the counted number to the set the fetch will select
  from until another writer comes, which holds through any passing of time because the
  sweep keeps its own `now`; for the debounce it says that a run begun within the
  cooldown is recorded, and that whoever still waits to claim has been raced. The
  ranks of `stamp` stay within the population by a cardinality argument over images.
- `DeviceAuthProofs!AuthTypeCorrect`, `IssuedSecretStays`, `RehashIsTheOnlyLoss`:
  `[]IssuedSecretWorks` from the invariant that an issued device never has a bcrypt
  hash, stored or in flight; and `LostOnlyToStaleUpgrade`, step by step.
- `ImporterProofs!ImporterTypeCorrect`, `ImportsNeverMerge`, `FleetMovesAtOnce`. The
  inductive invariant says of a run inside its transaction that nobody else's committed
  row has a key of a table it has inserted: whoever wanted one was held back, or has made
  the run fail. `FleetMovesAtOnce` is the refinement to `Migration`: the step lemma
  shows that a commit puts exactly the plan's rows into an empty scope or one that
  shares no name with it, and that the plan publishes each name through the accounts
  and with the TTL the legacy service used.
- `ImporterProofs!AlarmsHaveCauses`: `[]AlarmHasACause`. `Undisturbed`: while nobody
  else has written in the owner's scope, the target is empty or exactly the plan of a
  source that can be planned, and then no verification disagrees. The comparison counts
  rows as well as reading them, so the proof needs that the plan of a table has as many
  rows as the table (`AsMany`), hence that a legacy database is finite.
- `EventLogProofs!LogTypeCorrect`, `PagesAreApart`, `WalksMissNothing`,
  `PrunesFinish`: `[]TypeOK`, `ShowsNothingTwice`, `MissesNothing`,
  `PruneLeavesNothingDue`. A page and a batch are the first rows of an order, and what a
  walk misses is decided by which rows those are: `EveryPlaceIsTaken` and `FirstFew`
  show, for any finite set under a total order, that the first n places hold n rows and
  nothing outside precedes them. That is an induction over the set done by counting
  what lies below each element. `WalkIsAt` then says that a walk has shown nothing beyond
  its cursor and still owes only what is beyond it, with the prune deleting rows on
  either side; `PruneIsAt` that a run which is over because of a short batch has nothing left
  of what it found, and that until then all of it that is left is behind its cutoff.
- `EventLogProofs!DivergedIsSo`, `LivenessIsSo`: `LowerJointIsReal` and
  `LivenessIsHonest`. `ToldIsLast` ties the log to what really happened: the newest
  success in it is the last one there was, or that one has expired and so have all.
  Nothing is assumed of the retention and the idle window.
  `BoardIsCurrent` says that what a board has read is still so, until the prune takes the rows it
  was read from; a commit in between makes the reading a raced one, which the properties
  leave out.
- `EventLogProofs!NewestIdIsTheLast`: `[]LatestIsLast`, for the board's specification
  as well by `BoardOnlyReads` (the board's reads are stutters of the log). The
  strengthening is that only the holder of the device row has recorded successful rows
  that are not committed, and that no committed one is later than now.
  `RetentionIsKept`: `PruneSparesTheRetained`, because the cutoff is never ahead of the
  clock's retention.
- `CatalogProofs!CatalogTypeCorrect`: `[]TypeOK`, the references of all five tables. A
  request in flight has to be typed column by column (`Carries`), and a row that is
  created has to start unpinned; a commit then keeps every reference because it
  re-checks exactly the ones it writes, and deletes cascade.
- `CatalogProofs` also proves every action property of the catalogue: `OnlyAdminsCross`,
  `OutsideOnlyByRaces`, `StrayOnlyByMoves`, `PutsReplace`, `WidensForAReason`. One
  argument carries the first four. A request that no other one's commit has overtaken
  finds what it has read as it read it: its rows are of its tenant (`OwnInv`), another
  tenant's request changes zones and hostnames of its own tenant only
  (`ChangesOwnZones`, `ChangesOwnHosts`), and one that shares the tenant, or may see it
  all, would have overtaken it. Hence what a rename, a create or a move judged
  (`JudgedInv`), and what a PUT has checked and cleared (`PutInv`), still holds when it
  commits; a bad state takes a race, an administrator or a move. `PinsAreOfTheZone` is
  `SelectionIsOfTheZone` for a catalogue without moves, where not even a race strays a
  pin: bindings and hostnames keep their zone for good.

Assumptions are named in the module that declares the constants, and TLC evaluates them
in every run. Apart from types they ask that `NULL` is no value of the kind it stands
beside (in EventLog also no row and no cursor), that a legacy database is finite and that
a rate window is no longer than the retention of its rows.

Every invariant and every safety property of a step that a run checks is also a theorem,
two of them under a premise: `RowTracksZone` and `DivergenceIsReal`, each false without it
for a reason section 6 gives. Only model-checked are the four liveness properties (`Convergence`,
`EveryBackendCatchesUp`, `NobodyStarves`, `FleetMigrates`): fairness and ENABLED are
outside what the prover does. The other way round, `SelectionIsOfTheZone` is proved and
not checked by a run of its own: it says something only where `Moves` is FALSE, and the
run allows moves.

## 5. What is not modelled

PROJECT.json lists every part with a status. Left out on purpose:

- response wording, audit rows, names and labels, the encryption envelope of
  credentials (a backend has none, incomplete ones or all), DNS caching in resolvers (a nameserver
  answers `served`);
- the order in which `_admit`, `update` and `delete` try `badauth`, `abuse`, `911`,
  `notfqdn` and `nohost`: sequential code over one request, whose state changes are in
  the modules of what it changes;
- the filters and tallies of the log (conjuncts that stay the same along a walk), the
  rows of `/nic/delete`, the board's strip and counts, the sweep's record counters and
  transitions;
- the delegation walk: reads of a tree of zones with no state between calls;
- the rehearsal, which is a report over a copied database, the seeds, the settings
  schema, the schema migrations and the frontend: no state that races with anything.

## 6. Disagreements met while modelling

None is kept as a run of its own; where a passing property is stated with an
exception, the exception is one of these.

- **A rotation undone.** `authenticate_device` leaves the argon2id re-hash of the bcrypt
  secret it verified in its session (`auth_device.py:369-376`) and the call's flush
  writes it over whatever the row holds by then, a rotation committed in between
  included. The secret just shown is refused and the old one works again, against
  `router.py:2855`. Devices created by this service are not affected
  (`IssuedSecretStays`), and nothing else does it (`LostOnlyToStaleUpgrade`).
- **Check now.** `run_health_checks_now` says "claim first, then work"; it reads the
  cooldown and claims afterwards, so presses that come together all run
  (`DebouncedUnlessTogether`).
- **A sweep over a publish.** A sweep in flight while a call publishes stores the address
  it resolved before the publish, after `persist_updates` cleared it
  (`router_nic.py:1083-1101`, `worker_jobs.py:1359`); `DivergenceIsReal` is checked
  without that overlap. `Convergence` is checked with it: the next sweep repairs it.
- **Adoption of a failed reading.** A sweep whose query failed stamps `dns_checked_at`
  over null addresses, and `adopt_zone` looks at `dns_checked_at` only
  (`router.py:3971`).
- **A manual call beside a wire call.** `manual_update` loads the row before it is
  serialised, and its flush omits a column equal to the stale copy; `RowTracksZone` is
  stated for wire calls. It also counts before it holds the device row, hence the
  `+ Cardinality(ManualCalls)` of `OverrunBounded`.
- **Two accounts of one delegated zone.** Once the first is written the second finds the
  address at the delegated servers, says `nochg` and is never written
  (`providers/base.py:597`): `NochgIsFinal` therefore says of an update that a server
  asked for each backend has the address, and `EveryBackendCatchesUp` is about the
  backends that are asked for themselves (`Reachable`).
- **A nochg of a record that is there.** `providers/base.py:309-312` says that an outage
  degrades to `dnserr`. After a discovery that failed, or found no zone, hetzner's delete
  goes to the configured name, takes the 404 for an absent record and answers `nochg`
  (`hetzner.py:204-205, 231`); route53's looks at the first page of the zone's record sets
  only (`route53.py:244`) and answers `nochg`, or `good` with the other type left, of what
  is on a later one. These are the cases `Serves` excuses beside edits by others.
- **Names outside their zone.** A create validated against the old zone name commits
  after the rename (`router.py:2170, 2244`): `StaysInZone` allows that race only.
- **Selections of another zone.** `assign_hostname` keeps the selection rows of the zone
  a hostname is moved out of (`router.py:3450`, against `models.py:649-651`):
  `StraysOnlyByMove`. Two PUTs of a hostname without selection rows leave the union,
  since neither DELETE finds a row to lock (`router.py:3894`): `PutReplaces`.
- **A name on another tenant's device.** An administrator's scope finds both, and
  `load_plans` then answers nohost: `CrossedOnlyByAdmin`.
- **The board's five statements.** Each is a snapshot of its own, so a commit between
  them can show a divergence that never was (`router.py:384`), and a device deleted
  between the two that must agree raises what `router.py:819-825` says cannot happen.
  `LowerJointIsReal` and `LivenessIsHonest` are about a reading no commit raced.
- **A failed call hidden.** `router_nic.py:125-133` says what the UI publishes must not
  answer whether a device still calls in; `device_statuses` takes the newest row of any
  event type (`worker_jobs.py:1602-1617`), so a manual update or an adoption after a
  failed call hides it: the exception in `LivenessIsHonest`.
- **The habit and the prune.** `device_statuses` speaks of the most recent event of all
  time, where the prune has removed what is older than the retention. Nothing in the
  settings keeps `event_retention_days` above `device_idle_window_days`
  (`worker_jobs.py:155, 308`): with a shorter retention a device that published inside
  the window is shown idle once its rows are pruned, which `LivenessIsHonest` names as
  the one exception and the run exercises.
- **A moved name.** After a manual update to another address the lower joint says that
  the device moved, where it was the name.
- **Truncated.** A prune whose last allowed batch was full says truncated though it may
  have left nothing, against the comment at `worker_jobs.py:1727` ("with work still to
  do"); `PruneLeavesNothingDue` is the direction that matters.
- **The importer's alarm.** A migrated device that calls between the commit and the
  verification has its secret re-hashed, and the verification takes that for a failed
  import: `AlarmHasACause`.
- A `nochg` moves `last_ip_*` (`router_nic.py:1076`), which `models.py:477-479` denies,
  and a publish clears `dns_checked_at`, which `worker_jobs.py:1147-1152` says nothing
  else does. Both are intended by newer comments beside the code.

## 7. What could come next

In the order of what a mistake there would cost.

1. An abstract *one address per hostname* (a register the device writes and DNS serves)
   for Publishing to implement under no misfortune, and *a sliding window* for RateLimit.
2. `DelegationWalk`: the two walks for the nameserver to ask, as pure functions,
   compared over small trees of zones.
3. The order of refusals on the wire, composed with `DeviceAuth` and `RateLimit`; the
   sweep's counters and transitions.
