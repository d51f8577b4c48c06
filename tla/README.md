# A TLA+ verification project for saudi-open-data-mcp

saudi-open-data-mcp is an MCP server that serves datasets of Saudi public
sources. It answers from local snapshots where it can, refreshes them from the
source where it must, and keeps a registry with the health of each dataset.
This directory holds its formal model: TLA+ modules translated from the Python
code, TLC configurations that check them on small instances, and theorems that
TLAPS proves for every instance.

Paths below are relative to `src/src/saudi_open_data_mcp/` unless they start
with `docs/`. `PROJECT.json` maps every definition to the lines it stands for.

## 1. The system

### Parts, state and operations

| Part | State it keeps | Operations | Hard behaviour |
|---|---|---|---|
| Snapshot store, `storage/snapshots.py` | one JSON file per (source, locator), on a volume | `write_snapshot` (temporary file, fsync, rename), `read_snapshot` | crashes and power loss between any two system calls; readers in other processes |
| Freshness, `storage/freshness.py` | none; reads the file's mtime | verdict missing, fresh, stale or unknown | boundaries of windows, business days |
| Registry, `registry/repository.py`, `registry/bootstrap.py` | SQLite: `dataset_descriptors`, `dataset_health`; the health status is in both | `seed_dataset`, `upsert_health`, lookups | several processes, reads outside of transactions |
| Preview tool, `tools/preview.py` | none between calls | `preview_dataset`: local, refresh, stale fallback or fail closed; records health | awaits the source in the middle of its decision; runs beside everything else |
| Materialize tool, `tools/materialize.py` | `_run_lock`, `_last_source_locator_attempt_at` | `materialize_hot_set`; the Tier A loop | serialization, per-run locator cache, cooldown, partial failure |
| Rate limiter, `security/rate_limit.py` | deque of grant times | `enforce` | sliding-window boundary |
| Connectors, `connectors/` | none | `fetch_dataset_payload` with retries, redirects, timeouts, page loops | every fetch must end; pages change while they are read |
| Normalization, `normalization/` | none | payload to records, per dataset | order and outcome of checks |
| Readers, `tools/query.py`, `download.py`, `health.py`, `search.py`, `metadata.py` | none | read row, health, label and file one after the other | concurrent writers between any two reads |
| Canary, `observability/upstream_canary.py` | none; writes health rows | one check per dataset, from a CLI process | a second process on the same registry |
| Server, `server.py` | the tools above, one background task | lifespan, tool calls | restart, cancellation of calls |
| HTTP security, `security/http_auth.py` | none but the body it buffers | authorization, body replay | chunked bodies, lying lengths, clients that leave |
| Export, `cli.py export`, `tools/export_artifacts.py` | none | one document from a query and a later health call | a refresh between the two calls |
| CLI and container entrypoint, config, metrics, audit, resources, dashboard | counters, logs | commands that run the operations above | none of their own |

### How the parts interact

One server process runs an asyncio event loop. Tool calls and the Tier A
background task are coroutines on it; they share the snapshot files, the
registry, the cooldown table and the run lock. A coroutine gives the loop away
only at an `await`: in `preview_dataset` that is the connector fetch, in
`materialize_hot_set` it is the run lock and each fetch, in the loop also its
sleep. Files and rows survive a restart; the lock, the cooldown table and the
rate limiter do not (`docs/OPERATIONS.md:85-87`). Operator commands (canary,
bootstrap, materialize) are further processes on the same volume and database.

### What makes it correct

- *Snapshots*: never torn, never lost, read only as a whole.
- *Preview*: what is returned is what is on disk; its verdict on the dataset is
  earned; its label (fresh, stale) is true; every call ends.
- *Materialize*: one run at a time, datasets of one locator agree, sources are
  not asked more often than the cooldown allows, runs neither regress a
  snapshot nor degrade a fresh dataset, the loop never stops.
- *Health rows*: healthy means that a readable snapshot exists; what a run
  records stands when it returns; seeding preserves them.
- *Connectors*: every fetch ends and costs its source a bounded number of
  sends, none of them outside of the approved URLs; the rows of a payload put
  together from several pages are of publications of as many rows as it has,
  and reports of one bundle do not contradict its rows.
- *Rate limiter*: exactly N grants in a window, on both sides of its boundary.
- *HTTP*: the application acts on the body that was authorized, whole and once.
- *Readers*: every part of an answer held at some moment of the call; no
  combination of them makes a tool fail; labels follow the calendar.
- *Normalization*: the canary and query judge one payload alike; rows agree
  with the reports they come from.

`PROJECT.json` lists under "hazards" what can go wrong at which line, with the
properties that would notice.

## 2. Modules

### The core: one server process

- **`ServingState`**: what all tools share. `artifact` is the snapshot file of
  a locator (present, usable, its age in ticks, the version of the publication
  it holds); `health` the registry's status per dataset with the tool that
  wrote it last; `upstream` what the source publishes; `onLoop` the coroutine
  between two of its awaits; `disruptions` counts crashes, cancellations and
  errors. `FreshnessOf` is `evaluate_snapshot_freshness` over ages,
  `StoreSnapshot` is `write_snapshot`, `UpsertHealth` is `upsert_health`.
- **`ResolutionPolicy`**: `PreviewResolutionPolicy` as pure operators, its
  flags as constants.
- **`PreviewTool`**: `preview_dataset`. `Submit` is the lookup, the freshness
  read and the initial outcome; `ReadLocal`, `StartFetch`, `RefuseFetch`
  (limiter or resolver raise), `PreviewAnswered`, `ResumeFailed`,
  `ResumeWritten`, `FallBack` and `RecordResult` are the parts of
  `_preview_known_dataset` between its possible kills; `CancelPreview` is a
  client that goes away.
- **`Materializer`**: `materialize_hot_set` and the loop. `StartRun` and
  `GrantLock` are `async with self._run_lock`; `LookupFails`, `ReuseFresh`,
  `ReuseLocatorResult`, `CooldownBlocks` and `StartRunFetch` are the five ways
  the body of the loop over datasets can go; `PersistHealth` writes one row at
  a time; `RunRaises` and `CancelRun` are the ways a run can end early.
- **`Server`**: both tools together with sources that publish, passing time,
  the canary's process and `Restart`. `sourceQuiet` is an observer at the
  source; no action reads it.
- **`LocalData`**: the abstract specification: what the data on the volume
  promises to its readers, whoever writes it. `Server` implements it under the
  identity mapping.
- **`ServerProperties`**: the properties and the fairness. **`MCServer`**: values
  for TLC.

### Components below the core

- **`SnapshotFiles`**: `SnapshotStore` at the level of system calls: `Create`
  (mkstemp), `Fill`, `Sync`, `Replace`, and the reader's `CheckFile`,
  `OpenFile`, `CloseFile`, in several processes, with failed writes, kills and
  power losses. It is the reason why `StoreSnapshot` may be one atomic step:
  `AtomicFile`, a file that changes at once and is read as of some moment, is
  implemented under a refinement mapping that takes the value of the file from
  the artifact and forgets temporary files (`ImplementsAtomicFile`).
- **`RegistrySeeding`** (`MCRegistrySeeding`): several processes seed one
  registry. Each SELECT and each transaction is a step, because
  Python's `sqlite3` begins the transaction only at the first INSERT.
  `overlapped` is an observer of start-ups that were not alone.
- **`RateLimiter`**: `InMemoryRateLimiter.enforce`, with the clock moving while
  old grants are forgotten. `granted` is an observer.
- **`HttpServer`** (`MCHttpServer`), over `RateLimiter`: `run-http` with
  `HTTPBearerAuthMiddleware`. A connection of `conn` goes through the early
  answers (probe, token, declared length), `Buffer`, one chunk at a time, the
  decision, the replay to the application (`AppReads`), and the preview tool
  with its limiter. A body is its list of chunk sizes and the document they
  make together; a part of a document is no JSON. `sent` and `read` let the
  properties compare what was decided with what was acted upon.

- **`ConnectorRequest`**: one request of a connector,
  `execute_request_with_retries` around `send_request_with_redirect_revalidation`.
  `sama` says whether the connector that sends is the one with a second
  transport. `call` holds their locals; `TransientStatus`, `PermanentStatus`, `Redirect`,
  `TimeOut`, `Unreachable` and `Disconnect` are the ways an answer can fail,
  `Resend` is the end of the backoff, `Disconnect` also the start of the SAMA
  connector's second transport. `sends` is an observer.
- **`ExchangeRates`** (`MCExchangeRates`): the exchange-rates page loop of
  `connectors/sama.py` over `ConnectorRequest`, with the SAMA site: `Serve` is
  the page an answer brings, `Revise` and `NewDate` publish in between. A row is
  a quote, a currency at a rate; `Revise` publishes the latest date anew, with
  any currencies added, dropped, replaced or given another rate. `shown`
  observes what was listed during the fetch. `ResumeLanding`, `ResumeSearch`
  and `ResumePaging` are `_fetch_exchange_rates_current_bundle` between its
  awaits, `EventTarget` is the pager's decision, and `Accepted` what
  `normalization/sama_exchange_rates_current.py` takes from the bundle. The
  site's pager is modelled from how the connector and its tests read it.
- **`SourceReports`** (`MCReports`): the bundles of reports of the SAMA (POS, if
  `sama`) and MoF connectors over `ConnectorRequest`: a page of links, then its
  reports one by one, while the source corrects, spoils or regroups them or
  adds a link, and while redirects lead from one report to another. `PosUrls`
  and `MofUrls` are the links that are fetched, in their order. Both connectors
  have their default base URL, on which the patterns find reports of their own
  site only (`connectors/sama.py:29-32`).
- **`ReportRows`**: what `sama_pos_weekly.py`, `sama_pos_by_city.py` and
  `mof_budget_balance_quarterly.py` make of such a bundle.

The core sees a fetch as one await that ends with a payload or an error; that
it ends is `FetchesEnd` and `ReportsEnd`.

### The readers

- **`Freshness`**: `storage/freshness.py` over instants in hours, with the
  calendar of Riyadh. **`ObservationRecency`**: `tools/observation_recency.py`.
- **`SourcePages`**: the extractors of single documents, release cards,
  deposits, policy rates and money supply. A part of a page has a period, a
  number and a flaw, the one way in which its text is not what the extractor
  looks for.
- **`Normalization`**: snapshot metadata, compatibility, the field mapping, its
  validation and the pipeline's outcome. `Normalize` is
  `NormalizationPipeline.normalize`.
- **`LocalReaders`** (`MCLocalReaders`): a call of query, download, health,
  metadata, search or of the export command, read by read (`LookUp`,
  `GetHealth`, `TakeTime`, `CheckFile`, `ReadSnapshot`, `Assess`), while another
  process stores (`StoreNewer`), records (`RecordHealth`) or seeds
  (`SeedByAnother`), and the canary runs. `QueryResultConsistent` and its like
  are the validators of the result models: an answer they refuse is `Raised`.
  `held` is an observer of what could be read since the call began, `fetched`
  of what the connector returned. Seeding is one step here, its steps are in
  `RegistrySeeding`.

### Proofs

- **`ServerProofs`**: the server process and its refinement of `LocalData`.
- **`SnapshotFilesProofs`**: the snapshot files and their refinement of
  `AtomicFile`.
- **`RegistrySeedingProofs`**: processes that seed one registry.
- **`HttpServerProofs`**: the rate limiter, alone and behind the HTTP server,
  and the HTTP server itself.
- **`ConnectorRequestProofs`**: one request, whatever connector sends it;
  **`ExchangeRatesProofs`** and **`SourceReportsProofs`** use it.
- **`LocalReadersProofs`**: the readers, the labels and the canary.

Section 4 says what they prove and how.

### Faulty variants

Operators commented as faulty variants (`AlwaysFree`, `StoreInPlace`,
`SkipSync`, ...) are plausible bugs in the operator they stand next to. They
are used by nothing; `PROJECT.json` "mutants" names, for each property of each
run, the variant that makes TLC find it violated.

## 3. Model checking

| Run | Instance | Shows |
|---|---|---|
| `Server_mixed` | two datasets of one locator, one without a window, and one of the hot set that the registry lacks; one preview, one call, the loop, the canary; one disruption; a preview fetches what is missing, stale or without a window | locks, results, verdicts, snapshots and rows are consistent, and `LocalData` is implemented |
| `Server_runs` | three datasets on two locators, optional tier, a cooldown of 1 s at 2 ticks per second; the loop and one call | datasets of one locator agree; serialized runs neither regress a snapshot nor degrade a fresh dataset; fetches are spaced, up to the truncated second |
| `Server_live` | a preview, the loop and a call on one dataset, one disruption, the policy that refreshes neither missing nor stale snapshots, under fairness | every preview ends, the loop keeps cycling, a queued call returns, a stale dataset is attended to |
| `Server_stale_label` | one preview and the loop | finding 1 (violated) |
| `HttpServer` | 2 connections, 2 requests each of 24 kinds, every role and set of capabilities the configuration takes, 2 grants per 3 ticks | the application acts on what was authorized; bodies stay bounded; previews are authorized; the limiter's bound is exact |
| `SnapshotFiles` | 2 writers, 2 readers, 2 faults | snapshots are never torn, and `AtomicFile` is implemented |
| `Seeding_pair` | two processes, two datasets, two stops | complete and reconciled catalog, kept health rows; lone start-ups preserve status |
| `Seeding_status_race`, `Seeding_insert_race` | two processes, one dataset | findings 2 and 3 (violated) |
| `ExchangeRates` | 10 publications of up to 4 currencies, one of them at two rates, pages of 1 or 2, pager blocks of 2, ceiling of 3 pages; 1 retry, 1 redirect, 1 change of the source in between | every fetch ends within its budget and the approved URLs; what normalizes comes from publications of as many rows, and is one whole when only one has as many; a still source is fetched whole |
| `Reports` | either connector of bundles; 7 pages of up to 4 links to 3 reports of 2 periods, ceiling of 2; 1 retry, 1 redirect, 1 change of the source in between | every fetch ends; no POS report of a bundle contradicts the rows made of it, and a budget row is what its own quarter's report shows; a still source is extracted whole |
| `LocalReaders` | 8 datasets, one at a time, with 2 to 4 payloads each and what an older or newer build may have left; one call and one canary run; 1 change by another process; 5 instants | answers hold, labels and recency follow the calendar, canary and query agree |

**Bounds.** Two versions of a publication (`MaxVersion = 1`) tell an older from
a newer snapshot and a payload that normalizes from one that does not. Ages
saturate at `AgeCap`, which is past every window and cooldown, so all larger
ages behave alike; the window is one tick, so fresh at its edge, and one tick
later, both occur. One preview, one call and the loop give all pairs of
coroutines that can meet at the lock, at a locator or at a row; a second call
only lengthens the queue at a FIFO lock. One disruption is enough to put a
crash, a cancellation or an error at any point; the invariants hold again
after it, so a second one starts from a state already seen. A deployment
starts on an empty volume or on one with artifacts of any usability, with the
registry new or seeded before. Two policies are run: one that refreshes all it
may, and one that refreshes only a snapshot that is there and cannot be used.
Four currencies make one, two, three and, past the ceiling, four pages, with a
full and a part-full last page, and the third page lies beyond the first block
of the pager, so both of its branches are taken. From one of the ten
publications to another a currency comes, goes, takes the place of another or
is given another rate, with and without a change of the number of rows; one
retry and one redirect let every failure meet a fresh and a used-up
budget.

A dataset of each frequency and of each kind of extractor appears in
`LocalReaders`; the instants are the last or first hours of days in Riyadh
around a midnight, a weekend and the turn of the year, where a label can turn.
The clock turns at most once in a call and not in a run of the canary, and
nothing else happens between an answer and the next call, where nobody would
notice. One change by another process, next to the canary and the clock, puts
a change between any two reads of a call.

**Assumptions.** One server process per volume (`docs/ARCHITECTURE.md:27`); CLI
commands are further processes. The registry is as old as the volume: its rows
start as seeded. A run of the CLI's materialize command in a second process is
not part of `Server`, as the lock is per process. SQLite serializes
transactions; its busy timeout is not modelled. A hot set does not name a
dataset twice. The rate limiter is any limiter in `PreviewTool`: it may refuse
any refresh.

**Fairness.** asyncio calls ready callbacks first come first served, so a
coroutine that is ready again and again runs: strong fairness of each step of
each coroutine. A fetch is answered or fails, because each connector request
has a timeout and a bounded number of attempts (`connectors/base.py:227-303`):
`FetchesEnd` and `ReportsEnd` show it for the page loop and the bundles,
assuming only that each answer comes or times out and that the coroutine runs
on (weak fairness). The time limit bounds each wait for bytes, so a source that
sends a byte now and then for ever is outside of this assumption. The loop's
sleep ends and time passes (weak fairness of `Tick`). Nothing is assumed of
clients, sources, the canary, errors, cancellations or restarts;
their number is bounded by `MaxDisruptions`, without which a client that
cancels every run after its first attempt could keep a source in cooldown
for ever (the attempt is stamped before the fetch, `tools/materialize.py:607`).

## 4. What is proved

Each theorem holds for every value of the constants that satisfies the named
assumptions: any number of datasets, locators, previews, calls, processes,
connections, pages, reports and disruptions, any policy, plan, catalog and
bounds. Every safety invariant, every action property and both refinements
that the passing runs check are stated by a theorem; the liveness properties
are not.

**Assumptions.** Most only give a constant its type. The others say what the
program or its configuration ensures:

| Assumption | Says |
|---|---|
| `ServingAssumption`, `PolicyAssumption`, `RequestsAssumption`, `ServerAssumption` | types; a window ends before ages saturate; a coroutine is a preview or a run, not both |
| `MaterializerAssumption` | a hot set names a dataset once; ages do not saturate before the cooldown is over |
| `RateLimiterAssumption`, `HttpAssumption`, `FaultsAssumption`, `PayloadsAssumption` | types; the limiter grants at least one request in a window of at least one tick |
| `ArrivalsAssumption` | a body has at least one chunk, and only a JSON object can have a method |
| `SeedingAssumption` | the catalog names a dataset once; a process brings its own build's columns |
| `RequestAssumption` | a URL is not both inside and outside of the approved boundary, and a dataset's own URL is inside |
| `ExchangeRatesAssumption`, `SourceAssumption`, `PublicationsAssumption` | a page has at least one row, a block of the pager more than one page; quotes are finitely many, in a fixed order; the site lists a currency once a date |
| `ReportsAssumption` | every URL has its period |
| `CalendarAssumption`, `ReadersAssumption`, `SourcesAssumption` | what a connector returns is of its extractor's form and can be stored and read back; a source that the canary visits answers no empty list of rows; what another build left is a file of that form |

| Theorem | States | Inductive argument |
|---|---|---|
| **`ServerProofs`** | | |
| `TypeCorrect` | `[]TypeOK` | `TypeOK` alone is not inductive: a run that awaits must be at a dataset of its plan, or its index could leave the range (`AwaitsInPlan`); a queue whose members are all waiting makes `Without` well defined (`WaitersQueued`) |
| `MutualExclusion` | `[]OneRunAtATime` | only a free lock is taken, and its holder is the only active run |
| `LoopOwnership` | `[]LoopOwner` | whoever is between two awaits owns the loop, and the owner is in such a place |
| `ResultsMatchDisk` | `[]ResultMatchesDisk` | a result is made and recorded within one stretch between awaits, so by `LoopOwner` no write falls in between |
| `PreviewVerdictsAreEarned` | `PreviewVerdictIsEarned` | with the above, a result that has not failed normalizes (`ResultsAreSound`), and the row is written in the same stretch |
| `HealthyRowsHaveSnapshots` | `[]HealthyHasSnapshot` | a readable artifact stays readable (`SnapshotsStayReadable`); what a run calls materialized is readable from its fetch to its last row (`MaterializedReadable`); what a preview calls healthy is on disk (`ResultMatchesDisk`) |
| `LocalDataImplemented` | `ImplementsLocalData` | what is stored or under way was published (`PayloadsPublished`); each action is a step of `LocalData` or none |
| `SharedLocatorsAgree` | `[]SharedLocatorAgrees` | a result of a fetch is the one remembered for its locator (`Remembers`), and a locator under way has none yet (`Undecided`), so only the first of its datasets can fetch (`RunMemory`) |
| `VerdictsStand` | `[]RecordedVerdictsStand` | a run writes its rows after all its results and in one stretch (`WritesLast`, `LoopOwner`), so what it wrote is there but for the canary's (`RowsRecorded`) |
| `SourcesAreSpaced` | `CooldownSpacing` | the table of attempts is what the sources have seen of this process (`MemoryIsTrue`): it is stamped with the fetch, not with the answer |
| `RunsOnlyAdvance` | `RunsNeverRegress` | the answer a run holds is not older than the artifact (`AnswersAreNewer`), as the lock keeps other runs out |
| `RunsDegradeTheUnfresh` | `RunsDegradeOnlyUnfresh` | a dataset whose fetch failed, or is under way, is not fresh (`FailuresAreUnfresh`): nobody else stores, and by `RunMemory` no second dataset of its locator succeeds |
| **`SnapshotFilesProofs`** | | |
| `SnapshotsNeverTorn`, `ReadsAreWhole` | `[]NeverTorn`, `[]ReadersSeeWholeFiles` | every file the artifact may become after a power loss is complete and synced (`FilesComplete`); what a reader has checked is there, what it has opened is complete (`ReadersSafe`) |
| `AtomicFileImplemented` | `ImplementsAtomicFile` | with `FilesInv`, the rename is the abstract write, a power loss the abstract fallback to what may have survived, and every other step none |
| **`RegistrySeedingProofs`** | | |
| `StartReconciles` | `[]StartedMeansReconciled` | what a process has read still bears out the step it takes on it (`ReadStands`), and what it has passed in the catalog stays reconciled (`PassedReconciled`), whatever the others do |
| `SeedingKeepsHealthRows` | `HealthRowsKept` | from `ReadStands`: a health row is inserted only where there is none |
| `StatusCopiesAgree`, `LoneSeedingKeepsStatus` | `[]StatusesAgree`, `LoneSeedingPreservesStatus` | as long as no start-up has overlapped, the copies agree at every moment (`CopiesAgree`) and a process writes back what is still current (`ReadIsCurrent`) |
| **`HttpServerProofs`** | | |
| `DequeBounded`, `WindowBound`, `RefusalsJustified` | `[]TypeOK`, `[]GrantsAreSpaced`, `[]RefusedOnlyWhenFull` of the limiter | the deque is the end of the history of grants, in order, and all that was dropped has left the window (`LimiterInv`) |
| `ServerKeepsLimits` | the same three of the server | every step of the server is one of the limiter or leaves it alone (`ServerUsesLimiter`: `HttpSpec => Spec`) |
| `DecisionsAreActedOn`, `PreviewsAreGuarded` | `[]ActsOnWhatWasDecided`, `[]PreviewsAreAuthorized` | what the application has read and what is left to replay make up what was decided on, and the decision let it pass (`Decided`, `Replaying`) |
| `BodiesStayBounded` | `[]BodiesAreBounded` | while chunks come in, their total is within the limit (`Bounded`); it rests on lemmas about totals of sequences |
| **`ExchangeRatesProofs`, `SourceReportsProofs`** over `ConnectorRequestProofs` | | |
| `RequestsAreBounded`, `RequestsStayApproved`; `BundlesAreBounded`, `BundlesStayApproved` | `[]SendsBounded`, `[]OnlyApprovedUrls` | the sends so far are those of the attempts used up and of the redirects of this one (`SendsSoFar`), an attempt in backoff has a retry left, each attempt begins with an approved URL (`CallInv`); both loops do to a request only what any connector may (`ConnectorStep`) |
| `AcceptedOfEqualSizes` | `[]OnlyEqualSizesMix` | each page so far, and an answer to a form, has rows of one of the publications shown to the fetch and names its size, or no smaller one when a form became a GET (`ShownInv`, with `listed` itself always among those shown). Totals that agree with each other and with the rows leave publications that fit; a part of the only one that is as large as it, is it |
| `StillSourceComesWhole` | `[]StillSourceIsFetchedWhole` | while nothing changes, the pages so far are the first pages of the publication, and the pager names the next one until there is none (`Still`) |
| `RowsAgree` | `[]RowsAgreeWithReports` | lemmas about the three normalizations of any bundle; `BundleInv` gives them bundles whose reports are of their URLs' periods: the URLs left are the last of those of the page, and the reports held came from the ones before, unless redirects moved |
| `StillReportsWhole` | `[]StillReportsComeWhole` | the same invariant, with reports that are still those of the source; lemmas about lists of URLs say which links are on them and in which order |
| **`LocalReadersProofs`** | | |
| `AnswersAreHeld`, `AnswersAreExplained` | `[]PartsHeldDuringCall`, `[]AnswersExplainThemselves` | everything a call has read is in `held` (`CallInv`), and the row and the file stay there while the world moves (`ReadersInv`); lemmas about normalization say which answers that can make |
| `CanaryIsRight` | `[]CanaryAgreesWithQuery` | the canary's verdict is its judgement of what it fetched (`CanaryInv`), a stored file keeps what it was made of (`IsCopy`), and storing changes nothing that the pipeline judges |
| `DailyLabelsAreBounded`, `StalenessIsLasting` | `[]FreshLabelsAreBounded`, `StaleStaysStale` | lemmas about the calendar: business days between two instants are bounded by the days between them and grow with the later instant |

Two theorems carry a hypothesis of their own, because the property is about
runs among themselves: `RunsOnlyAdvance` assumes that there are no previews,
and `RunsDegradeTheUnfresh` that there is no canary either. With previews both
are false (section 5), and a canary calls a fresh dataset degraded when its own
fetch fails. `Server_runs` checks the configuration of the hypotheses.

**Only model-checked.** The six liveness properties, `LoopKeepsCycling`,
`RunsReturn`, `PreviewsReturn`, `StaleIsAttended`, `FetchesEnd` and
`ReportsEnd`: fairness and `ENABLED` are out of the prover's reach. The
violated properties of the findings are shown by TLC's counterexamples.

## 5. Findings

1. **A fresh snapshot served as stale** (`Server_stale_label`). When the refresh
   of a preview fails, the fallback uses the freshness it read before the
   fetch was awaited (`tools/preview.py:538`). If the loop has refreshed the
   artifact in between, the fresh artifact is served with the stale notice and
   the dataset is recorded degraded. `docs/OPERATIONS.md:98` allows the
   stale notice only when a stale local snapshot exists.
2. **Seeding overwrites a status** (`Seeding_status_race`). `seed_dataset` reads
   the status before its transaction and writes it back
   (`registry/repository.py:178`); a verdict another process recorded in
   between is lost from `dataset_descriptors`. Start-ups that do not overlap
   are safe (`LoneSeedingPreservesStatus`).
3. **The second of two first starts fails** (`Seeding_insert_race`). Both
   processes see no row, and the second plain INSERT raises
   (`registry/repository.py:193`).

Also noted, without a property: a run calls a dataset healthy although its
payload does not normalize (`tools/materialize.py:772-782`), where a preview of
the same payload calls it degraded (`tools/preview.py:1008-1017`), so the row
depends on who wrote last; a preview and a run may fetch one source at the
same time, and the older answer may then overwrite the newer snapshot
(`RunsNeverRegress` holds of runs only); a change of the exchange rates during a
fetch that keeps the number of rows, a corrected price or a currency in place of
another, leaves every page's date and total as they were, and the mixture of
two publications is accepted, as neither the page loop
(`connectors/sama.py:486-519`) nor the normalization
(`normalization/sama_exchange_rates_current.py:111-163`) compares anything else
but repeated currencies: `OnlyEqualSizesMix` says what is left; after a power loss the directory can
show the old snapshot under a newer row, because the rename is not synced
(no property relates the two); an export takes its label from a health call after
its query (`cli.py:405`), so a refresh in between puts a fresh label over older
records, as, in a smaller window, does the label that query reads before the
file (`tools/query.py:453`), and `PartsHeldDuringCall` therefore says of each
part only that it held during the call; one release card of the inflation
page with an unreadable date fails the whole dataset, where growth and
unemployment pass over it (`normalization/stats_gov_sa_cpi_headline_monthly.py:144`);
a policy-rate history with one unreadable row is given up for the first date
and the first percentage in the text of the page
(`normalization/sama_policy_rates.py:223`); after a buffered body the
application is never told that its client has gone
(`security/http_auth.py:523`); a budget report whose redirect ends at another
quarter's report counts for that quarter, and as this normalization does not
sort its rows they may then be out of order
(`normalization/mof_budget_balance_quarterly.py:41`), which is why
`RowsAgreeWithReports` asks for an order of POS and of fetches without
redirects only.

## 6. Not modelled, and the plan

Left for later: the schema migration of `registry/repository.py`, with two
builds of different columns on one volume beyond what `Seed` of
`RegistrySeeding` says, and a second process that runs the materialize command.

Left out for good: patterns that read numbers and dates from text, PDF and
workbook extraction, column labels, the filters, limit and text match of query
and search, which select among records or rows and have no state, the
rendering of exports, wording of results, logging and metrics, argument
parsing, schemas, the static catalog and resources, and the dashboard: they
are conversions or read-only data that no state depends on.
