# cytadel-scan in TLA+

A specification of cytadel-scan (a network vulnerability scanner in C: worker
threads that scan hosts and run Lua plugins, an SQLite file with scan results
and a mirror of the NVD, KEV and EPSS feeds, a report generator), model-checked
with TLC on small instances and proved with TLAPS for all of them.

`PROJECT.json` lists the components, the runs, the source lines every
definition stands for, the mutants each property was tried against, the
findings, the hazards and the theorems.

## 1. The system

| Component | State it keeps | Operations | Interacts with |
|---|---|---|---|
| NVD synchronisation (`sync_cmd.c`, `nvd_catchup.c`, `nvd_sync.c`) | the watermark in `sync_state`; per run: `now`, cursor, window, page offset, counters | read watermark, cut windows, fetch and ingest pages, caps, return | NVD HTTP client, ingest, the cron wrapper's lock, the feed itself |
| NVD ingest (`nvd_ingest.c`) | `cves`, `cve_cpe_matches`, `sync_state` | one transaction per page: upserts, watermark | database |
| KEV and EPSS (`kev_*.c`, `epss_*.c`) | `kev`, `epss`, placeholder rows of `cves`; per pull: offset, page count | KEV: one transaction per catalog; EPSS: pages by offset, one transaction each | database, NVD ingest (same rows) |
| NVD HTTP client (`nvd_fetch.c`) | per call: attempt, body buffer, delay | fetch a page or a document, write callback, retry, back-off | libcurl, the feeds' synchronisation |
| Worker pool (`worker_pool.c`) | cursor, result slots, threads | create, claim, scan, join | main, host scan |
| Host scan (`host_scan.c`, `discovery.c`, `port_scanner.c`, ...) | one result, one KB | discovery, ports, services, plugins | plugins, KB, network |
| Plugin registry, scheduler, dependency graph (`registry.c`, `register.c`, `depgraph.c`, `scheduler.c`) | plugin headers in their order | load, sort by dependency, fan out to ports, skip | KB, plugin invocation |
| Service detection and TLS (`service_detect.c`, `svc_*.c`, `tls_*.c`, `http_probe.c`, `banner_grab.c`) | none | probe a port, write what it is | KB, network |
| Plugin invocation and sockets (`invoke.c`, `api_socket.c`, `fd_tracker.c`, `api_http.c`) | a Lua state, a tracker of descriptors; the process's descriptor table | connect, close, `__gc`, `__close`, sweep | other worker threads through the descriptor table |
| Knowledge base (`kb.c`, `kb_validate.c`) | a per-host chained hash table that grows | set, get, list | host scan, plugins |
| Scan orchestration (`main.c`, `auth_gate.c`) | `db_ok`, `pool_rc`, exit status | authorize, open the gate, run the pool, persist, finalize | all of the above |
| Scan persistence (`scan_wiring.c`, `scan_persist.c`) | `scans`, `scan_results` | create, persist a finding, match a port against CVEs, finalize | database; sync and report processes on the same file |
| CPE matching and versions (`cpe_match.c`, `version_compare.c`) | none | verdict of a candidate, order of versions | scan persistence |
| Reports (`report_*.c`) | none | resolve a scan, header, summary, findings | database |
| Database (`db.c`, `db_migrations.c`) | schema version, connection settings | open, pragmas, migrate | every process |
| Targets and ports (`target_list.c`, `cidr.c`, `port_range.c`, ...) | lists | parse, expand, limit | main |
| Logging, banner, arguments; sandbox, debug support | - | - | - |

### What is hard here

* **Several processes on one SQLite file.** Scan, sync and report share it in
  WAL mode. Whether a write waits for the lock or fails at once depends on what
  the transaction did before, and reports read by several transactions.
* **Incremental mirroring of a feed that moves.** A watermark stands for
  everything before it; windows, pages, caps, failed calls and kills must never
  let it get ahead of the stored data.
* **Threads that share a descriptor table.** A number is reused by another
  thread the moment it is closed, so a second close through any of four paths
  hits a stranger's connection; and allocation can fail between the connect and
  its registration.
* **Partial failure.** A thread that cannot be created, a row a constraint
  rejects, a database error at one unit of one host: the scan must go on or end
  and must not call itself complete. A statement of a migration, an allocation
  while a table grows, a transfer in the middle of its body: what was there
  before must still be whole.
* **Hand-written algorithms on what strangers send.** Version order, UTF-8,
  prefix masks, calendar arithmetic, buffer growth: each has boundaries that a
  table of examples seldom meets.

`PROJECT.json` lists these one by one under `hazards`, each at its line.

### What makes each component correct

* synchronisation: nothing before the watermark is missing (`WatermarkCovers`),
  no revision is replaced by an older one, the watermark does not go back, OK
  means caught up, every revision is stored in the end;
* worker pool: one writer per slot, no target lost or scanned twice, no thread
  left when it returns, it returns;
* plugin sockets: no handle or tracker slot ever names another connection's
  descriptor, nothing stays open after an invocation;
* scan run: 'completed' and exit status 0 only for scans that lost nothing, no
  half-stored detection, a final status is final, a report of a finished scan is
  exact, every scan ends;
* feeds: a feed reported as refreshed is stored completely, no writer of `cves`
  undoes another, a placeholder is there because something names it, match rows
  stay;
* migrations: the schema on disk is always that of one version, OK means the
  last one, a process loses only to one that overtook it;
* HTTP client: a body is one whole answer that fits its buffer, requests and
  sleeps of a call are bounded, the API key goes to NVD over https only, a call
  returns;
* knowledge base: a map, whatever the table does;
* registry and scheduler: a directory is refused exactly when no order exists, a
  loaded one is in such an order, a plugin is offered every port of its service;
* service detection: what is written of a port is consistent;
* algorithms: they compute what an independent definition says.

## 2. Modules

| Module | Models |
|---|---|
| `NvdSync` | `cytadel-scan sync` up to KEV and EPSS: lock, watermark, windows, pages, ingest; the feed |
| `CveMirror` | what `NvdSync` promises: a mirror with an exact watermark |
| `NvdSyncProofs` | theorems about `NvdSync` |
| `WorkerPool`, `WorkerPoolProofs` | `cytadel_worker_pool_run`, its threads, and main's consumption of the results |
| `PluginSockets`, `PluginSocketsProofs` | descriptors of plugin invocations |
| `ScanRun`, `ScanRunProofs` | main's `scan` and its transactions, with other scans, a sync and a report |
| `CveStore`, `CveStoreProofs` | the rows NVD, KEV, EPSS and findings share: placeholders, upserts, the EPSS pull |
| `DbMigrations`, `DbMigrationsProofs` | several processes that open the database and migrate its schema |
| `NvdFetch`, `NvdFetchProofs` | calls of the HTTP client: attempts, pieces of the body, back-off |
| `HostScan`, `HostScanProofs` | one host from the plugin directory to its findings; composes the next three |
| `KbTable` | the hash table of the knowledge base: lookup, insertion, growth |
| `PluginRegistry` | registration, dependency check, topological sort |
| `ServiceDetect` | what the probes of a port make of its answers |
| `KbMap` | what the knowledge base promises: a map |
| `Algorithms` | the run over all pure functions: composes the next six |
| `Calls` | a call of a pure function and its result |
| `ScopeCalls`, `VersionCalls`, `GateCalls`, `ReportCalls`, `CalendarCalls` | the calls of each part, with the reference definitions they are compared with |
| `VersionCompare`, `CpeMatch` | the version order, and the verdict of a product's candidate rows |
| `Targets` | CIDR blocks, target tokens, the targets file, duplicates, caps, port ranges |
| `CivilTime` | calendar arithmetic and time stamps of the watermark |
| `KbValidate` | the checks of a key and of a value (length, byte 0, UTF-8) of the knowledge base |
| `TextCodec` | HTML, JSON and URL escaping, the growing buffer |
| `MC*` | the constants of the runs |

Components use each other by what was shown of them. `ScanRun`'s `Pool` returns
with success only if every target was scanned (`PoolIsComplete` of
`WorkerPool`), and its sync commits whole pages. `WorkerPool`'s `FinishScan` is a
run of `HostScan` (`HostScanEnds`). A failed call of `NvdFetch` is `CallFails` of
`NvdSync` and `KevFails`, `EpssFails` of `CveStore` (`CallReturns`). The instants
of `NvdSync` are numbers because of `InstantsAreExact`; the verdicts of
`ScanRun`'s pages are those of `CpeMatch`.

### NvdSync

Instants are numbers; a record is a number and a revision count. `StartSync`
is the wrapper's `flock -n` and `cytadel_sync_cmd_run` up to the catch-up;
`ReadWatermark`, `CaughtUp`, `TooManyWindows`, `StartWindow` are the loop of
`cytadel_nvd_catchup`; `FetchPage`, `PageCapReached` and `IngestPage` the loop
of `cytadel_nvd_sync_window`. Fetching is one step and ingesting another: between
them the feed moves and the process can die. `IngestPage` is the whole
transaction of `cytadel_nvd_ingest_page`, upserts and watermark together, with
the loop advance that follows. `CallFails` is any failing call, `Kill` the death
of the process at any point. The feed lists what was modified between two
instants, both included, in a fixed order and by offset.

`StableFeed` says whether a record may be published while a window is half
paged through. The properties hold with it; `nvd_sync_live_feed` shows what
happens without.

### WorkerPool

Threads claim targets by `atomic_fetch_add`; `pthread_create` may fail at any
thread, `pthread_join` at any join. `ConsumeResult` is main reading and freeing
the results after the pool has returned. The properties are stated for runs
without a failed join, which the code logs and POSIX gives no reason for.

### PluginSockets

One action per way a descriptor is opened (`OpenSockTcp`, `HttpGet`) or closed:
`CloseCurrent` (a connect that failed, an HTTP exchange that ended),
`CloseSock` (`close_sock` and the to-be-closed variable), `Finalize` (`__gc`,
while the plugin runs or when the state is closed), `ForceClose` (the sweep).
`SocketClose` is their common path with its two tests of the tracker. An
allocation can fail in the tracker's `realloc` and in `lua_newuserdatauv`.

### ScanRun

One process per scan. A transaction that only writes waits for the lock; the
one of `cytadel_scan_detect_and_persist` has read before it writes and may only
go on if nobody holds the lock and nobody has committed since (`MayWrite`,
`stale`). A port's transaction is split into its steps: `BeginDetect` (the
SELECT), one `FlushGroup` per CVE, `CommitDetect`. A finding is a transaction
that begins with a write. `PersistFails` is ERR_DB: rollback and the `db_ok`
latch. `Kill` can come anywhere. The report reads header, summary and findings
by three queries.

### CveStore

What a feed says of a CVE is a number: NVD's revision, the KEV entry's edition,
the day of an EPSS score; 0 is nothing. A sync is `StartSync`, pages of NVD
records (`FetchNvdPage`, `IngestNvdPage`; which records a page has is open here
and fixed in `NvdSync`), `NvdReturns`, the KEV catalog (`FetchKev`, `IngestKev`,
`KevFails`) and the EPSS pull (`FetchEpssPage(n)`, where n is what the server
caps the page to, `IngestEpssPage`, `PageCapReached`, `EpssFails`), each feed
whatever the one before returned, as in `cytadel_sync_cmd_run`. `ok` is its
`kev_ok` and `epss_ok`. One sync runs at a time: the wrapper's lock is
`NvdSync`'s. `Kill` can come anywhere. A finding is `BeginFinding`, two reads
outside a transaction (`LookupKev`, `LookupEpss`) and the transaction
`InsertFinding`, or `FindingFails`. The three placeholder INSERTs are one
operator, `Placeholder`; the foreign key is `Referable`.

The ingests of KEV and EPSS also leave out records and still end well: those
beyond the cap on entries, and those whose values cannot be bound for want of
memory, before their placeholder was inserted or after it (`Skip`; `gone` is all
of them, `late` the ones with a placeholder). Such a document spends one of
`MaxFailures`. A record that NVD's ingest cannot bind is one that its page does
not have: which records a page has is open anyway.

`catThen`, `dayThen` and `listed` are history: what the feeds said when the run
began. `skipped` is history too, the records that the run left out in this way
and counts as skipped, and so is `orphans`, the placeholders that stayed without
a row that names them. `RunIsComplete` and `PlaceholderIsReferenced` except
them by name, so that nothing else may be missing or left over. `LiveListing`
says whether a CVE may leave the EPSS listing while it is paged through; that
one joins is always possible. A finding whose CVE is malformed is stored with
NULL and touches nothing here: it is one of `ScanRun`'s units.

### DbMigrations

A process is `Open`, the journal-mode pragma (which does not wait for a lock,
because `busy_timeout` is set after it: `JournalBusy`), `EnsureTable`,
`ReadVersion`, and per migration `BeginMigration`, one `ExecStatement` per
statement, `RecordMigration`, `Commit`. The version is read outside of the
transactions, so another process may apply the same migration in between; then a
statement finds its table or column there (`StatementFails`). `CallFails` is a
disk error or a lock that stays taken, `Die` the end of the process, and
`Close` leads to the next start of the program.

### NvdFetch

`FetchPage` and `FetchGet` are the two entry points, `CallFails` their early
returns. `feed` is whose server is called and `https` how, both by the caller's
choice; `attach` is the flag that each entry point passes to the loop. An attempt
is `Prepare` (the headers and a write context of its own; `header` is what the
list holds: the key, nothing, or nothing because memory ran out), `Request`,
`WriteChunk` and `WriteAborts` for the write callback, and an `Answer...` action
for what `do_one_attempt` makes of a status; `NoHandle` and `Refused` are its
early ends. `GiveUp`, `Retry` and `Sleep` are the loop. The delay of a retry is
any value within the jitter. `KeyStaysPrivate` looks at the headers of the
request under way and at the server it goes to, not at the flag: the mutant, a
`FetchGet` that passes the flag of a page, breaks it. `from` (whose bytes the
buffer holds), `requests` and `slept` are history.

### HostScan

`Load` is the registry's steps (`PluginRegistry`), then main aborts or starts the
scan; `CreateKb`, discovery (`IcmpEchoProbe`, `FallBackToTcpPing`, `TcpPing`,
`SkipDiscovery`), ports, `DetectService` and the scheduler's turns follow. A step
that writes the knowledge base puts its writes in `todo` in the order of the
code, and `KbWrite` makes them one by one, each of which may fail without being
noticed, as in the code. `KbTable` keeps the buckets, each with the set of its
entries: the order of a chain shows only in `kb_foreach`, whose one user sorts
what it collects. `Set` finds, grows and inserts; growth that fails leaves the
smaller table. `WildcardTurn` collects the ports of a service once (all of them,
or those whose place could be allocated), `WildcardPort` takes the lowest of
those that are left and looks up the other keys for every port again. What a plugin does is a choice of up to `MaxOps` calls.
`KbIsMap` is the refinement: with `map` as the function `Get` computes from the
buckets, every behaviour of the table is one of `KbMap`. `hist` is history.
A scenario is a run's options, plugin directory and port list; the list has no
port twice, as `port_range.c` marks ports in a bitmap. The keys that the scanner
writes are valid ones (`KeyAssumption`); which keys `kb_validate_key` accepts is
the subject of `GateIsExact`.

### Algorithms

The functions are operators over tokens (a number, a word, a separator; a
character of a class) rather than bytes, in the modules named after what they
do. A `...Calls` module makes the calls of one part and compares each result with
a definition that does not use the algorithm: versions with the order of their
dotted numbers and with the laws of an order, verdicts with intervals, CIDR
blocks with division by a power of two, UTF-8 with RFC 3629, escaped text with
what a reader decodes, links with the grammar of a scheme in RFC 3986, day
numbers with a walk from day to day. Its
specification (`ScopeSpec`, `VersionSpec`, `GateSpec`, `ReportSpec`,
`CalendarSpec`) leaves open what else is called. `Algorithms` makes all the
calls, one after the other, over all bounded inputs; its `CallsSpec` implies
each of the five (`EveryPartIsCalled`).

Loops are recursive functions over the turns (`Joined`, `Grown`, `ExpandAll`,
`SetPorts`, `MatchCandidates`), and bit operations are sums over the bits, with
`AddressBits` of them. The turns of a loop without a counter are bounded by a
number it cannot exceed: `Grown` makes `SizeMax` turns, of which all after the
last doubling change nothing. A CVE id is a natural number, because the rows are
sorted by it and nothing else is asked of it. `qsort` is `InOrder`, the sequence
in which as many elements come before an element as are smaller.

What the machine refuses is an argument: the targets file
may not open, `fgets` may stop delivering lines before the end (the code takes
that for the end), and memory may run out at any growth of a list, for the last
pass over it, or for the buffer of a report. An accepted target list is what was
read (`TargetListIsExact`), a refused one has a reason in the input or in such a
failure (`TargetRefusalHasReason`). A link may name any host after http or
https; what is excluded is another scheme, and a host without a scheme. A run of
letters of a link is one character of the model, with "http" and "s" told apart
from others, digits and "+", "-", "." being characters a scheme may continue
with; an entity is the three characters "&", its name and ";", because a name
without the others must be read as text.

## 3. Runs

| Run | Instance | Shows |
|---|---|---|
| `nvd_sync` | 2 processes, 3 records (1 malformed), pages of 1, at most 2 pages and 2 windows a run, windows of 1 and 2 instants, 4 instants, 2 revisions, 1 failure | the safety properties, and that `CveMirror` is implemented |
| `nvd_sync_live` | 1 process, 3 records, pages of 2, 1 window a run, 3 instants, 2 revisions, 1 failure | every revision is stored in the end |
| `nvd_sync_live_feed` | `StableFeed = FALSE` | violation: `WatermarkCovers` |
| `worker_pool` | 4 targets, 5 workers asked for, cap of 3 | all properties of the pool, liveness included |
| `plugin_sockets` | 2 threads, 2 descriptors, 3 connections each, 2 failed allocations | handles, slots, leaks, and that descriptors return |
| `scan_run` | 1 scan of 2 hosts with 1 finding and 1 port each, 2 overlapping pages (1 CVE without verdict), all failures | the safety properties, the loop over hosts, and that the scan ends |
| `scan_run_busy` | no failures | violation: `SyncDoesNotFailScan` |
| `cve_store` | 3 CVEs, 2 malformed and only in the EPSS listing, the third named by all; pages of at most 2, cap of 2 pages, 2 revisions, 1 KEV edition, 2 days, 1 failure or document with skipped records (4.95 million states, the longest run: about two and a half minutes) | foreign keys, placeholders, match rows, no downgrade, completeness |
| `db_migrations` | 2 processes, 3 migrations of 2, 1 and 1 statements, 2 faults | whole schemas, who may lose, and that every process gets through |
| `nvd_fetch` | 2 retries, cap of 5 bytes, first allocation of 2, pieces of 0, 1 and 3, back-off 4 up to 6, Retry-After 1 and 4 capped at 2 | the body, the bounds, the key, and that a call returns |
| `host_scan` | ports 22, 161, 443, 993; up to 3 plugins in every graph of at most one dependency each, named once or twice; broken and missing plugins; 4 buckets at first; 1 call per plugin; at most 1 failed allocation | load, detection, scheduling, the table, and that the scan ends |
| `algorithms` | 24 versions in all triples, up to 3 of 13 rows, 4-bit addresses and up to 17 targets, 2 tokens and 1 line (and one too many), 8 failures of open, read and memory, 16 ports, 430 days from 8 years, report texts of 4 characters, values of 5 bytes where 4 are allowed, a `size_t` of 15 | the functions against their definitions |

A property that is a conjunction of named parts (`OnlyAdvances`,
`PoolIsComplete`, `ClosesOwnOnly`, `GoodIsWhole`, `RowsFit`, `SchemaIsWhole`,
`BodyIsSound` and those of `algorithms`) is one question; the parts
carry their own comments. Every module has a `TypeOK`; the runs check those of
`NvdSync` and `CveStore`, which are proved as well.

**Why the bounds are enough to be interesting.** Three records on pages of one
or two give several pages, a record that moves from one page to the other, a
malformed one on any of them, and a listing longer than the page cap; windows of
one and two instants over four instants give a cut last window, a shared boundary
and both caps; two processes are what it takes to overlap. Four targets for three threads make threads claim again and
run past the end. Two threads that open three connections each on two
descriptors reuse every number and run out of them, and a tracker that starts
with one slot grows. A scan, a sync and
a report give every pair of a reader that becomes a writer and another writer;
that scans do not disturb each other is proved for any number of them, and so
checked with one. One CVE is enough for the interplay of the writers of
`CveStore`, because every statement is about one CVE and the rows of two do not
meet; two revisions and two days make old and new data differ. Positions do meet
in the EPSS listing: with three CVEs, pages of two records reach the last one
before the cap of two pages and pages of one do not, and a CVE that joins shifts
the ones after it.
Two processes and three migrations give one that overtakes the other at every
statement, also after a death in between. Pieces of 0, 1 and 3 bytes reach a cap
of 5 exactly and pass it, and meet an allocation that is full, one short and
empty. Three plugins make chains, cycles of one, two and three, a dependency
named twice and one on a plugin that was skipped; four buckets grow twice. The
versions have every kind of component the comparison distinguishes, attached and
on its own; four address bits
have the prefix 0, one in the middle and one that is too long, and lists of 17
and 18 entries before duplicates are removed, at the cap and above it. A failure
meets specs of up to `FaultyTokens` tokens with every file: the file does not
open, delivers no line or only the first, or memory is refused for a line, for
the first target, for a later growth of the array or for the last pass;
the years have leap years, a century that is none and one that is, and the ends
of four digits. `worker_pool` alone is run without the deadlock check, because it
ends.

**Symmetry** (of processes) is used in `nvd_sync` only, which has no liveness
property.

**Fairness.** `NvdSync`: the clock goes on; a process that is not killed takes
its next step; the timer's run is not locked out for ever by runs somebody else
starts (strong fairness of `StartSync` with the current time: a systemd timer or
cron retries periodically, and a run ends). `CveStore` has no liveness property.
`DbMigrations`: a process that does not die goes on. `NvdFetch`: the process
runs, and a transfer ends in the end although a server sends piece after piece
(strong fairness of `TransferEnds`: `CURLOPT_TIMEOUT` bounds a whole transfer).
`HostScan`: every step goes on, being bounded by a timeout or by the data it
walks. `WorkerPool`: threads are scheduled
and host scans end, as every socket operation has a timeout. `PluginSockets`:
the same, and a plugin ends. `run()` does at the latest by the runtime hook,
which is installed at `invoke.c:321` after the top-level chunk has run at 280;
that the chunk itself ends is an assumption (a hazard with no property).
`ScanRun`: main takes its next step; a waiting write gets the lock or its busy
timeout ends.

## 4. Theorems

All are for every value of the constants, under the assumptions named in the
modules (`NvdAssumption`, `PoolAssumption`, `SocketAssumption`,
`ScanAssumption`, `StoreAssumption`, `MigrationAssumption`, `FetchAssumption`;
`KbTableAssumption`, `ScenarioAssumption`, `FileAssumption` and `KeyAssumption`
for `HostScan`; `VersionAssumption`, `VersionCallsAssumption`,
`TargetsAssumption`, `ScopeCallsAssumption`, `KbValidateAssumption`,
`GateCallsAssumption`, `TextCodecAssumption`, `ReportCallsAssumption` and
`CalendarAssumption` for the pure functions), which TLC evaluates in the runs.
They say what the constants are (numbers, sequences, the hash a function on
keys, a version a sequence of lexemes), that bounds are positive where the
code's are, and nothing about the behaviour.

**NvdSync** (`Coverage`, `OkIsCaughtUp`, `Refinement`, and `StoreOnlyAdvances`
from `NoStalePage` and `WatermarkMonotone`; `TypeCorrect` without `StableFeed`). `WatermarkCovers` is not
inductive: the last page of a window moves the watermark over records that
earlier pages stored. `IInv` adds that only the lock's holder runs (`LockInv`),
that a window starts at the watermark and ends by `now` (`WindowInv`), that a
fetched body is between the stored revision and the feed's (`BodyInv`), and an
account of the pages: every position of the window's listing below the offset is
current (`FetchInv`), or will be when the body in hand is stored (`IngestInv`,
`LastInv`). The step from "all positions below the total" to "all records of the
window" is `RankBelowTotal`, a fact about cardinalities. The refinement maps the
variables by name; a page commit is a `Mirror` step, every other step of a
process a stutter.

**WorkerPool** (`Ownership`, `NoRescan`, and `PoolComplete` from
`CompleteOnReturn` and `CompleteOnSuccess`). `Inv` says that claimed indices lie below the cursor and are
distinct, that a slot's content follows from the cursor and the claims, and how
far main is.

**PluginSockets** (`NothingLeaks`, and `ClosesStayOwn` from `HandlesStayOwn` and
`SlotsStayOwn`). `IInv`
adds that connections are numbered without reuse, that a handle and a tracker
slot of one connection agree or one of them is marked closed, what an invocation
has in each phase, and (for the leak) that every open descriptor is held by
somebody who will close it, as long as one allocation at most has failed.

**ScanRun** (`DetectionsWhole`, `ExactReports`, `FinalStays`, and `GoodScans`
from `CompletedScans` and `SuccessfulScans`). `ScanInv` relates, per scan, the position in the
loops to the units stored or skipped: as long as `db_ok` holds, everything before
the position is. For the detections it relates the pending rows and the groups
still to come to one state of the mirror; for the report it says that what was
read under a final status is still there.

**CveStore** (`TypeCorrect`, `RowsCorrect`, `RowsOnlyAdvance`,
`RefreshedIsComplete`). The two parts of `RowsFit` are inductive with the types,
by one lemma per writer of the tables (`IngestNvdEffect`, `IngestKevEffect`,
`IngestEpssEffect`, `InsertFindingEffect`) and one that there is no other
(`Writers`). That nothing is replaced by older data needs `Fresh`: tables and
catalog snapshot are not ahead of the feeds, and a body in hand is not behind
the tables. Completeness of a pull needs `Pull`: what was listed since the pull
began is still listed, every position below the offset is stored, and so is
every position below offset + count once the body in hand is. A CVE that joins
the listing pushes others to later positions, never to earlier ones
(`RankGrows`), so nothing slips below the offset; at the last page every
position is below the total (`RankBelowTotal`). All of it is said of the records
that are not in `skipped`, which only grows while a run lasts, and a record left
out is not written, so it disturbs neither order nor ages. `RefreshedIsComplete` assumes
`~LiveListing`, and it has to: with `LiveListing = TRUE` TLC
refutes `RunIsComplete`.

**DbMigrations** (`AlwaysOneVersion`, `OnlyTheOvertakenFail`; `TypeCorrect`).
That the schema is whole is not inductive, because statements of an open
transaction are not visible in it. `IInv` adds that whoever has written holds the
lock (`LockInv`), that every version a process has read or passed is recorded
(`LoopInv`), and that a transaction that has written is about a migration nobody
has recorded (`TxnInv`): the first statement of an overtaken process fails, so a
transaction that gets past it was not overtaken, and as long as it holds the lock
it will not be. Its commit takes the schema from `UpTo(n)` to `UpTo(n + 1)`.

**NvdFetch** (`BodyAlwaysSound`, `CallAlwaysBounded`, `KeyAlwaysPrivate`;
`TypeCorrect`). `OneAnswerInv` says that the buffer holds bytes of the request
under way and of no other; `ProgressInv` counts requests and sleep against the
attempt, phase by phase, a delay being at most `MaxDelay`. `KeyInv` is what the
key needs: while a call lasts its flag is set exactly if it is for NVD, and from
`Prepare` to the end of an attempt the header is empty exactly if flag, scheme
and environment do not allow the key. The buffer's growth
and the back-off are recursive functions. That they are defined and what they
bound (`DoublingsGrow`, `BackoffIs`, `GrownIs`) is proved by induction in the form
of a least counterexample, which needs no operator as a parameter: there is a
smallest number for which the claim fails (`Least`, from the well-foundedness of
`<` on the natural numbers).

**HostScan** (`LoadAlwaysExact`, `EveryServiceAlwaysOffered`, `KbAlwaysMap`,
`TokensAlwaysFollowTls`; `Inductive`, `TypeCorrect`). Four arguments over one
invariant.

* *Load.* `OrderInv` and `DegreeInv` are Kahn's: the order so far is legal and
  names nothing twice, and the in-degree of every other plugin is the number of
  mentions of dependencies not placed yet, so paying it down once per mention
  ends at zero for the plugins that can run. When the sort stops early, every
  plugin left over waits for another one left over. In a legal order of all of
  them one of these would come first (`Least`), and has its dependencies before
  it: there is none.
* *Table.* `SoundTable`: every entry is in the chain of its key and no key has
  two. `PutIs` says what a write does to the entries and `RehashIs` that growth
  moves them all, so `Set` changes `Get` at its own key only (`SetIs`). The
  refinement is a case split: `KbWrite` and a plugin's write are a `MapSet` or a
  stutter, all others leave the buckets alone.
* *Ports offered.* `OfferInv`: a port of its service that a plugin was not
  offered is one that its turn has still in hand, or was written by plugins of
  its own turn or later. A dependency's turn is an earlier one, by
  `LegalOrder`, so at the end only the first case is left for what it wrote.
* *Detection.* `DetectInv`: until the first plugin runs, every port either holds
  nothing or is open, behind the position of the loop, and holds the keys and
  values that one answer of its probes leads to and no others. What a port holds
  is what is stored or still waiting in `todo`, so that the statement survives
  every single write. `DetectIs` is what `DetectPort` writes for each combination
  of answers; that two ports do not share keys is `PortsDiffer`.

**The pure functions.** Each theorem is about all calls of its part, for texts,
lists and numbers of any size, and stands in the module of the component that
uses the functions: `CalendarHolds` in `NvdSyncProofs`, `VersionOrderHolds` and
`VerdictHolds` in `CveStoreProofs`, `GateHolds` in `HostScanProofs`, `ScopeHolds`
in `WorkerPoolProofs`, `ReportHolds` in `ScanRunProofs`. `EveryPartIsCalled`
carries them over to the specification of the run. A loop is dealt with in
the same way everywhere: that the recursive function has values (`RunExists`) and
that a statement about its turns holds of all of them (`UpTo`) are shown by the
least turn for which they fail, as in `NvdFetch`.

* *Calendar.* A year is written as 400 e + 100 c + 4 q + r, which makes the
  divisions of the two functions explicit: a day number is the start of its March
  year and a day of that year (`DaysFromCivilIs`), and `CivilFromDays` finds both
  (`CivilFromDaysIs`). Within the year the months are gone through one by one
  (`DayOfYearIs`). So a date survives the way to its number and back
  (`DateOfDay`), and the day after it has the next number (`NextDay`); `WalkInv`
  keeps the walk on the date whose number it holds. Time stamps follow from what
  division leaves of milliseconds (`ParsesBack`).
* *Versions.* A comparison is decided at the first position where two component
  lists differ in rank. Every position holds a symbol (a number, a word of a rank,
  the end of the list), and comparing symbols mirrors (`BothMirror`) and composes
  (`BothTransitive`); the lists inherit it by comparing the two first positions
  (`FirstMirror`, `FirstTransitive`).
* *Verdicts.* `RowsInv` says after n rows that the finished verdicts are those of
  the CVEs before the current one, and that what was seen is what the rows of
  the current one gave. Sorted rows make the groups intervals.
* *Gate.* One turn of the UTF-8 loop accepts exactly one character of RFC 3629,
  whose length its first byte determines; so the positions where the loop stands
  are the only places to cut the text, and both definitions agree from the end
  backwards (`BackwardRun`, `Utf8Is`). Length and byte 0 are said of the same
  value.
* *Scope.* The bits of a mask, of the network and of a host number add up
  (`AndSum`, `OrSum`): a mask keeps a multiple of a power of two, and a host
  number below that power adds to it, so a block is an interval of addresses.
  `Covers` says that the list so far holds the addresses of the tokens read and no
  others, with the cap. `IsSum` counts what the tokens so far name, each in full:
  as long as nothing is refused the list is that long, so a refusal has its
  reason at the token where it comes, or in a failure. A file that stopped
  delivering is a shorter file. In the sorted keys the first of each run is the earliest
  position of its address (`DedupIs`). Ports: `PortBit` is injective.
* *Report.* `JoinedIs` cuts an escaped text where the pieces of its characters
  meet. Spellings that begin alike differ at the second character, so a reader
  that stands on a cut reads the character of that piece and lands on the next
  cut. A link: no character a browser skips gets through, the characters a
  scheme may have are written as they are and ":" comes from nowhere else, so
  whatever the grammar takes for a scheme of the output is the run that the
  scanner found in the input and compared with http and https. A buffer doubles at most `SizeMax` times before it is large enough
  (`GrownIs`).

Only model-checked: the liveness properties (`EventuallyStored`, `Terminates`,
`EventuallyClosed`, `ScanEnds`, `EveryProcessGetsThrough`, `CallReturns`,
`HostScanEnds`), which depend on fairness and are out of this prover's reach, and
the two violations. Every other property of a passing run is a theorem.

## 5. Findings

1. `nvd_sync_live_feed`: a record modified while its window is paged through
   leaves the listing, the offsets shift, and another record is never fetched
   although the watermark passes it, against "never skipping data"
   (`nvd_sync.h`). It comes back only when it is modified again.
2. `scan_run_busy`: a sync that writes while a port is matched makes the scan
   fail with SQLITE_BUSY at once, although `busy_timeout` is documented to avoid
   this: the transaction is deferred and has read before it writes.
Smaller disagreements met while modelling, which no run is kept for:

* earlier pages of a failed window are committed; `nvd_catchup.h:133` says they
  are not. Harmless, as the watermark stays.
* the sweep does not reach a socket whose registration in the tracker failed,
  which `invoke.c:186` says it is for. A leak takes a second failed allocation:
  `NoLeak` is stated, and proved, for one at most.
* `report` takes the latest scan also when it is running; `architecture.md:178`
  says it only reads after persistence has completed. `FinalReportIsExact` is
  about the finished ones.
* a CVE that leaves the EPSS listing between two pages shifts the offsets, and
  the pull returns OK without one that was listed all the time; `epss_sync.h:85`
  says OK means the entire feed. The next pull is again a full one.
* a plugin file that fails to register is skipped, "a broken plugin never aborts
  the scan" (`plugin-api.md:465`), but when another plugin depends on it the
  registry fails to load, and with `--plugins-dir` the scan does (`AbortMain`).
* NVD's upsert keeps `published` (`nvd_ingest.c:532`), so a CVE that had a
  placeholder keeps the placeholder's time as its publication date;
  `kev_ingest.c:121` says every column is overwritten.
* the KEV flag and the EPSS score of a finding are read by two statements with no
  transaction around them (`scan_persist.c:857`) and may come from two states;
  `scan_persist.h:316` calls them a point-in-time snapshot.
* `db.h` calls migrating safe on every process start. On a new file a process
  may fail although nothing is broken: the pragma that switches to WAL does not
  wait, and a process that was overtaken meets "already exists". The next start
  succeeds (`EveryProcessGetsThrough`), and the file is whole throughout.
* `nvd_fetch.h:158` says a transport failure is never retried; the code, and item 5
  of the same header, retry a transfer that broke and give up at once only when
  the write callback aborted.
* `nvd_fetch.h:165` says of `RATE_LIMITED` that every retry was rate-limited; the
  code returns it when the last attempt was. A delay may exceed `backoff_max_ms`
  by the jitter, a quarter of it, which `CallIsBounded` accounts for.
* the read loops of the banner and HTTP probes have a timeout per read and none
  for the whole, so a server that drips bytes holds them until the buffer is full.
* an HTTP answer without a byte still makes the port a `www` service.
* two spellings of a port ("22" and "022", which a plugin may write) are two
  matches of a service wildcard, and the plugin runs twice for the port.
* `version_compare.h` describes some words as compared lexically where the code
  answers "undecidable".
* a finding for which the list cannot grow is dropped without a word to the
  plugin (`api_report.c`).
* `targets_file.h:51-55` says the reader returns every content line, and its line
  limit is explained by the harm of truncating silently (`targets_file.h:22-26`).
  The loop ends when `fgets` returns NULL and does not ask `ferror`
  (`targets_file.c:131`), so a read error (a directory given as the file, a
  failing disk) is the end of the file: the lines read so far are returned with
  OK, and with `--targets` beside it the scan covers less than was named.
  `ScopeIsExact` is stated, and proved, of what was read.
* a KEV or EPSS record that cannot be bound after its placeholder was inserted
  (`kev_ingest.c:363`, `epss_ingest.c:333`) leaves the placeholder without a row
  that names it; harmless, as NVD fills it and detection does not read it.

## 6. Not modelled, and the plan

Not modelled: logging, the banner and the command line (pure I/O); the
configuration of the Lua sandbox and the debug support, which exists for tests;
the fields of the feeds' JSON and the choice among CVSS vectors (a record is
well-formed or skipped); what HTTP answers, banners and certificates contain
(detection takes the outcome of parsing as a choice); the layout of the two
report documents; the packets of the probes.

Nothing is left to prove of the safety properties. What a next version of the
project could add is the resolution of services to vendor and product
(`scan_wiring.c`), the choice among CVSS vectors (`nvd_ingest.c`), and a model of
`http_get`'s parser.

The definitions stand for a little over a third of the implementation's lines;
the rest is mostly parsing, rendering and headers.
