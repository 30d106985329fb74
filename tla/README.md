# FRACTURA in TLA+

A verification project for FRACTURA, which loads the purchase orders of ChileCompra
month by month into DuckDB, derives alerts from them and serves them
(`src/backend`), survives its own crashes by a watchdog (`src/watchdog.sh`), and shows
what it has in a single-page application (`src/frontend`).

## The system

| Part | State | Operations | Talks to |
|---|---|---|---|
| ChileCompra loader, `loaders/chilecompra.py:34-203`, `POST /seed/chilecompra` | tables `organismo`, `empresa`, `contrato`, `alerta`; the frames of one request | compute the frames of a month, delete the slice, insert row by row, count | the shared connection |
| Pattern detection, `loaders/chilecompra.py:206-359`, `POST /detect/chilecompra` | `alerta`; list of slices, data frame of one rule | list slices, delete a slice's alerts, three grouped queries, insert alerts | the shared connection |
| Connection and schema, `db.py` | `_conn`, the file, the pending result of the connection | `get_db`, `close_db`, schema | every handler |
| corrupcion_chile seed, `loaders/corrupcion.py`, `POST /seed` | tables `caso`, `entidad`, `alerta` | insert cases and entities, keyword detection | the shared connection |
| Read endpoints, `routers/alerts.py`, `entity.py`, `graph.py`, `health.py`, `GET /alerts/chilecompra` | none of their own | one to five statements, each fetched | the shared connection |
| Rate limiter, `limiter.py` | slowapi's windows per address | admit or refuse | decorators of the routers |
| Life cycle, `main.py`; `watchdog.sh`; `api/index.py` | the process, the write-ahead log | start, log, close; delete the log and restart | `db.py` |
| Frontend fetching, `hooks/`, `pages/`, `api/` | what each view shows, requests under way | start a fetch, apply or ignore its answer | the read endpoints |
| Frontend presentation, `components/` | timers, animations | draw | the views |

What is hard about it:

* **One connection, many threads.** `get_db()` returns the same DuckDB connection
  to all worker threads (handlers are plain `def`, which the server runs in its
  thread pool). A statement and the reading of its result are two calls; in
  between, any other thread's statement replaces the result.
* **No transactions.** Every statement, and every row of an `executemany`, commits
  by itself. An exception or the death of the process stops anywhere.
* **Shared rows.** Buyers and suppliers appear in many months, but a row belongs
  to the slice (`fuente`) that inserted it first. Foreign keys refuse to delete
  a row that another month's contracts use.
* **Two notions of trimming, NULL keys, ids built from nullable columns.**
* **A log that is thrown away.** DuckDB keeps commits in a write-ahead log until a
  checkpoint; the watchdog deletes that log before every start.
* **Late answers.** A page of the frontend may have been left, or asks something else,
  when the answer to its request arrives.

What makes each part correct: a contract always has its buyer and supplier; a
load that answers has stored what it kept and nothing older; alerts are what the
rules say of the contracts that are there; a slice changes only by its own
operations; every request ends with an answer; a read answers about the database and
not about another request; a crash loses what it must and leaves the rest consistent;
a page shows the answer to its own question, or that there is none.

## Modules

| Module | Contents |
|---|---|
| `PatternRules` | the three rules as operators on sets of joined contracts: WHERE, GROUP BY, HAVING, and the alert key |
| `SliceFrames` | what a load computes from the file of a month before it touches the database |
| `ChileCompra` | the state machine of loads and detections on the shared connection, and their properties |
| `Catalogue` | the abstract specification that `ChileCompra` implements when one thread sends requests |
| `SharedReads` | the six GET handlers beside them, on the same connection |
| `Durability` | the file, the checkpoints, stops, and crashes that lose the log, around `ChileCompra` |
| `CaseSeed` | the state machine of `POST /seed`, and its properties |
| `CaseLog` | the abstract specification that `CaseSeed` implements |
| `Views` | pages, effects, requests and stale flags of the frontend, and the text of a StatItem |
| `Answering` | the abstract specification that `Views` implements |
| `MC*` | the small instances of each |
| `*Proofs` | lemmas and theorems |

`PatternRules` <- `SliceFrames` <- `ChileCompra` by EXTENDS, and `ChileCompra` is extended in
turn by `SharedReads` (other threads on its connection) and by `Durability` (what survives
it). `PatternRules` alone is checked by `MCPatternRules`. `CaseSeed` stands alone: it shares
with `ChileCompra` the connection, whose other users it has as an environment, and the table
`alerta`, of which the two use disjoint rows (those with a `patron` and those with a
`caso_id`). `Views` meets the backend only in requests that are answered or fail.

Four refinements tie them: `ChileCompra` with one thread implements `Catalogue`
(`KeepsCatalogue`), `CaseSeed` implements `CaseLog` (`SeedsKeepLog`), `Views` implements
`Answering` (`PagesAnswer`), and `SharedReads` implements `ChileCompra` (its run
checks `Spec` as a property): the environment `OtherStatement` of `ChileCompra`, which leaves
any result in the connection, is an abstraction of what the GET handlers really do.

### PatternRules

A contract is a row of `contrato JOIN empresa`. A rule maps the contracts of a
slice to its data frame: per surviving group, the key that its alert id is built
from and the set of contracts it counts (`evid`), which stands for the text and the
amount of the alert. `dia = 0` is a NULL date and `monto = 0` an amount that
`TRY_CAST` cannot read; a SUM that is NULL and one that is 0 are both not above the
threshold. The test thresholds are dead code: `TEST_MODE_THRESHOLD` is 0 and no count is
below it, so only the full ones appear, as constants.

### SliceFrames

The three reads of the CSV, `QUALIFY ROW_NUMBER`, `LIMIT`, the stripping by pandas, the
search for orphans and the discarding of contracts. Text is abstracted to model values
with a function `Strip`, since the code trims with SQL's TRIM (spaces) and again with
`str.strip` (all white space), and only their difference matters. Buyer and supplier
attributes that no rule reads (region, code, activity) are left out.

### ChileCompra

| Variable | Code |
|---|---|
| `organismo`, `empresa`, `contrato` | the tables, as functions from the primary key to the `fuente` that owns the row (`Null`: no row); the data of a row is that of its slice's file |
| `alerta` | the rows of `alerta` that have a `patron` |
| `cursor` | the pending result of the shared connection |
| `pc`, `fu`, `con`, `todo`, `cola`, `rule`, `hecho` | per thread: the next statement, and the handler's `fuente`/`f`, `con_df`, the rest of the current loop, the rest of `fuentes`, the rule in hand, the keys of `results_by_fuente` |

Every `db.execute` is one action, every fetch from its result another, every row of an
`executemany` one action too. `StartLoad` is lines 34-177 as a whole: they read an
immutable file through a private connection and touch nothing shared. A fetch takes
whatever the connection holds: of the right kind the rows, of a foreign kind what the
code makes of it (`KeyError`, a number that is no number, `Bogus` as a slice), of nothing
an exception or no row. A `fetchone` on a result of several rows leaves any part of it, since
the connection keeps the rows (the row by `fetchall`, the chunk by `.df()`) that it did not
take: what another thread fetches next lacks some rows, or all, or none (`Rests`,
`FetchedOne`). Where DuckDB leaves open what happens otherwise (reading a used up result,
comparing a foreign number with a VARCHAR), all outcomes are possible. A failed statement ends the request (`load_failed`,
`detect_failed`: the 500 of the router). `Restart` is the death of the process at any
moment and a start without the watchdog, by hand (`README.md:54`) or by the platform
(`render.yaml`), at which DuckDB replays its log: what was committed stays. `OtherStatement`
is a statement of a handler that the module does not have, which leaves a result of `Foreign`,
or its `fetchone`, which leaves any part of the result in hand.

Order of rows within an `executemany` or a data frame is any order. Detection alone is
given a `fuente` that may be a slice without contracts; a load one without a file (400).

### Catalogue

What `POST /seed/chilecompra` and `POST /detect/chilecompra` are to somebody who sends one
request at a time and looks at slices and alerts. One slice is taken out to be loaded, or its
alerts to be renewed, and is put back: whole, and then the request says so (`seeded`, the 200 of
a load; `reported`, the `results_by_fuente` of a detection), or as far as an error or the end
of the process let it come. Nothing else changes meanwhile. Statements, rows of buyers and
suppliers, results on the connection are not in it; what is left of the last is `Lossy`: where
other endpoints are in use (`Foreign # {}`), what a rule found may be stored in part or not at
all. In the refinement a slice is out from its first DELETE to the answer, and its alerts
from their DELETE to the end of its last rule.

### SharedReads

A request is a question (`ask`), a place (`at`: the statement in hand, or how the request
ended), whether that statement has been executed (`sent`) and what has been fetched
(`got`). Executing leaves the statement's result in the connection, where `ChileCompra`
sees it as `SomeRows` or `NoRows` and `page` has what is in it; fetching takes whatever
the connection holds by then, a load's or a detection's result included, and a `fetchone`
leaves any part of it (`Leaves`), for other reads as for the writers. `Query` is the text of each statement, `After` the code
between two of them: branches, 404s, and the columns a handler indexes (`Columns`, `Fits`),
by which another statement's rows pass or raise. `crossed` is a history variable: since
the request began, another request used the connection between an execute and its fetch,
or changed a table. Rows keep their ids; `ORDER BY created_at` is left open, so a LIMIT
takes any rows.

`page` also holds what a load's or detection's fetch may take instead of its own rows.
It is DuckDB that decides that result sets are the connection's; the definitions that say
so are marked external.

### Durability

`disk` is the tables as of the last checkpoint. `Checkpoint` may come at any moment (DuckDB
decides by the size of the log); `Stop` is uvicorn told to stop: requests under way end, the
lifespan of `main.py` closes the connection, which checkpoints; `Crash` is a death
followed by `watchdog.sh`, whose `rm -f` precedes every start, so that the tables are
`disk` again. `Process` is a step of `ChileCompra`, its `Restart` included, which stands for
a start by hand that replays the log. `loaded` and `saved` are histories: the slices whose
last load was answered with 200 and not lost since, and those of them that are in the
file.

### CaseSeed

Case `i` is row `i` of the file. `caso` and `alerta` are the sets of rows that have been
inserted, `pos` the place of a request in its first loop, `todo` what its detection has
left. The file is one of several (`Files`) that differ in which rows have an amount
that `int()` cannot read, a blank name, something reported, a keyword. The conversion
of amounts, the parsing of years and the text of alerts are abstracted to what can fail
or decide an alert. The first loop keeps the order of the file, on which everything
rests; the second takes rows in any order, since its SELECT has no ORDER BY. Lines
90-99 insert no entity: the rows in memory have none of the three columns. A missing
or undecodable file is left out: it fails before the first statement.
`OtherStatement` leaves in the connection any result that handlers of other endpoints
can leave: none, one without rows, rows that do not unpack. Or it
is a `fetchone`, which takes one of the cases that a seed asked for and leaves the others
(`health.py:18` between `corrupcion.py:108` and `:114`). `crossed` is a history: another
endpoint came between those two. `Restart` keeps the tables, as a start
without the watchdog does.

### CaseLog

An append-only log: cases are stored in the order of the file, and once all are stored
those with a keyword get alerts. Seeds, threads, flaws, crashes and foreign results are
not in it.

### Views

| Variable | Code |
|---|---|
| `page`, `effects` | the route that is rendered; its effects have not run yet |
| `loading`, `shown`, `failed` | `useState` of the mounted page: `loading`, whose answer is in `entity`, `alerts` or `graphData`, whose failure in `error` or `fetchError` |
| `requests` | promises under way: what each asks, whether its component is mounted, its `stale`, the responses that `Promise.all` still lacks |
| `text`, `hovers`, `hovered` | `displayText` of a StatItem, its running intervals by the id of `setInterval`, which grows, a history |

`Visit` is a navigation. It remounts the page unless it goes from one node to another, when
React keeps `NodeView` and its state; `RunEffects` comes later, first the cleanup (which
`DetailView` has not) and then the effect. `Answer` and `Fail` are the callbacks. A
`StatItem` shows what it was mounted with, until a hover starts an interval; hovers do not
clear each other's. An address that is not routed shows nothing and is left out, and so
are clocks, filters and tabs, which no request depends on.

### Answering

A visitor is at a page, whose outcome is `waiting`, then `answer` or `nothing`. In the
refinement a page waits from its render to the end of its loading.

## Runs

| Run | Instance | Shows |
|---|---|---|
| `sequential` | 1 thread; two months that share an order, a buyer and a supplier (under different names), with a duplicate order, a blank id, a nameless supplier and an id that only strips to a known one; a month without a file; LIMIT 0 and 1 | types; `ContractsAnchored`; `InsertsAnchored`: the discard leaves no contract that the foreign key refuses; `LoadComplete`; `AlertsExplained`; `DetectionComplete`; `PatternsExclusive`; `DetectionSucceeds`; `SliceStable`; `KeepsCatalogue` |
| `threads` | 2 threads, two months with one order each and everything else in common, symmetric threads | `ContractsAnchored` and `SliceStable` survive every interleaving |
| `answers` | 2 threads, one month, any foreign result | `EveryRequestAnswered` |
| `rules` | all 4096 subsets of twelve contracts of suppliers with a rut, one of them without a name | `KeysDistinct`, `MultiOrgMonotone` |
| `shared_reads` | 1 thread that writes, 1 that reads; one month, one of whose suppliers has no id; eight questions to all six handlers; LIMITs that cut | `ReadsTyped`, `UncrossedSucceed`, `AlertFound`, `EntityWhole`, `GraphClosed` of the answers; `AlertsExplained` of a detection whose results reads take, whole or in part; `Spec` and `KeepsCatalogue`: beside reads the writer is that of `ChileCompra` and of `Catalogue`; `EveryReadAnswered` |
| `case_seed` | 2 threads, files of three rows: two without flaws, one with a text for an amount, one with a blank name; any foreign results and parts of the seeds' own; restarts | types, `OneWriter`, `AlertsComeLast`, `SeedWhole`, `SeedsKeepLog`, `SeedAnswered` |
| `views` | the landing page, the detail page and two nodes; 3 requests, 3 hovers | types, `OwnAnswer`, `LoadingServed`, `HoverShowsNumber`, `PagesAnswer` |
| `durability` | 1 thread, two months with one order each that share buyer and supplier | `DiskAnchored`, `ContractsAnchored`, `SavedLoadsStay` through checkpoints, stops, restarts and crashes anywhere |
| `threads_untraced` | as `threads` | violated: `AlertsExplained` |
| `reload_shared` | 1 thread, the months of `threads` | violated: `LoadsSucceed` |
| `case_seed_retry` | 1 thread, a flawless file of two rows, a client that repeats its request | violated: `SeedRecovers` |
| `lost_load` | as `durability` | violated: `LoadsPersist` |

Bounds. No run bounds the number of steps: tables are bounded by the files, so the state
spaces are finite as they are. Thresholds are scaled down so that one or two
contracts cross them, LIMITs so that they cut. Two months are the least in which rows are
shared and owned by another slice; two threads the least in which results cross, and a third adds only
more takers of one result. The single thread has `LIMIT` 1 so that a reload brings
fewer or other contracts. Three cases give a first, a middle and a last row.
`MaxRequests` = 3 gives the request of the page, a stale one and one of a page that was
left; a visit waits for a free slot, so the bound only limits how many old answers are
late at once. `MaxHovers` = 3 bounds the hovers of which each begins while an earlier one runs (ids start
anew when none runs): the least in which one that ended lies between two that run. The label has one
digit before the numbers arrive and two after, three ticks a digit and one more for
rounding. `CHECK_DEADLOCK FALSE` appears only in the run of
`MCPatternRules`, whose only step inserts contracts until all are in.

Fairness. `WF_vars(Serve(w))` for each thread that writes, `WF_rvars(Read(r))` for each that
reads: the server runs a handler it has started to its end, and none of its statements
waits for another thread. In `Views`, React runs the effects of a render, the browser ends
every request with a response or an error, and timers fire. No fairness for requests
(clients need not call), visits, hovers, restarts, checkpoints or crashes; only
`case_seed_retry` adds a client that calls
until it gets a 200, since it asks whether that is ever of use. There is none on the choice of rows, either:
loops end because each iteration takes a row away.

Sequential properties. `InsertsAnchored`, `LoadComplete`, `AlertsExplained`,
`DetectionComplete`, `PatternsExclusive`, `DetectionSucceeds` and `KeepsCatalogue` are promises
of the code when one request runs at a time; `threads_untraced` shows the first two threads breaking one
of them. Nothing in the code makes requests run one at a time: these properties say what an
operator gets who does. `shared_reads` weakens that: one thread that writes, whatever is read.
Then alerts are still explained, but a detection that answers may lack alerts of any rule
(`DetectionComplete` is not checked there): all of them when a read's empty result takes the place of its own, some
when a `fetchone` took a part. `answers` has rules with one row, so there a result is taken as a
whole or not; `shared_reads` takes parts of lists of two.
Likewise `UncrossedSucceed`, `AlertFound`, `EntityWhole` and `GraphClosed` say what a read is
worth that nobody crossed. A crossed one may be any request's, and with a
load between the statements of one answer its parts are of different moments. `SeedWhole` in
turn is a promise to seeds whose SELECT and fetchall nobody comes between (`crossed`).

## What the runs found

1. A detection can store another slice's rows as its own alerts
   (`chilecompra.py:248`), when two requests run at once (`threads_untraced`).
2. Loading a month again can fail for good once a second month uses one of its
   suppliers, and empties the month (`chilecompra.py:179-182`, `reload_shared`).
3. A seed of the cases that is cut short can never be completed: every later one is
   refused at its first INSERT (`corrupcion.py:74`, `case_seed_retry`).
4. A load that was answered with 200 is gone after a crash, since the watchdog deletes the
   log that holds it (`watchdog.sh:10`, `lost_load`). What is left is consistent
   (`DiskAnchored`), and what a checkpoint has reached stays (`SavedLoadsStay`).

Seen on the way, and not stated as properties of a run:

* A seed answered with 200 can lack alerts: a `fetchone` of another endpoint between
  `corrupcion.py:108` and `:114` takes a case from it. With finding 3, no later seed can add
  them. `SeedWhole` without its `~crossed` is violated in `case_seed`.
* A detection answered with 200 can lack the alerts of a rule: a read's empty result
  passes for that of the rule (`chilecompra.py:249`). `DetectionComplete` is violated in the
  instance of `shared_reads`.
* `GET /alerts/{id}` can answer with another alert and a 200: its `fetchone` takes a row of another
  request's list (`alerts.py:13`). `AlertFound` without `~crossed` is violated with two readers.
* P2 is not what `README.md:107` says, "Contratos consecutivos bajo el umbral de trato directo":
  it adds the amounts up, compares the sum with the threshold from above and bounds no single
  contract (`chilecompra.py:287-289`). `MCPatternRules` says nothing of what P2 should report,
  and there is no property that takes the clause for its definition.
* P1 and P3 merge different suppliers that have no rut and one name
  (`chilecompra.py:244`, `:326`), while `README.md:106` says "un mismo RUT". The properties of
  the rules are stated for suppliers that have one.
* Two rows of P1 without a rut clash on the alert id, as do two of P3, and stop the detection
  with a 500 (`chilecompra.py:258`, `:339`).
* Alerts of P1 never appear on the page of their supplier: they have neither of the two ids
  that `entity.py:82-84` looks for, and only P3's id contains the supplier's.
* `GET /alerts` has no parameters: `patron` and `limit`, which the frontend sends and
  `README.md:78-79` documents, are ignored, and 500 rows are the most it returns.
* A `StatItem` shows the zeros it was mounted with until the pointer is over it.
* `LandingView` shows no error: after a failure it looks like an empty database.
  `NodeView` says "Nodo no encontrado" of any failure.
* `entidad` never receives a row (`corrupcion.py:90-99`), and the thresholds of the test
  mode are never used.
* `Dashboard`, `useAlerts` and `useGraph` are mounted by no route.

## Proofs

All theorems hold for every set of slices and files (finite files), every threshold and any
set of threads, readers, questions, nodes and pages, under the named assumptions of the modules: `ThresholdsAssumption`,
`FuentesAssumption`, `ZipsAssumption`, `CsvAssumption`, `LimitsAssumption`,
`BogusAssumption`, `ForeignAssumption` for `ChileCompra`; with them `QuestionsAssumption` and
`ReadersForeign` for `SharedReads`; `FileAssumption` and `ForeignAssumption` for `CaseSeed`;
`BoundsAssumption`, `TicksAssumption`, `NodesAssumption` for `Views`.
TLC evaluates them in every run of the module.

* `NoOrphans` (`ChileCompraProofs`): the ids a contract needs are always in the
  frames already, so lines 100-108 and 143-151 never add a row. It rests on `LatestIsOne`
  (a non-empty finite set of rows has a latest one, by a maximum of their days).
* `TypeCorrect`: `Spec => []TypeOK`, by the inductive invariant `Inv` = `TypeOK` and
  - `RowsInv`: an owned contract row is an order of its owner's file (otherwise `ConRow` of it
    would be meaningless and the join untyped);
  - `TodoInv`: what a loop has left is part of the frame it started from (otherwise
    inserting a row could leave the table's domain).

  Each action preserves it; actions that share a shape share a lemma (`RaiseInv`,
  `ReturnReq`, `GotoReq`, `RowDoneReq`, `ReadInv`).
* `AlwaysAnchored`: `Spec => []ContractsAnchored`. Besides `Inv`, the argument
  needs that deletions of parents are refused while a contract references them
  (`ParentsStay`) and that an insert of a contract checks both (`ContratoChanges`).
* `StableSlices`: `Spec => SliceStable`. It needs `ContractsAnchored` as an invariant: the
  supplier row that a slice's contract is joined with is referenced, so it cannot be deleted,
  and `INSERT OR IGNORE` does not overwrite it.
* The promises to one thread (`SequentialProofs`), each under `OneThread` (`Workers` is a
  singleton), which is what the properties are about and what nothing in the code sees to:
  - `NoOrphanInserted` (`InsertsAnchored`) and `LoadsWhole` (`LoadComplete`), by `LoadInv`: at
    each statement of a load, what its loop does not have left is in the table, with the
    parents of every kept contract from the second loop on, and the slice has no contract
    between its first DELETE and its last loop;
  - `AlertsTraceable` (`AlertsExplained`), by `AlertInv`: a load has no alerts once they are
    deleted, and what a detection has fetched and has left to insert are rows of its rule
    over the contracts of the slice, which do not change meanwhile. No assumption on what
    other endpoints leave: a foreign result fails or passes for an empty one, and what is left
    of a rule's own result are rows of it (`OtherLeaves`);
  - `OneBuyerOrMany` (`PatternsExclusive`), from it: P1 and P3 group alike, and one group cannot
    have one buyer and `P3_THRESHOLD_ORGS`, which is at least 2;
  - `DetectionsWhole` (`DetectionComplete`), by `DetectInv`: of every rule that is over for a
    slice the alerts stored are findings of it, and all of them if no other endpoint is in use
    (`Foreign = {}`); of the rule in hand they are findings that `todo` does not have;
  - `DetectionsSucceed` (`DetectionSucceeds`), by `SuccessInv` and `KeysTell` (in a
    frame of identified suppliers a key tells the row), under `Foreign = {}` and
    `Identified`: no supplier lacks its rut. Both are needed: a foreign result fails the detection,
    and two suppliers without a rut clash on an alert id.
* `CatalogueKept`: `OneThread` implies `Spec => KeepsCatalogue`, the refinement of `Catalogue`,
  through errors, restarts and foreign results. By the invariants above and `OfferInv` (a load
  works on what LIMIT selected): a statement of a load changes only the slice that is out,
  since rows that another slice owns are ignored or not deleted, and the suppliers another
  slice is joined with are referenced (`JoinedElsewhere`, `AlertsElsewhere`); so each is a stutter
  (`StillSeen`) but for the first (`TakeSliceSeen`, `TakeAlertsSeen`) and the last (`LoadSeen`,
  `DoneSeen`, `FailSeen`).
* The rules (`MCPatternRulesProofs`, lemmas in `PatternRulesProofs`), for every pool of contracts
  and all thresholds: `AlertsHaveKeys` (`KeysDistinct`) under `PoolIdentified` (each supplier
  has a rut as its id and one name), `ListingsStay` (`MultiOrgMonotone`) without. A group is
  told by any of its members (`KeyTellsGroup`), and a group of P3 only grows (`GroupsGrow`).
* `OneSeedWrites`, `AlertsAfterCases`, `SeedsWhole` (`CaseSeedProofs`), for any other endpoints,
  from one inductive invariant: what is stored is a prefix of the file, and the prefix of the one seed
  that is past its first INSERT (`StoredInv`); so at the first row either the table is empty
  or the INSERT is refused (`InsertAlone`). `PlaceInv` ties each label to a place in the
  file and keeps `alerta` empty until the cases are fetched; `SeededInv` says that after a 200 nobody is
  writing. `SeedsWhole` adds `AloneInv`: uncrossed, a detection reads back all that is
  reported, and its `todo` holds all that has no alert yet.
  `SeedTyped` is its `TypeOK`.
* `SeedsImplementLog`: `Spec => SeedsKeepLog`, the refinement of `CaseLog`. From the same
  invariant: an insert that is not refused extends the prefix, and an alert is written
  only when the prefix is the file.
* `ReadsKeepSpec` (`SharedReadsProofs`): `RSpec => Spec`. Every step of a reader is a step of
  `ChileCompra`'s environment or invisible: what a reader's `fetchone` leaves of a result is one of its parts
  (`Rests`), and so a result that `OtherStatement` may leave. The fairness of `Spec` is that of `RSpec`. So every
  theorem about `Spec` holds beside any readers: `ReadsKeepAnchors` is `ContractsAnchored`.
* `UncrossedGraphsClosed`: `RSpec => []GraphClosed`, by the invariant `ReadInvariant`: while a
  request for the graph is uncrossed, the connection holds its own result, the links it
  fetched are rows of the table (`GraphInv`), and their ends are there by `ContractsAnchored`.
* `UncrossedReadsSucceed`, `AlertsFound`, `EntitiesWhole`, by `AnswersInv`: an uncrossed request
  stands at a statement of its own question, the connection holds the result of that statement
  if it was sent, and all that it fetched is an answer to what it asked of the tables as they
  are (`Sound`), since whatever changes a table crosses every read. So each branch of the
  code between two statements finds the columns it indexes.
* `ReadsAreTyped`: `RSpec => []ReadsTyped`, by `PageKept`: the page and the connection speak of
  the same result, or a load or detection has sent one since, of which a `fetchone`
  leaves a part at most (`OnlyReadsLeave`).
* `ReadsKeepAlerts` and `ReadsKeepCatalogue`, under `OneThread`, of the thread that writes:
  through `ReadsKeepSpec` from `AlertsTraceable` and `CatalogueKept`. Any number of readers.
* `OwnAnswersOnly`, `NeverLoadingForNothing`, `PagesKeepPromise` (`ViewsProofs`), for any nodes
  and any number of requests, by `ViewInv`: once the effects of a render have run at most one
  request can change the page, it asks for the page, and it is there exactly while the page is
  loading (`OneRequest`); before that, only requests of a kept `NodeView` can
  (`BeforeEffects`). `PagesKeepPromise` is the safety part of `PagesAnswer`; `PagesTyped` is
  `TypeOK`.
* `HoverEndsAtNumber` (`HoverShowsNumber`), by `StatInv`: the label only grows, so no interval
  ends before one that was started earlier, and the last that writes is the last that
  was started, which a hover since the numbers arrived made an interval of the number. It needs
  that the ids of intervals grow and that the second label is no shorter (`TicksAssumption`).
* `FileAnchored`, `AnchoredAcrossCrashes` (`DurabilityProofs`), by `DInv`: what holds of the
  tables (types, `RowsInv`, `ContractsAnchored`) holds of the file as well, since a checkpoint
  may fall between any two statements, and so holds again after a crash.
* `AnsweredLoadsStay`: `Alone /\ DSpec` implies `[]SavedLoadsStay`, where `Alone` is one
  thread, no LIMIT and no order in two months, as with more of any of them a slice may
  lose a contract to another load. `WholeInv` adds to `DInv` what a load has stored so far
  (`Progress`) and that an answered load is whole in the tables and, if saved, in the file
  (`Answered`).

Only model-checked: liveness (`EveryRequestAnswered`, `EveryReadAnswered`, `SeedAnswered`, the
end of the waiting in `PagesAnswer`), which with ENABLED is out of the prover's reach. Every
invariant and every action property of the passing runs is proved. What a fold computes is not: no proof
says what `Total` is, and none needs to. The violated properties are TLC's counterexamples.

## Not modelled

* The rate limiter: a limit on requests only removes behaviours.
* The `postgres` mode: every handler calls a coroutine function without awaiting it, and
  none works.
* Logging, CORS, `api/index.py`, which imports the same application.
* `created_at` and the order by it; wording of alerts; the conversion of numbers and dates to
  JSON.
* What a deleted log does to the cases of `POST /seed`: `CaseSeed` has the restart that
  replays it. A seed that loses its log stays at a prefix of what it had.
* Effects that run twice in React's strict mode, which only a development build has.
* `useAlerts`, `useGraph`, `Dashboard`, `fetchAlertById`, `GlobeGraph`: no route uses them.
* Styling, animation and 3D.
* Third-party packages. `.vercel_python_packages` holds DuckDB's client, pandas, FastAPI,
  pydantic and their dependencies, by far the most lines of the tree; the models have
  of them only what the handlers use, marked external. They are not FRACTURA's code and
  have their own projects.
* The race of two first calls of `get_db()` (`db.py:12`): the lifespan opens the connection
  before the first request.

## Plan

Done: all the modules above and their theorems. What remains worth doing:

1. `CaseSeed` under `Durability`'s crashes, which lose the end of the log.
2. The catalogue across such crashes: every slice falls back to what it was at the last
   checkpoint, a slice that was out then included.
