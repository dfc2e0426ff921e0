# SpecSearch in TLA+

SpecSearch imports package metadata, indexes it, and answers hybrid (BM25 and
embedding) searches over the index from a local server with a small web page.
These modules specify the parts of it that several processes, threads, requests
or crashes can disturb, and the ranking and calibration that its answers rest on.
TLC checks them on small instances, and TLAPS proves all of their safety
properties for every size.

Source paths are given from the root of the repository copy (`src/`): the Python
package is `src/src/specsearch/`, the page is `src/ui/app.ts`.

## 1. The system

| component | state it keeps | operations |
|---|---|---|
| index store, `store.py` | a directory: `writer.lock`, `<uuid>.db` per snapshot, `<uuid>.pointer`, `active.json` | `build` (one process at a time), `active`, `connect`, `status`, `package`, `exact`, `lexical` |
| embeddings, `embeddings.py` | `cache.db` (vector per identity and text), `_artifact_cache` (one stat and digest) | `identity`, `artifact_digest`, `documents`, `query` over `encode` and `raw` |
| search service, `service.py` | counters, the calibration loaded at its start | `search`, `vector`, `verify`, `status` |
| evaluation, `evaluation.py` | none of its own: `calibration.json` and the report, which `cli.py` writes | `calibrate`, `evaluate` |
| command line, `cli.py` | the workspace: `packages.json`, `import-report.json`, `calibration.json` | `import`, `index build`, `search`, `calibrate`, `evaluate`, `serve`, `status` |
| ingest, `ingest.py`, `upstream.py` | none; it reads directories and a registry | `import_sources`, `local_package`, `registry_package`, `registry_json` |
| HTTP boundary, `api.py` | none | maps requests and exceptions |
| page, `app.ts` | results, snapshot, selection, detail pane, comparison slots, two tokens | `search`, `showDetail`, the compare boxes |

How they interact. The only shared state is in files. `index build` processes
publish snapshots that the threads of a `serve` process read, without any lock
between writer and readers: the rename of the pointer is the only hand-over. The
embedding provider (Ollama, LM Studio) is an external process, whose model can
be exchanged between any two requests. `calibrate` writes a file that later
`evaluate` and `serve` processes load. `import` and `verify` read directories and a
registry that others change meanwhile. The page calls the server asynchronously
and names the snapshot of its last search in every later request.

What is hard, and what makes each part correct:

* **store**: concurrent builds, exceptions at any statement, SIGKILL, power loss
  around the rename; a request must read one snapshot through many connections.
* **embeddings**: a model exchanged between the batches of one `encode`, the
  cache transaction, queries compared with an index of another model; a GGUF that
  is replaced or written while one of several threads digests it.
* **search**: records with many documents in two lists, a provider that fails half
  way, a calibration loaded before the index, or the model, was exchanged.
* **evaluation**: an index, model or query set that changes between `calibrate`
  and `evaluate`, or during either; ties and ends of the range in the threshold.
* **workspace**: imports that fail half way or overlap, builds that read meanwhile.
* **ingest and verify**: sources that are edited, removed or restored between two of
  their reads, redirections, one input of many that fails, equal records.
* **page**: answers out of order, clicks during fetches, errors in between.

`PROJECT.json` lists every such hazard at its line, with the properties that
cover it or the reason why none does.

## 2. Modules

| module | models |
|---|---|
| `SnapshotRegister` | what the store promises: an atomic register of snapshots |
| `SnapshotStore` | the index directory: builds, crashes, requests; refines the register |
| `ProviderBinding` | `identity`, `encode`, the cache, the vectors of an index, a query |
| `ArtifactDigest` | `artifact_digest` and the cache that threads share |
| `Search` | modes, rank fusion, degradation, labels; the threshold of `calibrate` |
| `CalibratedEvaluation` | `calibrate` and `evaluate` beside builds, model exchanges, edits |
| `PackagesRegister` | what `import` promises: packages that are replaced whole or not at all |
| `Workspace` | `import` with `atomic_json`, and builds that read `packages.json`; refines the register |
| `Ingest` | `import_sources` and `verify` beside changing sources |
| `DiscoveryUI` | the page |
| `*_proofs` | the proofs about each of them but the registers, which come with the refinements |
| `MC_*` | the TLC instances, with their symmetry sets |

### SnapshotStore

A build and its uuid are one element of `Builds`. `pc` follows `Store.build`
statement by statement: `waiting` is the flock, `created` the file that
`sqlite3.connect` makes before the `try`, then `committed`, `synced` (database
fsync), `pointed`, `pointerSynced`, `publishing` (after `publication_started =
True`), `replaced`. `Raise` is an exception, an interrupt included, at any of
them: the handler unlinks the database only before `publication_started`. An
interrupt after the rename therefore reports a failure though its snapshot is
the active one, which the code intends. `Kill` is SIGKILL.

`survivors` is what `active.json` may name after a power loss. The assumptions on
the file system are those of a journalled one with ordered metadata: a rename is
atomic; a power loss undoes a suffix of the directory changes since the last
fsync; an fsync of a file in the file system makes earlier directory changes
durable; file contents are safe only once that file was fsynced. The model counts
only fsyncs that the code itself issues (SQLite's own come on top), and it
assumes nothing of a file that was not synced: it may be absent, partial or whole.
An unlink is taken as durable, since the database it removes was never named.
Nothing here depends on the code's fsync of the directory, because there is none:
that is why a power loss *can* undo the last publication, and
`RollbackAtMostOne` says that it can undo no more.

A request pins a snapshot (`ReadPointer`: the active one; `NameSnapshot`: one that
an earlier answer named) and opens between one and `MaxReads` connections, each of
them the check `path.is_file()` and the open. `RemoveOld` is an operator that
deletes a database, which `connect` expects; no code of the repository does it, so
it is limited to snapshots that are not active now or after a power loss.

`SnapshotRegister` has no files, locks, builds or crashes of builds; `Register` maps
`active`, `survivors`, the published databases that are gone, `pin` and `seen` to it.
A read that was not of a whole snapshot maps to a value that no register serves.

### ProviderBinding

A model stands for all that `identity()` reports, and a vector for the model that
computed it. `encode` is `Identify`, `Lookup` (builds only: queries are not
cached), one `Compute` per batch, and `Confirm`, where the second `identity()` decides
between commit and rollback of the insertions. `Compare` is the caller's own comparison:
`_build` with the identity it read first, `vector` with the one the index records.
`ServeModel` can happen between any two of them. A batch is one text here and 16 in
the code; the smaller one only allows more exchanges. The code's retry of a request
is not a step: a request that is answered is one step, and one that is not, twice, is `Fail`.

### ArtifactDigest

A thread opens the path and stats the file, takes the digest from the cache if the
stat is the cached one, or hashes the file and stats it again, before and through the
path, and caches the pair. The path can be pointed to another file, and files written,
between any two of these steps. It is assumed, as in the code, that a write changes the
file's stat. `self._artifact_cache` is loaded three times for a hit, twice to compare it
(`embeddings.py:149`) and once to use it (150): the loads are one step, because CPython with
its global lock switches threads only at calls, backward jumps and blocking operations, of
which there is none in between. So the threads cannot disturb each other there, and the
model says nothing of a free-threaded build. The two stats
after the hash are more than `DigestTrue` needs: it says what the
digest that is returned is a digest of, and not whether that file is still at the path.

### Search

A search is one step: that it reads one snapshot and compares vectors of one model is what
`SnapshotStore` and `ProviderBinding` show. `calibrate` is three: `Observe` stands for its
searches up to the last that scores a row, and for the choice; `Bind` reads the status, which
may by then be that of another index, or of one without vectors; `Write` replaces
`calibration.json`. In between the index is rebuilt, the provider changes and the server
restarts. Any rows may be observed, so it does not matter to the choice from how many indexes
they came; whether a calibration is of the index that it names is the question of
`CalibratedEvaluation`, and no property of `Search` supposes it. Searches beside `calibrate`
are left out: they read nothing that it writes before the server restarts. `LexicalHits` and
`VectorHits` are all lists of documents within the bounds, each document named by its record:
what BM25 and the cosines are is left open. A fused score is exact: `Shares` are the fractions
1/(60 + rank) in a common denominator. `SearchDegraded` is a hybrid search whose vector half
failed, at whatever point: nothing of it is kept, and `DegradedIsLexical` asks for all that
BM25 found, as far as `TopK`. A label goes by `Cosine`, the first hit of a record;
`StrengthFollowsSimilarity` says that it is the one of its best document, and that one
calibration labels the whole response.

Scores of `calibrate` are even numbers on a scale where 2 is the distance of float32
neighbours, so `Above`, which is `score + 1e-7`, is one more than a step and less than two.
Cosines that are nearer to each other than 1e-7 do exist in float32: between them
`calibrate` has no candidate, so `ThresholdOptimal` compares the choice with the
thresholds that keep 1e-7 above the scores below them, and not with all.
`LimitNum / LimitDen` is the 10 % of the code.

### CalibratedEvaluation

A search is one step, as above. `cal` and `ev` are the local variables of the two
functions; `observed` and `asOf` are history. `passing` stands for the most that
the numeric targets allow.

### Workspace

A name refers to a file, and a file holds what an import wrote, nothing yet, or a mixture.
`OpenTemp` creates `packages.tmp` or truncates the one that is there, `Write` puts the text
into the file that was opened, `Replace` renames whatever the name refers to by then. If two
imports write to one file, its text may be torn, with the end of the longer one left behind
the shorter. `Raise` and `Kill` come at any statement. After `os.replace` nothing is undone:
an interrupt between it and `Return` makes the command fail though its packages are in place
(`cut`), and what the properties say of failures is about those up to the rename.
`import-report.json` is written in the same way; it is one step here, since nothing but a
person reads it.

`PackagesRegister` has no files: an import that is pending replaces the packages in one step
(`Succeed`, whatever its exit code is later) or ends without a trace (`Fail`), and a build is
given the packages of one import. `Register` maps what the file that `packages.json` names
holds to its `current`, and where an import is to its outcome.

### Ingest

The inputs of an import are paths and a registry, whose catalog adds versions; each is
read by the functions that `verify` uses too, and `old` tells which of the two runs. A
digest is what it digests. `Bad` is whatever makes parsing or validation raise: YAML and its
limits, names, URLs, sizes, hidden files, the external validator. A file is read in one
step, several files in several, so a package can be a mixture of edits: `Validated`
looks at the copy that was read, as `local_package` gives the validator a copy. A
directory that is removed between `lstat` and `read_tree` makes the verdict "invalid".
`FailToRead` is a root, a listed file or a read that fails: "unavailable".

`os.fwalk` (`ingest.py:42`) is called without `onerror`, so a subdirectory that cannot be
opened, since it was removed, is not permitted or too many files are open, is passed over
without an error: `SkipDirectory`, for the files of one of `Subdirectories`, at any time. The
verdict is then "invalid" if a file was in it that the manifest lists, else "drift", though
the source may never have changed; and an import may take a package without those files. No
document says otherwise, so this is no finding, but it limits what can be claimed:
`StableVerdict` says that the verdict is the one which the source deserves without the skipped
directories, and on the whole source if none was skipped; `VerdictWitnessed` takes a file of a
skipped directory for one that was found absent. `DigestedIsValid` holds all the same: what
the manifest lists was read.

`Sources` are the configurations, the registry before or after the directories.
`Catalogs`: a catalog may list a version more than once, and each time it is fetched. A registry
whose catalog was not read (`listed` is `None`) must have an error, as must every path and
listed version that was not imported; of equal records the dictionary keeps the last.
`Redirect` is the one redirection that `registry_json` follows.

### DiscoveryUI

An action is one turn of the event loop up to the next `await`; answers of searches and
packages come in any order, or as errors. `compared` maps a record to its slot, and
`key` is the identity of the slot object. The page ignores the submit event while the
search button is disabled, as browsers do for a form whose only submit button is
disabled, so `Submit` requires `~busy`.

Definitions whose names say what is omitted, ignored or done once more
(`SyncDbOmitted`, `ConfirmUnchecked`, `OwnsById`...) are plausible bugs, used to
confirm that each property can tell them from the code. No specification uses them.

## 3. Runs

| run | asks for | outcome |
|---|---|---|
| `store_safety` | ActiveComplete, OneSnapshotPerRequest, RollbackAtMostOne, PublishedImmutable | hold |
| `store_refines` | ImplementsRegister, BuildTerminates, RequestTerminates | hold |
| `binding_safety` | CacheBound, IndexBound, ScoresComparable | hold if no replaced model returns |
| `binding_reverts` | IndexUnmixed | violated |
| `digest_safety` | DigestTrue | hold |
| `search` | RankingFair, DegradedIsLexical, StrengthFollowsSimilarity, ThresholdOptimal, NegativesBounded | hold |
| `evaluation_alone` | ReportOneSnapshot, PassingReportScored, ReportCalibratedHere | hold if nobody publishes during calibrate |
| `evaluation_rebuilt` | ReportCalibratedHere | violated |
| `workspace_serial` | ImplementsRegister, FailedImportPreserves, BuildsReadSuccess | hold if imports do not overlap |
| `workspace_overlap` | FailedImportPreserves | violated |
| `ingest` | DigestedIsValid, ImportAccounted, StableVerdict, VerdictWitnessed, CallsEnd | hold |
| `ui` | DetailCurrent, ComparedCurrent, ComparedLimited, SearchEnabledAgain, SlotsSettle | hold |

Every passing run that asks for an invariant also checks the `TypeOK` of its module.

### Bounds

- `store_safety`: three builds and two requests of at most two connections. Two builds
  can overlap and put two publications at risk; a third one starts after a failure or a
  power loss. Two reads are enough to meet two snapshots.
- `store_refines`: two builds and one request, without symmetry, since it checks liveness.
- `binding_*`: three models, so that one can be replaced twice; two texts, two builds,
  one query.
- `digest_safety`: two threads, two files, two writes to each.
- `search`: three records, so that a list can be reordered and cut; lists of at most
  three documents where the code asks for 50; the best two kept; three score levels;
  four development queries of which two are negative, with the limit 1/2, so that the
  limit admits one of them; two providers and two corpora; one publication and one
  calibration, so that the index is rebuilt before, during or after `calibrate`.
- `evaluation_*`: three publications, two models, corpora and query sets, two
  calibration queries, one evaluated query in the three modes.
- `workspace_*`: three imports and two builds. Two imports are enough to overlap.
- `ingest`: two directories of two files, the manifest and a file in a subdirectory, which
  one of the two valid texts lists; both directories hold the same package at first; one
  registry version, listed at most twice; the registry before or after the directories; two
  changes of the sources, enough to change something and back. 743 thousand states.
- `ui`: three records and a comparison limit of two (three in the code), so that the
  limit can be exceeded; two searches, two snapshots, three clicks; no symmetry.

`CHECK_DEADLOCK FALSE` is set where a bounded history really comes to its end: in
`binding_safety` (all builds and queries are done), `workspace_*` (all
imports and builds are), `ingest` (the changes are used up) and `ui` (the clicks and searches are).

### Fairness

- `store_refines`: weak fairness of the steps of a running program, of opening the next
  connection of a request, and of taking the lock for each build. Finitely many
  builds each take the lock once and release it when they end, so one that waits is
  eventually alone. Users, failures, and crashes are not assumed to act.
- `ingest`: weak fairness of `Program`. A running command goes on, and every request
  to a registry times out at the latest.
- `ui`: weak fairness of `Answer`: a browser answers or fails every fetch. Nothing is
  assumed of the user or of builds.

## 4. Where the code and its documents disagree

1. `binding_reverts`. `src/README.md:57-58`: "Different fingerprints never share vector
   indexes." `encode` and `_build` compare the identity before with the one after; a model
   that is exchanged and exchanged back in between leaves no trace, and the index (and
   the cache) holds vectors of two models under one identity.
2. `evaluation_rebuilt`. `src/README.md:122-123`: "Calibration from another corpus/model
   or a changing snapshot aborts evaluation rather than producing a passing report."
   `calibrate` reads `store.status()` after its searches and ignores the snapshot that
   each search reports. A build that publishes meanwhile is bound to a threshold that
   was chosen from the scores of its predecessor, and `evaluate` accepts it.
3. `workspace_overlap`. `src/README.md:44`: "Import failures return nonzero and preserve
   the preceding `packages.json`." Two imports that overlap share `packages.tmp`: the
   first renames what the second has written, the rename of the second raises, and
   `packages.json` holds the packages of the import that failed.

## 5. Proofs

Each proof module holds `TypeCorrect` and the theorems below, for every value of the
constants that the module's assumption admits. An invariant that a run checks is
seldom inductive; `IInv` adds what the program's locals must satisfy between two steps,
and each proof has one step per action. Where a theorem needs an assumption on the
environment (imports that do not overlap, models that do not return), `AnyInv` is the
part of the invariant that does not.

- `SnapshotStore_proofs`: ActiveIsComplete, RequestsReadOneSnapshot,
  PowerLossUndoesOne, PublishedStaysImmutable, StoreImplementsRegister, for any sets of
  builds and requests and any number of reads. `LockInv`: the lock is held by
  exactly the build that is past `flock`; WritersExclude states what follows, that builds
  exclude each other and one that ended, in whatever way, keeps nobody out. `BuildInv`:
  what holds at each statement; in particular, from the last fsync to the rename a power
  loss can only leave the active snapshot. `PublishedInv`, `PointerInv` and `RequestInv`
  say what pointers and open requests may refer to. The refinement maps a publication, a
  removal, an fsync, a power loss and a read to the register's step; everything else
  stutters. StoreAdvances: builds and requests only ever come closer to their end.
- `ProviderBinding_proofs`: CacheIsBound, IndexIsBound, ScoresAreComparable under
  `MayRevert = FALSE`; without this assumption `binding_reverts` refutes them.
  `HistoryInv`: a replaced model is gone, so an identity equal to the present one
  was read in its time. `EncodeInv`: the vectors collected so far are of the identity read
  first, or that model is gone; `QueryInv`: a query compares with a finished index.
  QuietProviderIsBound: the three also hold of a provider that returns to old models,
  as long as it exchanges them only between embeddings (`QuietInv`: while any call runs,
  all that it has read is of the present model). So it takes an exchange there and back
  within one embedding to break them. NoVectorIsMissing: of any provider, an index has all
  its vectors, and a query searches a finished index of its own provider.
- `ArtifactDigest_proofs`: DigestIsTrue. `CallInv`: the versions of a file grow, and a
  digest is whole, or the file has been written since, and then `Confirm` raises.
- `Workspace_proofs`: PackagesAreWhole, FailuresPreserve, BuildsAreGivenSuccess and
  WorkspaceImplementsRegister under `ImportsAlone = TRUE`. `SoloInv`, `WriterInv`,
  `OutcomeInv`: one import writes at a time, and what the temporary file holds at each of its
  statements, so that `os.replace` is the register's `Succeed` and any end before it `Fail`.
  Ends are exceptions and kills, not power losses. RejectedStaysOut needs no assumption: even
  if imports overlap, nobody reads what a rejected import fetched (`RejectedInv`: only `Write`
  puts it into a file).
- `DiscoveryUI_proofs`: DetailIsCurrent, ComparisonIsCurrent, ComparisonIsLimited, for any
  set of records, any limit and any number of clicks. `RequestInv`: a pending request carries
  a token no newer than the counter. `PaneInv`, `SlotInv`: the request that may still
  answer is for the selected record or slot, and from the listed snapshot. `SearchInv`:
  while a search is in flight nothing is awaited for the pane. NothingWaitsInVain: the fetch
  that will enable the button or settle a slot is in flight; FetchesRunOut: every answer
  leaves fewer.
- `CalibratedEvaluation_proofs`: ReportIsOfOneSnapshot and PassingReportIsScored without
  assumption; ReportIsCalibratedHere under `CalibratesAlone = TRUE`. `MeasureInv`: the
  responses collected so far come from one snapshot, and their vectors from its provider;
  `BindingInv`: calibration files, the one `evaluate` has read included, were measured on
  one index, the one they are bound to.
- `Search_proofs`: RankingIsFair, DegradedAnswersAreLexical, StrengthsFollowSimilarity,
  NegativesAreBounded, ThresholdIsOptimal, for any set of records and queries, any hits and
  scores and any limits. The order of the results is given by counting: `TopIsByRank` shows
  that a record's place is one more than the number of better ones, and `RanksFill` that these
  places have no gap. `CollapseKeepsOrder`: chunks of one record collapse to the first of
  them, in the order of first places. `SharesDecrease`: shares decrease strictly, since the
  common denominator is divisible by each `60 + rank`; a record that is ahead in both lists
  thus has the greater sum. A single list is ranked by its first places, which gives the order
  of a degraded search; a place of BM25's list is below the number of scored records, which
  gives its length. `AnswerLabels`: the first hit of a record has its greatest cosine.
  Recursive functions are unfolded with `CHOOSE`, and what they return at every number follows
  from a least counterexample (`Least`), because induction theorems that take an operator
  cannot be used here. `ChosenIsBest`: a best eligible candidate exists, so `max` succeeds.
  `CandidatesSuffice`: for any other threshold there is a lower candidate that accepts exactly
  the same scores.
- `Ingest_proofs`: DigestsAreValid, ImportsAreAccounted, VerdictsAreStable,
  VerdictsAreWitnessed. `AccountInv`: every input, the registry included, is reported,
  imported or still pending. `WitnessInv`: what the locals of `verify` say of a file was seen
  at some moment of the call, or its directory was skipped. CommandsRunOut: the pair of
  `Queue`, the inputs that are left with the `MaxListed` entries that a catalog may add, and
  `Stage`, the files, requests and redirections left of the present one, decreases in
  lexicographic order with each step of the program, and no change of a source touches it.

Model-checked only: liveness (BuildTerminates, RequestTerminates, CallsEnd,
SearchEnabledAgain, SlotsSettle), since fairness and `ENABLED` are out of the prover's reach.
StoreAdvances, WritersExclude, CommandsRunOut, NothingWaitsInVain and FetchesRunOut are
the part of them that is safety: the variants that cannot decrease for ever and the
absence of states that wait for nothing. What they leave to TLC is that a step is
enabled and that fairness takes it.

## 6. Not modelled

- SQL filters, tokens, snippets, and the display of results: they keep no state.
- The counters of the status page (`service.py:144`): increments may be lost between threads,
  and nothing reads them but a person.
- Chunking, mean vectors and their numeric checks; recall, nDCG and the numeric targets of
  a report: real arithmetic. What a report needs of them is a free choice.
- `models.py`: types and canonical digests. A digest is equality of what it digests.
- `upstream.py`: a stateless validator, whose rules are about characters of a URL.
- The HTTP boundary: it checks headers and body sizes and maps exceptions to status codes.
- The leftovers of failed builds (`store.py:88`): never read, they cost disk only.
- Power loss for `packages.json` and `calibration.json` (`cli.py:19` never calls fsync): no
  document promises durability.
- The order of two index builds (`cli.py:75`): the one with older packages may publish last;
  no document promises otherwise, and SnapshotStore lets them publish in either order.
- The pane that says "Loading package" for ever (`app.ts:97`): the model reproduces it,
  and the next click repairs it.
- Argument parsing, configuration, printing, operator scripts, Docker, static assets.
- SQLite, the file system and the embeddings provider, beyond what the code in `src/` relies on.

## 7. What is left

1. `Workspace` composed with `SnapshotStore`, to state which packages an index may hold
   when builds and imports interleave.
2. Recall and nDCG as functions over small rankings, against a reference definition.
