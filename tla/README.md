# DeepFinder: specifications, model checking and proofs

DeepFinder is a local file search service: a daemon (`deepfindd`) keeps an
on-disk trigram index of one or more directory trees, watches the trees for
changes and answers filename and content queries over a Unix socket; a CLI
(`deepfind`) talks to it.  This directory holds TLA+ models of its core, the TLC
configurations that check them on small instances, and TLAPS proofs of the
results that hold for every instance.

- [1. Inventory](#1-inventory)
- [2. Plan](#2-plan)
- [3. Modules and how they correspond to the code](#3-modules-and-how-they-correspond-to-the-code)
- [4. Runs](#4-runs)
- [5. What is proved](#5-what-is-proved)
- [6. Disagreements between code and documentation](#6-disagreements-between-code-and-documentation)
- [7. What is not modelled](#7-what-is-not-modelled)

Paths below are relative to the repository root.

## 1. Inventory

The system is a two-layer LSM: an immutable **cold** index on disk (a filename
database `index.dfdb` and content shards named by a `MANIFEST`), and a **hot**
overlay in memory, backed by a write-ahead log, that holds what changed since
the cold index was built.  A query merges the two; the overlay wins.

| Component | State | Operations | Hard because |
|---|---|---|---|
| **Hot overlay** `df-content/src/overlay.rs` | parallel vectors per document (path, metadata, content, its trigrams), path table, inverted index, tombstones | `apply_record` (upsert, delete), `content_query`, `filename_query`, `suppresses`, `clear` | five structures must agree after any sequence of upserts, deletes and revivals of a path; docids are reused in place |
| **Overlay log and handle** `df-index/src/overlay_store.rs`, `OverlayHandle` in `deepfindd/src/lib.rs` | `overlay.wal`, an open file or none, the published overlay (`ArcSwap`) | `record_and_apply` = append*, sync, publish; `clear` = truncate, publish empty; `open` = replay | crash between any two steps, torn frames, I/O errors that are only logged |
| **Build marker and jobs** `deepfindd/src/index_job.rs` | a `.indexing` file per database, a reporter thread per build | `try_acquire`, `tracked_build`, guard drop, `sweep_stale_markers`, `spawn_build` | the marker is both a lock and a progress file; it survives the process; builds may panic |
| **df-watch** `watch` in `deepfindd/src/lib.rs` | event channel, debounced batch | receive burst, build records, apply, maybe compact | the file is read later than the event was sent; events keep coming during a compaction |
| **Compaction, safety net, on-demand build** `compact_and_swap`, `rebuild_and_swap`, `spawn_build` | build in flight | walk, write shards, write `index.dfdb`, write `MANIFEST`, reload shards, clear overlay, swap the `DbSet` | several files and several `ArcSwap`s change one by one under running queries |
| **Registry watcher** `registry_watcher` | `dbs.toml` mtime | open a `DbSet`, reuse handles, spawn missing builds, store | read-modify-write of the served `DbSet` without a lock |
| **Queries** `handle_conn`, `query_entry` | a pinned `DbSet` | filename reader, shard snapshot, overlay snapshot, merge, filters, limits | the three snapshots are taken at three times |
| **Cold build pipeline** `df-index/src/content_build.rs` | walker threads, channel of 64, shard under construction | walk, gate, split, flush, rename, `MANIFEST` | bounded channel against a failing consumer; crash between renames |
| **Serve loop, singleton, shutdown** `serve`, `handle_conn`, `singleton.rs` | lock file, socket file, connection tasks | lock, clear and bind the socket, accept, reply in frames, drain, remove the socket | several daemon processes, kills between any two steps, clients that stall; aborts after a bounded drain |
| **Registry, settings** `df-index/src/registry.rs`, `settings.rs`, `atomic_write` | `dbs.toml`, `settings.json` and their `.tmp` | load, change, atomic save | several processes, no lock, one name for all temporary files |
| **Index files** `df-core/src/db.rs`, `turbopfor.rs`, `varint.rs`, `df-content/src/shard.rs` | bytes; a one-block cache per reader | build, finish, open, lookup, candidate intersection, `doc_path` | hash collisions and wrap-around, block and shard boundaries, two threads and one cache slot |
| **Query languages and filters** `boolquery.rs`, `bfs.rs`, `filter.rs`, `lines.rs`, `scope.rs`, `regex_query.rs` | - | parse, evaluate, glob, atom, line numbers and context | precedence, backtracking, first and last lines |
| **CLI** `deepfind/src/main.rs` | - | db, config and install commands, search and index clients, fallback to a direct scan or a foreground build | replies cut off in the middle; commands beside each other and the daemon |
| **Wire encodings, launchd, permissions, mmap** | - | serde, framing, installing an agent | I/O |

**Interactions.**  `serve` opens a `DbSet` (replaying each log), spawns one
df-watch thread per database (if `DEEPFIND_WATCH` is set), sweeps stale markers,
spawns builds of missing databases, the safety net and the registry watcher,
then accepts connections.  A df-watch thread owns clones of one database's shard
handle and overlay handle; it is the only writer of that overlay, as long as
nobody swaps in a `DbEntry` with other handles.  All builds of one database are
serialised by its marker file.  Queries never block: they read `ArcSwap`s.

**What makes each part correct**

- overlay: it is a map from paths to "live document / deleted / ask the cold
  layer"; content queries over it return exactly the live documents that contain
  the needle; dead documents never come back;
- log: what a query could see survives a crash; between batches, memory equals a
  replay of the log;
- marker: one build at a time; a marker means a build; it does not leak for ever;
- LSM: once the watcher has caught up, both layers show the files as they are;
  a swap or a restart never makes results older; changes come to be shown;
- queries: an answer is never older than everything served while it was computed;
  it holds exactly the current matches of the selected databases;
- index files: they answer as a scan of the records they were built from would;
- service: the socket leads to the one running daemon; a client never takes a
  part of a reply for all of it; a shutdown ends;
- registry: a committed command is kept, a killed one leaves no damage; when all
  is quiet the daemon serves what is registered.

Everything hard to test that these properties are for is listed, with its source
line, under `hazards` in `PROJECT.json`.

## 2. Plan

The order is by how much of the system's correctness depends on a part.

1. *done* `Trigrams`, `Overlay`, `OverlayMap` and `OverlayProofs`: the overlay's
   data structure, as an implementation of an abstract map, proved.
2. *done* `OverlayStore` and `OverlayStoreProofs`: the log, crashes and recovery.
3. *done* `BuildMarker` and `BuildMarkerProofs`: mutual exclusion of builds.
4. *done* `Lsm` and `LsmProofs`: one database with its watcher, builds, reloads and queries; it
   composes the promises of 1-3 (the overlay is a map, what is published is
   durable, one build at a time).
5. *done* `ColdBuild` and `ColdBuildProofs`: walker threads, the bounded channel, shard splitting and
   flushing, renames and `MANIFEST`, a failing consumer, crashes.
6. *done* `Codec`, `TrigramTable`, `DbFile`, `ShardFile`, `IndexFiles`: the index
   files from build to query, against scans of the records.
7. *done* `QuerySyntax`, `Filters`, `QueryMerge`, `Queries`: parsers, filters,
   line arithmetic, limits and the merge, against reference definitions.
8. *done* `Service` and `ServiceProofs`: daemons, lock, socket, replies, drain.
9. *done* `Registry` and `RegistryProofs`: commands, shared temporary files, the registry watcher and
   the builds it starts.
10. *done* `IndexFilesProofs`: the posting codec, the Robin Hood table, the layouts of
    `index.dfdb`, of the shards and of `MANIFEST`, the shared reader, and filename,
    content and boolean queries over them, proved.
11. *later* proofs about the line and merge operators; `Lsm`'s build as an abstraction of `ColdBuild`'s, with what an open after
    a crash sees of two builds; `OverlayStore`'s undone truncation under `Lsm`.

## 3. Modules and how they correspond to the code

`PROJECT.json` maps every definition to its lines.

**`Trigrams`** - `fold`, `trigrams`, `cs_verify` and the candidate prefilter
(`df-core/src/candidate.rs`): the rarest needle trigram is picked, its posting
list is the candidate set, candidates are verified.  `contains` stands for
`memchr::memmem` (external).  Bytes are an arbitrary set with an arbitrary fold.
A query carries its needle raw and folded.  `handle_conn` computes the latter as
`fold(needle.to_lowercase())` (`lib.rs:1006`), which differs from `fold` of the raw
needle for non-ASCII capitals; nothing relates the two in `Query`, and
`IndexCovers(q)` names the searches for which the folded index is enough: those that
ignore case, and exact ones whose folded needle is `fold` of the raw one.

**`Overlay`** - `struct Overlay`: `paths`, `metas`, `contents`, `doc_trigrams`
are sequences indexed by docid (from 1), `by_path[p] = 0` is "no slot", `try_map`
maps a trigram to a set of docids.  `Upsert` splits into `Replace` (the path has
a slot) and `Push` (it has none), `Delete` into `DeleteTracked` and
`DeleteUntracked`, as the branches of `apply_record` do; `Clear` is the fresh
overlay that `OverlayHandle::clear` publishes.  Readers are operators.  The
filename scan looks at the slots and tombstones that `SlotsAgree` and
`ImplementsMap` are about; sizes and ordering of results are left out.

**`OverlayMap`** - the abstract specification: one view per path, `cold`, `live`
with a document, or `deleted`.

**`OverlayStore`** - `file` is the log the running system sees, `disk` what the
last sync made durable.  A frame is a header cell and `BodyLen` body cells, so
that torn frames, and torn frames completed by the bytes of a later append,
exist; `decode_records` takes the longest run of frames from the start that
decode, which is where the code's loop stops.  `append`, `sync`, `Publish` are the steps of `record_and_apply`; each has
a failing variant where the code logs the error and goes on.  `Crash` leaves any
prefix beyond the synced part, and may undo an unsynced truncation (external: the
file system).  `open` replays and reopens without cutting the tail, as the code
does.

**`BuildMarker`** - all builders are "acquire, tracked build, swap, drop the
guard"; they differ in how early in `serve` they may start (`CanBuild`).
`Report` is the reporter thread's rewrite of the marker file, `OrphanReport` the
one of a reporter whose build panicked.  `CliStart` is a foreground build by the
CLI.  `WatchThread` is the set of threads that may build before the sweep: the
df-watch threads are spawned earlier than the sweep, but cannot reach a
compaction before a 300 ms debounce and a full batch, so the runs and the two
exclusion theorems have it empty; with a non-empty set `OneBuild` fails.

**`Lsm`** - one database.  A path goes through the states `Life[p]`; layers hold
version numbers, readers see `Obs` of a version.  `disk` is what opening the cold
files now would show, `shards[h]` and `overlay[h]` are what the handles of
generation `h` hold (`entry.h` is the served one), `watcher[h]` is the df-watch
thread that captured generation `h`.  A build is walk (file by file), shards,
`index.dfdb`, `MANIFEST`, then reload of the shard handle, clear of the overlay
(compaction only), open, store; every step is an action of its own, and the
three kinds of build differ where the code does: a compaction clears, an
on-demand build opens handles of its own and attaches a watcher to them.
`NetWake` takes the safety net's snapshot, `ReloadOpen`/`ReloadReuse`/`ReloadStore`
are the registry watcher, `QueryPin`/`QueryContent`/`QueryOverlay` the three
snapshots of a query.  `Rest` is the idle daemon, so that a state TLC reports as
a deadlock is a stuck thread.  `missed`, `rebuilt`, `undone` and the floors in
`query` are history variables.

How `Lsm` uses the others: an overlay is a map (what `OverlayImplementsMap`
proves), a published batch is in the log (what `PublishedSurvives` proves), at
most one build runs (what `BuildsExclude` proves).  A crash inside
`record_and_apply` and a failing log stay in `OverlayStore`.

**`ColdBuild`** - `build_content_index_with_progress`: `Visit` is the walk
visitor up to its send (skip-list, ignore patterns, metadata, `classify`), `Send`
blocks on a full channel, `SendFails` is the closed one; `Recv`, `Flush`,
`Finalize` are the consumer, `Join`, `WriteDb`, `WriteManifest` the caller.
`Kind` says what the filters and the text gate make of an entry; a shard is full
after `FlushDocs` documents, where the code counts bytes.  `files`, `db`,
`manifest` outlive a build, so that later builds meet what failed or killed ones
left.  Shards and documents are numbered from 1 here.  In `Lsm` the same build is
reduced to its four visible steps.

**`OptionValue`** - the constant `NoValue`, Rust's `None`, for the modules below.

**`Codec`** - varints and the posting codec: deltas in frames of `Block`, bit
planes of a width chosen to minimise the frame, exceptions for what is wider.
Buffers are sequences of bytes and positions are the code's.

**`TrigramTable`** - the Robin Hood table that the filename database and the
shards share, with encoded posting lists, and the candidate engine over it.  The
hash is a parameter.

**`DbFile`, `ShardFile`** - what `DbBuilder::finish` and `ShardBuilder` lay out and
what their readers read back.  A file is a sequence of cells (one field, one slot,
one posting byte, one zstd frame), so that every offset and length of the format
is computed as the code does; a compressed frame decodes only with the dictionary
it was made with.  The filename search of `DbFile` lowercases by Unicode rules
(`db.rs:162`); the model does it letter by letter with `fold`, which differs for
letters whose lowercase depends on their context or has another length.
`ShardFile` also has the `MANIFEST` and the query over several
shards.

**`IndexFiles`** - composes them into a state machine: the consumer feeds both
builders record by record, flushes full shards and finishes; then threads call
`doc_path` on one reader, lock hold by lock hold (cache hit, or read and decode
outside the lock, then fill).  **`BoolQuery`** adds the boolean evaluator and its
property.  A formula is the list of its tree's nodes, operands before operators,
so that `evaluate`'s recursion goes along the list.

In these modules a loop is a function over its turns (`PlaceStep`, `DecodeNext`,
`ManifestNext` are one turn), which is what the proofs unfold.  The code's bit
arithmetic is arithmetic on digits: `Shift(v, base, n)` is `v` without its `n` low
digits, `Digits` and `Number` take a number apart and put it together again
(bytes with base 256, varint septets with base 128, planes with base 2).

**`QuerySyntax`** - the tokenizer and the two recursive-descent parsers, which
are the same but for their tokens.  **`Filters`** - `glob_impl` iteration by
iteration, `longest_literal_atom`, line numbers and context blocks.  The glob
matcher works on bytes, so a `?` stands for one byte of a character.
**`QueryMerge`** - `query_entry`, `merge_in`, `override_in`, filters, sorting and
line mode; hash maps iterate in any order, so an answer is a member of a set.
What a document's text does to the needle (hit, atom only, miss) is data.
**`Queries`** - a behaviour picks one of seven tasks and grows an input; the
properties compare the operators with independent reference definitions.

**`Service`** - `pc[d]` is where `serve` is in each daemon process, `lock` and
`sock` are the lock and the socket file (with the listener it was bound to, which
may be dead), `conn[c]` is a client's connection: frames sent and read, the
terminal frame, and whether the daemon's end is open.  `Start` is
`singleton::acquire`, `ClearSocket` and `Bind` follow; `Shutdown`, `DrainDone` or
`DrainTimeout`, `RemoveSocket`, `Exit` are the end of `serve`; `Kill` may hit any
step.  A handler blocks when `Buffer` frames are unread.  `FallBack` is the direct
scan or the foreground build.  What a client makes of an Error frame depends on its
text (`main.rs:800-806`), which contains what the user typed: `Outcomes` leaves open
whether the command fails or falls back to a direct scan.

**`Registry`** - a command loads, changes, creates `<name>.tmp`, writes it and
renames it, each an action.  Files are inodes, because two commands that create
the same temporary file write to one inode, also after one of them has renamed it
into place; a `Torn` document does not parse, and loads as empty.  The daemon
part has the startup build of missing databases, the registry watcher with its
pending event and noted mtime, and one background build per database; whoever has
opened a `DbSet` (`held`) stores it later.  `mixed`, `clashed`, `newer`, `behind`
and `wanted` are history variables.  The unregistered default database is always
opened and is left out; so is a second build of a database whose directory, with
the marker in it, `db remove` deleted under a running build.

The **`MC`** modules give constants their values for TLC;
`BuildMarker` needs no definitions and is run directly.  Definitions named
`X_Something` in front of a definition `X` are its mutated forms, used to check
that each property notices a plausible bug.

## 4. Runs

| Run | Instance | Shows |
|---|---|---|
| `overlay` | 3 paths, 2 metadata values, 3 contents (sharing trigrams, differing in case, too short, with a non-ASCII capital), 16 queries | `TypeOK`, `SlotsAgree`, `PostingsCurrent`, `DeadDocsNeverVerify`, `ContentQueryExact`, `ShadowsExact`, refinement `ImplementsMap`, for all operation sequences (the state space is finite without a bound) |
| `overlay_store` | 2 paths (symmetric), batches up to 2, 3 records, 2 crashes, 1 I/O error | `PublishedSurvivesCrash`, `MemoryMatchesLog` while no frame is torn and no call failed |
| `overlay_store_torn` | 1 crash | violation of `CrashLosesAtMostOneBatch` |
| `build_marker` | 3 build threads, 2 CLIs, 2 crashes, 2 panics, fair | `OneBuild`, `BuildHoldsMarker`, `MarkerMeansBuild`, `MarkerClears` |
| `cold_build` | 8 entries (3 text files, a pruned directory), 2 workers, channel of 2, shards of 2, 3 builds of 3 trees, 2 failures or crashes, fair | `TypeOK`, `OkIsComplete`, `ManifestDescribesShards`, `ShardsNeverOlder`, `Terminates` |
| `lsm` | 2 paths (modified and deleted; created), compaction after every upsert, 1 safety-net cycle, 1 registry reload, 1 crash, fair | `QuietViewCurrent`, `RestartLosesNothing`, `SwapKeepsContent`, `Converges` |
| `lsm_query` | 2 paths, threshold 2, 1 on-demand build, 1 safety-net cycle, 1 query | `QueryFresh`, `RebuildShowsFiles` |
| `lsm_reload_race` | 1 registry reload beside a compaction | violation of `ReloadKeepsFilenames` |
| `index_files` | up to 3 of 4 records, blocks of 2 paths, posting frames of 2, shards of 5 bytes, every hash of 4 trigrams into 2 values, 9 queries (non-ASCII capitals among them), 2 threads | `FilenameQueryExact`, `BooleanQueryExact`, `ContentQueryExact`, `ReadersGetTheirDoc` |
| `queries` | inputs up to 4 to 7 elements per task; 16 parts of regexes; two databases, three paths, 14 option sets | `CodecRoundTrip`, `ParsersFollowGrammar`, `GlobExact`, `AtomRequired`, `LineHitsExact`, `AnswersExact`, `LimitFills` |
| `service` | 2 daemons, 4 starts, a search of 2 batches and an index request, fair | `SocketIsLive`, `NeverPartial`, `ShutdownEnds` |
| `registry` | 2 commands out of 5, 2 databases, 1 pattern, 2 daemon starts, any initial registry | `CommandsKept`, `ServedCurrent` |

**Bounds.**  Three paths let two documents share a posting list while a third is
replaced or deleted.  Two crashes let a log be damaged and then relied on.  In
`OverlayStore` a header and two body cells give a frame cut inside its body as
well as after its header.  In `lsm` a threshold of 1 makes every upsert compact,
so every later change races a compaction; three versions of a path let it change
before, during and after a walk.  Overlapping safety-net, registry and crash
steps need one of each to interfere with a compaction, whose number is not
bounded other than by the changes.  `lsm_query` has threshold 2 so that a query
also meets an overlay that is not compacted at once.

In `cold_build` the trees need two shards, exactly one, and none; a channel shorter
than the tree makes workers block; three builds with two failures give a good
build after a broken one after a good one.

In `index_files` the hash values put several trigrams on one slot and on the last
slot of the table, so that chains displace each other and wrap around; three
records fill one block and begin a second, and flush a shard.  In `queries` the
codec's frames hold 3 numbers, so that 5 of them make a full and a partial frame,
and one wide value in a narrow frame is an exception.  In `service` two daemons
and four starts let each be killed or shut down and come back while the other
starts; one unread frame blocks a handler.  In `registry` two commands at a time
are enough for every overlap of their steps; commands that follow one another
start from any registry.

**Fairness.**  `build_marker`: a started daemon runs straight to its sweep, a
build ends, a guard is dropped, and launchd restarts the daemon (`KeepAlive` in
the agent's plist).  No fairness for crashes, panics, reporters or the CLI.
`MarkerClears` is stated for executions without panics, because of the finding
below.  `lsm`: a df-watch thread that can step does, a build in flight goes on
(or fails), and a dead daemon is restarted; nothing is assumed of file changes,
queries, the safety net or registry reloads.

`service`: a daemon's own steps are taken (the runtime schedules `serve`, and the
drain has a timer); nothing is assumed of starts, signals, kills, handlers or
clients.  `registry`, `queries` and `index_files` check safety only; they, like
`service`, may stop when all commands, inputs or starts are used up, and do not check for
deadlock.

`cold_build`: every thread that can go on does; nothing is assumed of failures.  Its
run does not check for deadlock, because after the last build the model really
stops; `Terminates` is what rules out a stuck build.

**Provisos inside properties.**  `QuietViewCurrent` and `Converges` speak of
paths whose last change some watcher could see (`missed` holds the others: changes
while the daemon is down or before `notify` registered, or events that died in
the channel) and exempt the time after a registry reload put an older filename
reader, or an older handle, back (`undone`), which `lsm_reload_race` shows happens.
`SwapKeepsContent` exempts the publishing of a batch: a record built before a safety-net walk and
published after its swap does show an older version, until the event still in
the channel is applied.  `QueryFresh` exempts a query under which a compaction
cleared the overlay.  `CommandsKept` exempts documents that two commands were
changing at once (`mixed`: the later rename drops the earlier change) or whose
`.tmp` two commands had open at once (`clashed`: the document may be torn).
`ServedCurrent` exempts a `DbSet` stored over one that was opened later, a change
between the startup's open and the registration of the watch, and the index of a
`db add` that failed after it had built (`behind`, `Abandoned`).  Each of these
provisos of `Registry` is needed: without it TLC finds a counterexample.  `AtomRequired`
has two halves: the atom is in every match of a regex made of characters, escapes of
one character, classes, plain groups and repetitions (`AtomKinds`), and every other
part of a regex loses a match already by itself, so that no kind is left out without
need.  `ContentQueryExact` asks for all matches where the index covers the needle
(`IndexCovers`); in the others, exact searches for non-ASCII capitals, the overlay's
version asks for no wrong match.  `LimitFills` leaves out searches with scope or
filters or over overlays that shadow something.  What happens in the exempted
cases is in section 6.

## 5. What is proved

All proofs are checked by TLAPS; they hold for every value of the constants.

**`OverlayProofs`.**  From `Trigrams`' and `Overlay`'s assumptions (contents are
byte sequences, the fold maps bytes to bytes; a query's raw and folded needles are any
two byte sequences):

- the inductive invariant `IInv` is `TypeOK /\ SlotsAgree /\ PostingsCurrent /\
  DeadDocsNeverVerify`.  Each part needs the others: that removing a document's
  old postings removes all of them needs that its remembered trigrams are exactly
  those it is posted under; that needs the slot tables to be inverse to each
  other; and a revived path is only right if the dead document had nothing left.
  One lemma per branch of `apply_record` (`ReplaceIInv`, `PushIInv`,
  `DeleteTrackedIInv`, `DeleteUntrackedIInv`) and `ClearIInv`;
- `TypeCorrect`, `SlotsStayAligned`, `PostingsStayCurrent`, `DeadDocsStayOut`;
- `QueryExact`: the prefilter by the rarest trigram loses nothing
  (`SubstringTrigrams`: the trigrams of a substring are trigrams of the text;
  `ContainsFold`: containment survives folding; `PrefilterComplete`), if the index
  covers the needle (`IndexCovers`), and verification lets nothing wrong through,
  whatever the needle;
- `ShadowingExact`: the merge's suppression test is the map's;
- `OverlayImplementsMap`: every upsert, delete and clear is that operation of
  `OverlayMap`.

**`BuildMarkerProofs`.**  Any numbers of threads, CLIs, crashes and panics:

- `BuildsExclude`, `BuildsAreMarked`, assuming `WatchThread = {}`.  The invariant
  `MarkerInv` adds that no build runs before the sweep: otherwise the sweep could
  take a live build's marker;
- `MarkerIsMeaningful`, without that assumption: if no build panicked, a swept
  daemon's marker belongs to a running build (`QuietInv` adds that no reporter
  is orphaned).

**`ServiceProofs`.**  Any numbers of daemons, clients, starts and batches, any
buffer; it is assumed that `NoValue` is neither a daemon nor a frame:

- `SocketStaysLive`.  The property is not inductive: that nobody else removes the
  socket of a listening daemon needs that whoever is past `singleton::acquire`,
  listening or not, holds the lock (`LockHeld`), and that a listening daemon's
  socket is in place (`SocketBound`);
- `RepliesNeverPartial`.  `ReplyInv` adds what the counters of every connection
  mean: no more frames are read than sent, Done is sent behind all batches, an Error
  frame is the only one of its reply.  So a client that falls back, be it after an
  Error frame, has read no result.

**`OverlayStoreProofs`.**  Any paths and values, any frame length, batch size and
number of crashes and errors (`StoreAssumption`: frames have a body, bounds are
numbers):

- `PublishedSurvives`: whatever a crash leaves of an intact log, a replay applies
  every published record.  The invariant says that an intact log is, cell by cell,
  the frames of what was published and of what the append loop has written of the
  current batch (`LogInv`), and that a published part is inside the synced part.
  The proof then shows what `decode_records` gives for *any* extension of a run of
  complete frames (`Framed`, `Starts`), torn tails and lucky decodings included;
- `MemoryIsLog`: `MemInv` keeps the overlay equal to what was published; with
  `LogInv` the replay of the log is the same sequence;
- `TypeCorrect`.

**`LsmProofs`.**  Any paths and histories of files, any threshold, any number of
safety-net cycles, reloads, restarts and queries (`LsmAssumption`: every path has
a non-empty history, bounds are numbers).  One inductive invariant `IInv` of ten
named parts, one lemma per action:

- `OrderInv`: disk, readers, overlays and records are never ahead of the files, a
  served reader is never ahead of the disk, a build in flight is not behind what
  it replaces; `BuildInv`: what is already written, reloaded and opened at each
  step of a build; `ControlInv`: which handle and watcher a build belongs to;
- `QueryInv`: at each of the three snapshots of a query, what the layers still to
  be read can contribute is not below the floors.  From it `QueriesAreFresh`, for
  any number of on-demand builds;
- `RebuildInv`: as long as no reload undid the swap, paths unchanged since a
  rebuild read them are current in both served layers.  From it
  `RebuildsAreShown`;
- `WatchInv`: a record is current or an event for its path is queued;
  `CompactInv`: the same for what a compaction has read, and the overlay holds
  nothing newer than the walk.  This is why clearing the overlay after the reload
  of the shards loses nothing;
- `OneInv`, assuming `MaxHandles = 1` (the daemon is not asked for an on-demand
  build): log and overlay agree, and a path whose events have been applied is
  current in the overlay, or absent from it and current in every cold layer,
  except that the filename reader lags between a compaction's clear and its store.
  From it `QuietIsCurrent`, `RestartIsSafe` and the action property
  `SwapsAreMonotone`.  The hypothesis is needed: after an on-demand build of a
  watched database two watchers write one log, and the served overlay is not the
  one the first of them updates (section 6).  The run `lsm` has it too.
- `TypeCorrect`.

**`ColdBuildProofs`.**  Any tree of entries (`ParentAssumption`: parents lead to
the root), any number of workers, builds, failures and crashes, any channel
capacity and shard size:

- `BuildIsComplete`: the walk keeps entries to be visited, held by a worker, and
  sent (in the channel or filed) disjoint, and every filed directory's children
  are among them (`WalkInv`); when the walk is over and the channel drained, what
  was filed is the tree.  That the entries to be filed are those with only
  directories above them is shown from a least entry that is missing;
- `ManifestIsRight`: docid bases follow each other (`ShardsInv`) and the documents
  of the shards add up (`ContentsInv`);
- `ShardsAreCurrent`: every flush replaces a shard by one of the running build,
  also if that build later fails;
- `TypeCorrect`.

**`RegistryProofs`.**  Any databases, patterns, command-line processes, commands,
kills and restarts:

- `CommandsAreKept`: no two names lead to one inode (`InodeInv`), the one writer of
  a `.tmp` has it to itself and renames it whole (`WriterInv`), and the one command
  between load and rename will save what it makes of the commands committed so far
  (`SpanInv`);
- `ServedIsCurrent`: if the newest `DbSet` anybody has opened is wrong about a
  built database, then an event is pending, a `db add` has not renamed yet, or a
  background build will still open a set (`LatestRight`).

**`IndexFilesProofs`.**  Any number of records, any hash function, needles, limits,
formulas and reader threads, any posting frame of 1 to 65535 numbers, any blocks
of paths and shard size.  Assumed: the fold maps bytes to bytes and bytes are
numbers (`FoldAssumption`, `RecordAssumption`); the block sizes (`BlockAssumption`,
`BlockPathsAssumption`); docids are 32-bit (`DocidAssumption`); the trigrams of needles have hashes
(`QueryAssumption`, which relates a query's raw and folded needles in no way); a limit
is none or a number (`LimitAssumption`); none is no value of another kind (`NoneAssumption`); a formula's
operands come before it (`FormulaAssumption`).  That `zstd` inverts itself, given the
same dictionary, is in the model.

- `PostingRoundTrip`: the codec gives back every list of 32-bit numbers, from any
  position of any buffer.  `Horner` and `DigitOfNumber` make bit planes and bytes
  positional numbers; `WidthExists` and `Frame` bound the width and the exceptions;
  `DecodeBlock` reads one frame, `EncodeLayout` says where each one is;
- `VarintRoundTrip`: a varint of any 32-bit number is read back from any position, and
  refused where the buffer ends inside it;
- `PostingFound`: every trigram's own posting list is found in the table and no
  other.  The invariant of the insertion is that a slot's occupant is where its
  hash sends it plus its distance, and that the slots before it, back to its home,
  are at least as far from theirs (`StaysSafe`, `TakesContent`); the early
  termination of a lookup is right because of it (`LookupStops`), and a free slot is
  always left (`HasRoom`);
- `FileLayout` and `OpenFile`: every offset and length of `index.dfdb` is where its
  reader looks for it;
- `ReadersAreRight`: threads that share the one-block cache get the path of the docid
  they asked for.  The property is not inductive.  `IInv` adds what the builder has
  indexed (`BuilderInv`), that the file is the one `finish` makes of it (`FileInv`),
  that a cached block is the block its number says (`CacheInv`), and that a call
  between its two lock holds is still for a block of the same file (`CallInv`);
- `FilenameQueries`: the candidates contain every match (`CandidatesComplete`), the
  verified ones are the matches, and two ascending lists of the same docids are
  equal (`PostingUnique`), which gives the order and the limit;
- `ContentQueries`: `ShardInv` says that flushed shards hold consecutive parts of the
  texts, each opens (`ShardOpens`) and answers for its part (`ShardFileAnswers`), and
  the shard under construction holds the rest.  `ManifestReads` reads the `MANIFEST`
  back entry by entry, and refuses every part of it that is cut short.  Then the
  answers of the shards one after another, each up to the limit, are those of a scan
  of their parts (`QueryShards`), for the queries the index covers (`IndexCovers`,
  `Covered`): all that ignore case, and exact ones without non-ASCII capitals;
- `BooleanQueries`: for a formula of any size, `evaluate`'s recursion is well defined
  (`CourseOfValues`) and gives each node the docids whose record makes it true
  (`FormulaDocids`, `DocidsAreTrue`).

Induction goes through `LeastNatural`: a set of numbers that contains 0 and with each
number the next one contains all up to a bound.

**Only model-checked.**  Liveness (`MarkerClears`, `Converges`, `Terminates`,
`ShutdownEnds`), which is out of the prover's reach, and the properties of `Queries`,
whose parsers and glob matcher are recursive or compared with recursive
definitions.  Of these, what `CodecRoundTrip` says of small inputs is what
`PostingRoundTrip` and `VarintRoundTrip` prove of all.  That the non-recursive `decode_records` of
`OverlayStore` and `Above` of `ColdBuild` are what the code's loop and the walk
compute is by reading; the former was compared with a frame-by-frame decoder on
all states of the run.

## 6. Disagreements between code and documentation

Each has a run whose counterexample shows it, and an entry with the quoted line
under `findings` in `PROJECT.json`.

- **A torn log tail is kept** (`overlay_store_torn`).  Batches synced after a
  restart lie behind it; the next crash loses all of them, not "at most one batch
  window".
- **A registry reload can undo a swap** (`lsm_reload_race`): it stores a `DbSet`
  opened before a compaction over the one the compaction stored.

Seen while modelling, without a run of their own; where a property exempts one of
them, its comment says so:

*Builds and layers.*
- A panicking build leaves its reporter running (`index_job.rs:142`), which
  recreates the marker every 250 ms; later builds are refused until the daemon
  ends, although the guard's comment covers panics.  `MarkerMeansBuild` therefore
  asks for `panics = 0`.
- Foreground CLI builds ignore the marker (`main.rs:425`; `CHANGELOG.md:39`).
- An on-demand rebuild of a watched database swaps in new handles
  (`index_job.rs:185`): what the running watcher records afterwards never reaches
  queries.  The run `lsm` has no on-demand build, `lsm_query` has one but does not
  check `QuietViewCurrent`.
- The safety net does not see past the overlay (`lib.rs:262`, against the comment
  at `lib.rs:809`): a change made while the daemon was down stays hidden behind the
  replayed entry of its path.  `RebuildShowsFiles` asks for a path without one.
- Compaction clears the overlay before it swaps the filename layer
  (`deepfindd/src/lib.rs:360`), the reverse of the order in `docs/decisions.md:258`,
  so that for a moment filename queries answer from the old index alone.
- `Overlay::len`, the compaction trigger, does not count deletions of paths without
  a slot, so an overlay of such deletions is never compacted.
- The df-watch threads are spawned before the sweep that assumes no build is in
  flight.
- A query pinned before a compaction's clear and reading the overlay after it
  answers from the old cold layer although the comment in `handle_conn` says a
  hot-swap does not affect it.

*Queries.*
- The literal atom of a regex need not be in its matches (`filter.rs:117-159`), so
  matches are lost before the regex is tried, against "always a superset" in
  `regex_query.rs:12-15`.  This happens
  with optional parts (`ab*`, `ab?`), alternatives (`foo|barbaz`, `(ab|c)`), groups
  with a prefix (`(?:ab)c` gives the atom `:ab`, `(?P<n>ab)` gives `P<n>ab`), inline
  flags (`(?i)a` gives `i`), escapes of more than one character (`\x41b` gives `41b`,
  `\pL`) and classes with a bracket inside (`[]a]`).  The second half of `AtomRequired`
  has TLC find the lost match for each of these kinds.  `content_regex_docids`
  moreover applies the limit to candidates the regex has not verified.
- An exact content search with a non-ASCII capital (`École`) may miss its matches, in the
  index as in the overlay: the needle's trigrams are those of `école`, since `lib.rs:1006`
  lowercases it by Unicode rules, and documents are folded by ASCII rules.  A search
  that ignores case looks for `école` only.  `candidate.rs:24-26` says the folded
  prefilter is "always a correct over-approximation regardless of case mode".
  `ContentQueryExact` in both modules therefore asks for `IndexCovers`; without it TLC
  finds the loss.
- A `*` in the text is matched by a `*` of the pattern as a literal first
  (`filter.rs:48`), so the pattern `*b` does not match the text `*ab`.
- The limit is applied per layer before scope and filters although the comment at
  `lib.rs:954` says it counts in-scope results (the content layer uses
  `ctx.limit`); hits of the cold layer that the overlay then removes have used up
  places; `--expr` and regexes do not count as filters for `merge_cap`.
- A malformed `--expr` is dropped and everything passes (`lib.rs:1135`).
- "Both already passed it via the filename layer" (`lib.rs:1148`) is not so: the
  layer tests the atom only.
- Line mode ignores layers and filters, shows a file of two databases twice, and its
  `retain` also drops hits of databases handled earlier.
- `--scope .` matches nothing, since only `./` is stripped;
  `normalize_pattern` (`content_build.rs:158-176`) drops the `!` of an absolute
  negation; a lone term reaches `single_docids` as it was typed (`query.rs:26`).

*Service and registry.*
- A reply that ends early is an error and the process exits, although the comment at
  `main.rs:1004` says "fall back to --direct so the user gets complete results": the
  test at `main.rs:801` does not know the message.
- The comment at `main.rs:791-794` calls application errors such as an unknown `--db`
  name fatal, but the test at `main.rs:801` reads their text: "no registered DB named
  'connect...'" passes for a failed connection, and the direct scan ignores `--db`.
- Two commands that overlap lose an update (`main.rs:506`); two saves share
  `<name>.tmp` (`df-index/src/lib.rs:235`), and a torn `dbs.toml` loads as an empty
  registry, which the next command saves.
- A `DbSet` opened early may be stored late, by `registry_watcher`
  (`lib.rs:1675`) or by one of two builds (`index_job.rs:185`): a database that was
  just built is not served until the next reload.
- A change of `dbs.toml` between `DbSet::open` and the registration of the watch
  (`lib.rs:743-805`) is missed until the next one.
- `db remove` deletes the directory also if the registry could not be saved.

## 7. What is not modelled

- **Not yet** (see the plan): what a restart after a killed multi-shard build
  serves (shards of two builds under the old `MANIFEST`); a log truncation undone by
  power loss, under the LSM.
- **Left out of the modelled parts**: ignore patterns and the daemon's own writes
  under a watched root (every path is indexed, none is the index itself); notify's
  loss or coalescing of events (an event is queued for every change while a
  watcher is registered); file metadata other than "this version"; `-path` and wildcards of `-name` in
  bfs expressions; what zstd and the regex engine compute; the direct scan, `--exec`, output and `status` of the CLI.
- **Out of scope**: the encoding of frames (library framing and serde), launchd
  installation, permission probing and mmap, which are I/O around services of the
  operating system.
