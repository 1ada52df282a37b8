-------------------------------- MODULE Lsm ---------------------------------
(***************************************************************************)
(* One registered database inside the daemon, deepfindd/src/lib.rs: the    *)
(* cold index on disk, the handles queries read it through, the hot        *)
(* overlay, and the threads that move data between them -- df-watch and its*)
(* compaction, the safety net, on-demand builds, the registry watcher --   *)
(* while files change and queries run.                                     *)
(*                                                                         *)
(* A path goes through the states Life[p]; a version is a position in it.  *)
(* Layers store versions; Obs(p, n) is what a reader can see of one.       *)
(*                                                                         *)
(* Overlays are the maps of module OverlayMap, which Overlay implements;   *)
(* the log beneath them is synced before it is published (OverlayStore),   *)
(* so a published batch is durable here.  The marker of BuildMarker lets   *)
(* one thread build at a time: build.kind = "none" is a free marker.       *)
(* Ignore patterns and self-writes are left out: every path is indexed.    *)
(***************************************************************************)
EXTENDS Naturals, Sequences, FiniteSets

CONSTANTS Path,
          Life,        \* path -> the sequence of states it goes through
          Absent,      \* the state of a path with no file
          Watch,       \* DEEPFIND_WATCH is set
          Threshold,   \* compaction_threshold()
          MaxHandles,  \* bound: handle generations, 1 + on-demand builds
          MaxNets,     \* bound: cycles of the safety net
          MaxReloads,  \* bound: registry reloads
          MaxCrashes,  \* bound: ends of the daemon process
          MaxQueries   \* bound: queries asked

ASSUME LsmAssumption ==
    /\ \A p \in Path : Life[p] \in Seq(UNION {{Life[q][i] : i \in 1..Len(Life[q])} : q \in Path})
    /\ \A p \in Path : Len(Life[p]) > 0
    /\ Watch \in BOOLEAN
    /\ {Threshold, MaxHandles} \subseteq Nat \ {0}
    /\ {MaxNets, MaxReloads, MaxCrashes, MaxQueries} \subseteq Nat

VARIABLES fs,        \* path -> its version now
          disk,      \* the cold files: what opening them now would show
          wal,       \* the overlay a replay of overlay.wal gives
          up,        \* the daemon process runs
          entry,     \* the served DbEntry: a filename reader, a handle
          handles,   \* handle generations used by this process
          shards,    \* handle -> the shard set ContentShards holds
          overlay,   \* handle -> the overlay OverlayHandle holds
          watcher,   \* handle -> the df-watch thread that captured it
          net,       \* the handle the safety net's cycle captured, or 0
          build,     \* the build in flight
          fresh,     \* the DbEntry opened by the build, not stored yet
          reload,    \* the registry watcher's reload in progress
          query,     \* the query in progress
          missed,    \* history: paths changed while nobody watched
          rebuilt,   \* history: paths unchanged since the rebuild last swapped in read them
          undone,    \* history: a registry reload put an older reader or handle back
          nets, reloads, crashes, queries

\* What is only there to state properties, and to keep the model finite.
history == <<missed, rebuilt, undone>>
bounds == <<nets, reloads, crashes, queries>>
vars == <<fs, disk, wal, up, entry, handles, shards, overlay, watcher, net,
          build, fresh, reload, query, history, bounds>>

Version(p) == 1..Len(Life[p])
Obs(p, n) == Life[p][n]

\* Handle generations: a DbEntry opened with handles of its own starts one.
Handle == 1..MaxHandles

\* One layer's versions; 0 is "no entry".
NoVersions == [p \in Path |-> 0]
Layer == [Path -> Nat]

EmptyOverlay == [ver |-> NoVersions, slots |-> {}]

\* The records for the paths with recs[p] # 0 applied to an overlay.  Only an
\* upsert takes a slot: Overlay.len() counts slots, not tombstones.
Apply(o, recs) ==
    [ver   |-> [p \in Path |-> IF recs[p] # 0 THEN recs[p] ELSE o.ver[p]],
     slots |-> o.slots \cup {p \in Path : recs[p] # 0 /\ Obs(p, recs[p]) # Absent}]

Idle == [pc |-> "off", chan |-> {}, batch |-> {}, recs |-> NoVersions]
NoBuild == [kind |-> "none", h |-> 0, pc |-> "done", walk |-> NoVersions]
NoEntry == [db |-> NoVersions, h |-> 0]
NoReload == [pc |-> "idle", db |-> NoVersions, h |-> 0]
NoQuery == [pc |-> "idle", db |-> NoVersions, ct |-> NoVersions, h |-> 0,
            fnFloor |-> NoVersions, ctFloor |-> NoVersions, cleared |-> FALSE]

\* The daemon is up on an index that nothing has changed under.
Init == /\ fs = [p \in Path |-> 1]
        /\ disk = [db |-> fs, shards |-> fs]
        /\ wal = EmptyOverlay
        /\ up = TRUE
        /\ entry = [db |-> fs, h |-> 1]
        /\ handles = 1
        /\ shards = [h \in Handle |-> fs]
        /\ overlay = [h \in Handle |-> EmptyOverlay]
        /\ watcher = [h \in Handle |->
                        IF Watch /\ h = 1 THEN [Idle EXCEPT !.pc = "idle"] ELSE Idle]
        /\ net = 0
        /\ build = NoBuild
        /\ fresh = NoEntry
        /\ reload = NoReload
        /\ query = NoQuery
        /\ missed = {}
        /\ rebuilt = {}
        /\ undone = FALSE
        /\ nets = 0 /\ reloads = 0 /\ crashes = 0 /\ queries = 0

\* What a query answered from the current handles would see of p.
Merged(ov, cold, p) == IF ov.ver[p] # 0 THEN ov.ver[p] ELSE cold[p]
FilenameView(p) == Merged(overlay[entry.h], entry.db, p)
ContentView(p) == Merged(overlay[entry.h], shards[entry.h], p)

-----------------------------------------------------------------------------
(* The file system, and notify's callback *)

Watching(h) == watcher[h].pc \notin {"off", "starting"}

\* A file changes; each registered notify watcher queues an event for it.
Change(p) ==
    /\ fs[p] < Len(Life[p])
    /\ fs' = [fs EXCEPT ![p] = @ + 1]
    /\ watcher' = [h \in Handle |->
                     IF Watching(h) THEN [watcher[h] EXCEPT !.chan = @ \cup {p}]
                                    ELSE watcher[h]]
    /\ missed' = IF up /\ Watching(entry.h) THEN missed ELSE missed \cup {p}
    /\ rebuilt' = rebuilt \ {p}
    /\ UNCHANGED <<disk, wal, up, entry, handles, shards, overlay, net, build,
                   fresh, reload, query, undone, bounds>>

-----------------------------------------------------------------------------
(* df-watch: watch::run *)

WatcherStep(h, from, w) == /\ watcher[h].pc = from
                           /\ watcher' = [watcher EXCEPT ![h] = w]

\* The notify watcher is registered; earlier changes were not seen.
WatchStart(h) ==
    /\ WatcherStep(h, "starting", [watcher[h] EXCEPT !.pc = "idle"])
    /\ UNCHANGED <<fs, disk, wal, up, entry, handles, shards, overlay, net,
                   build, fresh, reload, query, history, bounds>>

\* Mutation: events that arrive during the debounce are thrown away.
Recv_DropsBurst(h) ==
    /\ \E burst \in SUBSET watcher[h].chan \ {{}} :
         WatcherStep(h, "idle", [watcher[h] EXCEPT !.pc = "reading", !.chan = {}, !.batch = burst])
    /\ UNCHANGED <<fs, disk, wal, up, entry, handles, shards, overlay, net,
                   build, fresh, reload, query, history, bounds>>

\* recv, debounce, drain: whatever has been delivered by then is the batch.
Recv(h) ==
    /\ \E burst \in SUBSET watcher[h].chan \ {{}} :
         WatcherStep(h, "idle", [watcher[h] EXCEPT !.pc = "reading",
                                 !.chan = @ \ burst, !.batch = burst])
    /\ UNCHANGED <<fs, disk, wal, up, entry, handles, shards, overlay, net,
                   build, fresh, reload, query, history, bounds>>

\* build_record looks at the file now, not when the event was sent.
BuildRecord(h, p) ==
    /\ p \in watcher[h].batch
    /\ WatcherStep(h, "reading", [watcher[h] EXCEPT !.batch = @ \ {p}, !.recs[p] = fs[p]])
    /\ UNCHANGED <<fs, disk, wal, up, entry, handles, shards, overlay, net,
                   build, fresh, reload, query, history, bounds>>

\* After a batch, a full overlay is compacted.
AfterBatch(o) == IF Cardinality(o.slots) >= Threshold THEN "compact" ELSE "idle"

\* History: the oldest version served since the query in progress began.
Lower(floor, o) == [p \in Path |-> IF o.ver[p] \in 1..floor[p] THEN o.ver[p] ELSE floor[p]]
Witness(o) == [query EXCEPT !.fnFloor = Lower(@, o), !.ctFloor = Lower(@, o)]

\* Mutation: the batch is published without being logged.
RecordAndApply_NoWal(h) ==
    LET o == Apply(overlay[h], watcher[h].recs) IN
    /\ watcher[h].batch = {}
    /\ WatcherStep(h, "reading", [watcher[h] EXCEPT !.pc = AfterBatch(o), !.recs = NoVersions])
    /\ overlay' = [overlay EXCEPT ![h] = o]
    /\ query' = Witness(o)
    /\ missed' = {p \in missed : watcher[h].recs[p] = 0}
    /\ UNCHANGED <<fs, disk, wal, up, entry, handles, shards, net, build, fresh,
                   reload, rebuilt, undone, bounds>>

\* OverlayHandle::record_and_apply, then the compaction test.
RecordAndApply(h) ==
    LET o == Apply(overlay[h], watcher[h].recs) IN
    /\ watcher[h].batch = {}
    /\ WatcherStep(h, "reading", [watcher[h] EXCEPT !.pc = AfterBatch(o), !.recs = NoVersions])
    /\ wal' = Apply(wal, watcher[h].recs)
    /\ overlay' = [overlay EXCEPT ![h] = o]
    /\ query' = Witness(o)
    /\ missed' = {p \in missed : watcher[h].recs[p] = 0}
    /\ UNCHANGED <<fs, disk, up, entry, handles, shards, net, build, fresh,
                   reload, rebuilt, undone, bounds>>

-----------------------------------------------------------------------------
(* Builds.  kind "compact" is compact_and_swap on watcher h's thread, "net"
   is the safety net's rebuild_and_swap, "demand" is spawn_build.  The watcher
   thread that compacts does nothing else until the build is over.           *)

Begin(kind, h) ==
    /\ build.kind = "none"
    /\ build' = [kind |-> kind, h |-> h, pc |-> "walk", walk |-> NoVersions]

StartCompaction(h) ==
    /\ Begin("compact", h)
    /\ WatcherStep(h, "compact", [watcher[h] EXCEPT !.pc = "compacting"])
    /\ UNCHANGED <<fs, disk, wal, up, entry, handles, shards, overlay, net,
                   fresh, reload, query, history, bounds>>

\* A build is in flight: the overlay keeps absorbing until the next batch.
SkipCompaction(h) ==
    /\ build.kind # "none"
    /\ WatcherStep(h, "compact", [watcher[h] EXCEPT !.pc = "idle"])
    /\ UNCHANGED <<fs, disk, wal, up, entry, handles, shards, overlay, net,
                   build, fresh, reload, query, history, bounds>>

\* A cycle of the safety net begins with a snapshot of the DbSet; the databases
\* before this one in the snapshot may take long to rebuild.
NetWake ==
    /\ up /\ net = 0 /\ nets < MaxNets
    /\ nets' = nets + 1
    /\ net' = entry.h
    /\ UNCHANGED <<fs, disk, wal, up, entry, handles, shards, overlay, watcher,
                   build, fresh, reload, query, history, reloads, crashes,
                   queries>>

NetBuild ==
    /\ net # 0
    /\ Begin("net", net)
    /\ net' = 0
    /\ UNCHANGED <<fs, disk, wal, up, entry, handles, shards, overlay, watcher,
                   fresh, reload, query, history, bounds>>

NetSkip ==
    /\ net # 0 /\ build.kind # "none"
    /\ net' = 0
    /\ UNCHANGED <<fs, disk, wal, up, entry, handles, shards, overlay, watcher,
                   build, fresh, reload, query, history, bounds>>

\* `deepfind index` over the socket.
StartOnDemand ==
    /\ up
    /\ handles < MaxHandles
    /\ Begin("demand", handles + 1)
    /\ UNCHANGED <<fs, disk, wal, up, entry, handles, shards, overlay, watcher,
                   net, fresh, reload, query, history, bounds>>

BuildStep(from, to) == /\ build.kind # "none"
                       /\ build.pc = from
                       /\ build' = [build EXCEPT !.pc = to]

\* The walker reads the files one by one.
Walk(p) ==
    /\ build.pc = "walk" /\ build.walk[p] = 0
    /\ build' = [build EXCEPT !.walk[p] = fs[p]]
    /\ UNCHANGED <<fs, disk, wal, up, entry, handles, shards, overlay, watcher,
                   net, fresh, reload, query, history, bounds>>

\* The consumer renames its shard over the one of the previous build, which
\* the old MANIFEST names; with no content there is no shard to write.
WriteShards ==
    /\ \A p \in Path : build.walk[p] # 0
    /\ BuildStep("walk", "db")
    /\ disk' = [disk EXCEPT !.shards =
                  IF \E p \in Path : Obs(p, build.walk[p]) # Absent THEN build.walk ELSE @]
    /\ UNCHANGED <<fs, wal, up, entry, handles, shards, overlay, watcher, net,
                   fresh, reload, query, history, bounds>>

WriteDb ==
    /\ BuildStep("db", "manifest")
    /\ disk' = [disk EXCEPT !.db = build.walk]
    /\ UNCHANGED <<fs, wal, up, entry, handles, shards, overlay, watcher, net,
                   fresh, reload, query, history, bounds>>

\* An on-demand build goes on to open a new DbSet, the others reload shards.
WriteManifest ==
    /\ BuildStep("manifest", IF build.kind = "demand" THEN "open" ELSE "reload")
    /\ disk' = [disk EXCEPT !.shards = build.walk]
    /\ UNCHANGED <<fs, wal, up, entry, handles, shards, overlay, watcher, net,
                   fresh, reload, query, history, bounds>>

\* The watcher thread returns to its loop when its compaction ends.
EndBuild == /\ build' = NoBuild
            /\ watcher' = IF build.kind = "compact"
                          THEN [watcher EXCEPT ![build.h].pc = "idle"] ELSE watcher

\* The build returns an error, logged; what it wrote so far stays.
BuildFails ==
    /\ build.pc \in {"walk", "db", "manifest"}
    /\ EndBuild
    /\ UNCHANGED <<fs, disk, wal, up, entry, handles, shards, overlay, net,
                   fresh, reload, query, history, bounds>>

\* Mutation: the shard set is not re-read after the build.
ReloadShards_Skipped ==
    /\ BuildStep("reload", IF build.kind = "compact" THEN "clear" ELSE "open")
    /\ UNCHANGED <<fs, disk, wal, up, entry, handles, shards, overlay, watcher,
                   net, fresh, reload, query, history, bounds>>

\* ContentShards::reload
ReloadShards ==
    /\ BuildStep("reload", IF build.kind = "compact" THEN "clear" ELSE "open")
    /\ shards' = [shards EXCEPT ![build.h] = disk.shards]
    /\ UNCHANGED <<fs, disk, wal, up, entry, handles, overlay, watcher, net,
                   fresh, reload, query, history, bounds>>

\* OverlayHandle::clear, compaction only.
ClearOverlay ==
    /\ BuildStep("clear", "open")
    /\ overlay' = [overlay EXCEPT ![build.h] = EmptyOverlay]
    /\ wal' = EmptyOverlay
    /\ query' = [query EXCEPT !.cleared = query.pc # "idle"]
    /\ UNCHANGED <<fs, disk, up, entry, handles, shards, watcher, net, fresh,
                   reload, history, bounds>>

\* Mutation: the filename layer is not reloaded.
OpenReusing_KeepsDb ==
    /\ build.kind \in {"compact", "net"}
    /\ BuildStep("open", "store")
    /\ fresh' = entry
    /\ UNCHANGED <<fs, disk, wal, up, entry, handles, shards, overlay, watcher,
                   net, reload, query, history, bounds>>

\* reload_dbset_reusing_handles: DbSet::open, but with the served handles.
OpenReusing ==
    /\ build.kind \in {"compact", "net"}
    /\ BuildStep("open", "store")
    /\ fresh' = [db |-> disk.db, h |-> entry.h]
    /\ UNCHANGED <<fs, disk, wal, up, entry, handles, shards, overlay, watcher,
                   net, reload, query, history, bounds>>

\* Mutation: only the handles are new, the filename reader is the old one.
OpenNew_KeepsDb ==
    /\ build.kind = "demand"
    /\ BuildStep("open", "store")
    /\ handles' = build.h
    /\ shards' = [shards EXCEPT ![build.h] = disk.shards]
    /\ overlay' = [overlay EXCEPT ![build.h] = wal]
    /\ fresh' = [db |-> entry.db, h |-> build.h]
    /\ UNCHANGED <<fs, disk, wal, up, entry, watcher, net, reload, query,
                   history, bounds>>

\* spawn_build: DbSet::open with handles of its own, the log replayed.
OpenNew ==
    /\ build.kind = "demand"
    /\ BuildStep("open", "store")
    /\ handles' = build.h
    /\ shards' = [shards EXCEPT ![build.h] = disk.shards]
    /\ overlay' = [overlay EXCEPT ![build.h] = wal]
    /\ fresh' = [db |-> disk.db, h |-> build.h]
    /\ UNCHANGED <<fs, disk, wal, up, entry, watcher, net, reload, query,
                   history, bounds>>

\* dbset.store
Store ==
    /\ build.kind # "none" /\ build.pc = "store"
    /\ entry' = fresh
    /\ fresh' = NoEntry
    /\ IF build.kind = "demand"
       THEN build' = [build EXCEPT !.pc = "attach"] /\ UNCHANGED watcher
       ELSE EndBuild
    /\ rebuilt' = {p \in Path : fresh.h = build.h /\ build.walk[p] = fs[p]}
    /\ undone' = FALSE
    /\ UNCHANGED <<fs, disk, wal, up, handles, shards, overlay, net, reload,
                   query, missed, bounds>>

\* spawn_build attaches a watcher to the handle it created.
Attach ==
    /\ build.pc = "attach"
    /\ build' = NoBuild
    /\ watcher' = IF Watch THEN [watcher EXCEPT ![build.h].pc = "starting"] ELSE watcher
    /\ UNCHANGED <<fs, disk, wal, up, entry, handles, shards, overlay, net,
                   fresh, reload, query, history, bounds>>

-----------------------------------------------------------------------------
(* registry_watcher::run, after dbs.toml changed *)

\* DbSet::open.  The handles it makes are replaced in the next step.
ReloadOpen ==
    /\ up /\ reload.pc = "idle" /\ reloads < MaxReloads
    /\ reloads' = reloads + 1
    /\ reload' = [pc |-> "load", db |-> disk.db, h |-> 0]
    /\ UNCHANGED <<fs, disk, wal, up, entry, handles, shards, overlay, watcher,
                   net, build, fresh, query, history, nets, crashes, queries>>

\* load_full, reuse_handles_from
ReloadReuse ==
    /\ reload.pc = "load"
    /\ reload' = [reload EXCEPT !.pc = "store", !.h = entry.h]
    /\ UNCHANGED <<fs, disk, wal, up, entry, handles, shards, overlay, watcher,
                   net, build, fresh, query, history, bounds>>

ReloadStore ==
    /\ reload.pc = "store"
    /\ entry' = [db |-> reload.db, h |-> reload.h]
    /\ reload' = NoReload
    /\ undone' = (undone \/ reload.h # entry.h \/ \E p \in Path : reload.db[p] < entry.db[p])
    /\ UNCHANGED <<fs, disk, wal, up, handles, shards, overlay, watcher, net,
                   build, fresh, query, missed, rebuilt, bounds>>

-----------------------------------------------------------------------------
(* The end of the process, and serve() again *)

\* Events that have not reached the log die with the process.
Unapplied(h, p) == \/ p \in watcher[h].chan \cup watcher[h].batch
                   \/ watcher[h].recs[p] # 0

Crash ==
    /\ up /\ crashes < MaxCrashes
    /\ crashes' = crashes + 1
    /\ up' = FALSE
    /\ watcher' = [h \in Handle |-> Idle]
    /\ net' = 0
    /\ build' = NoBuild
    /\ fresh' = NoEntry
    /\ reload' = NoReload
    /\ query' = NoQuery
    /\ rebuilt' = {}
    /\ missed' = missed \cup {p \in Path : \E h \in Handle : Unapplied(h, p)}
    /\ UNCHANGED <<fs, disk, wal, entry, handles, shards, overlay, undone,
                   nets, reloads, queries>>

\* DbSet::open: the cold files as they are, the overlay replayed.
Restart ==
    /\ ~up
    /\ up' = TRUE
    /\ entry' = [db |-> disk.db, h |-> 1]
    /\ handles' = 1
    /\ shards' = [h \in Handle |-> disk.shards]
    /\ overlay' = [h \in Handle |-> IF h = 1 THEN wal ELSE EmptyOverlay]
    /\ watcher' = IF Watch THEN [watcher EXCEPT ![1].pc = "starting"] ELSE watcher
    /\ undone' = FALSE
    /\ UNCHANGED <<fs, disk, wal, net, build, fresh, reload, query, missed,
                   rebuilt, bounds>>

-----------------------------------------------------------------------------
(* A query: handle_conn pins the DbSet, query_entry reads layer by layer *)

\* dbset.load_full(); the pinned filename reader never changes afterwards.
QueryPin ==
    /\ up /\ query.pc = "idle" /\ queries < MaxQueries
    /\ queries' = queries + 1
    /\ query' = [pc |-> "content", db |-> entry.db, ct |-> NoVersions, h |-> entry.h,
                 fnFloor |-> [p \in Path |-> FilenameView(p)],
                 ctFloor |-> [p \in Path |-> ContentView(p)], cleared |-> FALSE]
    /\ UNCHANGED <<fs, disk, wal, up, entry, handles, shards, overlay, watcher,
                   net, build, fresh, reload, history, nets, reloads, crashes>>

\* The shard snapshot.
QueryContent ==
    /\ query.pc = "content"
    /\ query' = [query EXCEPT !.pc = "overlay", !.ct = shards[query.h]]
    /\ UNCHANGED <<fs, disk, wal, up, entry, handles, shards, overlay, watcher,
                   net, build, fresh, reload, history, bounds>>

\* Mutation: cold content hits the overlay shadows are not dropped.
QueryOverlay_NoRetain ==
    /\ query.pc = "overlay"
    /\ query' = [query EXCEPT !.pc = "done",
                   !.db = [p \in Path |-> Merged(overlay[query.h], query.db, p)]]
    /\ UNCHANGED <<fs, disk, wal, up, entry, handles, shards, overlay, watcher,
                   net, build, fresh, reload, history, bounds>>

\* The overlay snapshot: shadowed cold hits are dropped, its own are added.
QueryOverlay ==
    /\ query.pc = "overlay"
    /\ query' = [query EXCEPT !.pc = "done",
                   !.db = [p \in Path |-> Merged(overlay[query.h], query.db, p)],
                   !.ct = [p \in Path |-> Merged(overlay[query.h], query.ct, p)]]
    /\ UNCHANGED <<fs, disk, wal, up, entry, handles, shards, overlay, watcher,
                   net, build, fresh, reload, history, bounds>>

\* The answer is sent.
QueryReply ==
    /\ query.pc = "done"
    /\ query' = NoQuery
    /\ UNCHANGED <<fs, disk, wal, up, entry, handles, shards, overlay, watcher,
                   net, build, fresh, reload, history, bounds>>

-----------------------------------------------------------------------------

Quiet == /\ up
         /\ build.kind = "none" /\ reload.pc = "idle"
         /\ \A h \in Handle : watcher[h].pc \in {"off", "idle"} /\ watcher[h].chan = {}

\* The daemon at rest, waiting for events, connections or the timer: with this
\* step a state TLC calls a deadlock is one in which some thread is stuck.
Rest == Quiet /\ net = 0 /\ query.pc = "idle" /\ UNCHANGED vars

WatcherNext(h) == \/ WatchStart(h) \/ Recv(h) \/ RecordAndApply(h)
                  \/ \E p \in Path : BuildRecord(h, p)
                  \/ StartCompaction(h) \/ SkipCompaction(h)

BuildNext == \/ \E p \in Path : Walk(p)
             \/ WriteShards \/ WriteDb \/ WriteManifest
             \/ ReloadShards \/ ClearOverlay \/ OpenReusing \/ OpenNew \/ Store \/ Attach

Next == \/ \E p \in Path : Change(p)
        \/ \E h \in Handle : WatcherNext(h)
        \/ NetWake \/ NetBuild \/ NetSkip \/ StartOnDemand
        \/ BuildNext \/ BuildFails
        \/ ReloadOpen \/ ReloadReuse \/ ReloadStore
        \/ Crash \/ Restart
        \/ QueryPin \/ QueryContent \/ QueryOverlay \/ QueryReply
        \/ Rest

Spec == Init /\ [][Next]_vars

\* Threads run: a watcher that can step does, and a build in flight goes on;
\* launchd restarts a daemon that ended (KeepAlive).
FairSpec == /\ Spec
            /\ WF_vars(Restart)
            /\ \A h \in Handle : WF_vars(WatcherNext(h))
            /\ WF_vars(BuildNext)

-----------------------------------------------------------------------------
(* Properties *)

\* A cold layer has a version of every path; an overlay may have none.
Cold == {f \in Layer : \A p \in Path : f[p] \in Version(p)}
IsOverlay(o) == /\ o.ver \in Layer /\ \A p \in Path : o.ver[p] \in 0..Len(Life[p])
                /\ o.slots \subseteq {p \in Path : o.ver[p] # 0}

\* Types of the state; cold files and the readers of them are whole, so no step
\* of a build exposes a half-written layer.
TypeOK ==
    /\ {fs, disk.db, disk.shards, entry.db} \subseteq Cold
    /\ fresh = NoEntry \/ (fresh.db \in Cold /\ fresh.h \in Handle)
    /\ {entry.h, handles} \subseteq Handle /\ net \in Handle \cup {0}
    /\ \A h \in Handle : shards[h] \in Cold
    /\ \A o \in {overlay[h] : h \in Handle} \cup {wal} : IsOverlay(o)
    /\ \A h \in Handle : watcher[h].chan \cup watcher[h].batch \subseteq Path
    /\ missed \cup rebuilt \subseteq Path

Shows(view, p) == Obs(p, view) = Obs(p, fs[p])

\* When the watchers have caught up and no build runs, a query sees every path
\* as it is on disk, in both layers, unless it last changed while nobody was
\* watching or a registry reload undid a swap (ReloadKeepsFilenames): across
\* batches, debounce bursts, compactions that race further changes, failed
\* builds, rebuilds of the safety net, registry reloads, crashes and replays.
QuietViewCurrent ==
    Quiet /\ ~undone =>
        \A p \in Path \ missed : Shows(FilenameView(p), p) /\ Shows(ContentView(p), p)

Publishes == \E h \in Handle : RecordAndApply(h)

\* Content results never go back in time in a hot-swap: a compaction drops an
\* overlay entry only once the served shards hold that version or a later one.
\* (A record built before a safety-net walk and published after its swap does
\* show an older version, until the event that is still queued is applied.)
SwapKeepsContent ==
    [][up /\ up' /\ ~Publishes => \A p \in Path : ContentView(p)' >= ContentView(p)]_vars

\* A registry reload leaves filename results as they are: the index files did
\* not change, so what it opened is what it replaces.
ReloadKeepsFilenames ==
    [][ReloadStore => \A p \in Path : FilenameView(p)' >= FilenameView(p)]_vars

\* A daemon killed now would, after a restart, show nothing older than it shows
\* now: whatever the overlay answers for is in the log or in the cold files.
RestartLosesNothing ==
    up => \A p \in Path : /\ Merged(wal, disk.db, p) >= FilenameView(p)
                          /\ Merged(wal, disk.shards, p) >= ContentView(p)

\* What a path looked like at some time between n and now.
SeenSince(p, n) == {Obs(p, k) : k \in n..fs[p]}

AnswerInWindow == \A p \in Path : /\ Obs(p, query.db[p]) \in SeenSince(p, query.fnFloor[p])
                                  /\ Obs(p, query.ct[p]) \in SeenSince(p, query.ctFloor[p])

\* The answer of a query is never older than everything served since it began,
\* whatever is applied and rebuilt meanwhile, if no compaction cleared the
\* overlay under it.
QueryFresh == query.pc = "done" /\ ~query.cleared => AnswerInWindow

\* After a rebuild has been swapped in, every path that did not change since
\* the rebuild read it is shown as it is, if the overlay has no entry for it.
RebuildShowsFiles ==
    Quiet => \A p \in rebuilt : overlay[entry.h].ver[p] = 0 /\ ~undone =>
                 Shows(FilenameView(p), p) /\ Shows(ContentView(p), p)

\* Every change that a watcher was there to see comes to be shown, in both
\* layers, and stays shown.
Converges == <>[](\A p \in Path \ missed :
                     ~undone => Shows(FilenameView(p), p) /\ Shows(ContentView(p), p))
=============================================================================
