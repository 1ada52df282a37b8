------------------------------ MODULE LsmProofs ------------------------------
(***************************************************************************)
(* What the layers of one database promise, proved for any paths and       *)
(* histories of files, any compaction threshold and any number of builds,  *)
(* reloads, restarts and queries; with one handle generation (no on-demand *)
(* build) also that the watched view is current, that a compaction takes   *)
(* nothing back and that a restart loses nothing.                          *)
(***************************************************************************)
EXTENDS Lsm, SequenceTheorems, TLAPS

-----------------------------------------------------------------------------
(* The inductive invariant *)

ColdLayer == [Path -> Nat \ {0}]
OverlayRec == [ver : Layer, slots : SUBSET Path]
WatcherRec == [pc : {"off", "starting", "idle", "reading", "compact", "compacting"},
               chan : SUBSET Path, batch : SUBSET Path, recs : Layer]
BuildRec == [kind : {"none", "compact", "net", "demand"}, h : {0} \cup Handle,
             pc : {"done", "walk", "db", "manifest", "reload", "clear", "open", "store", "attach"},
             walk : Layer]
EntryRec == [db : ColdLayer, h : Handle]
FreshRec == [db : Layer, h : {0} \cup Handle]
ReloadRec == [pc : {"idle", "load", "store"}, db : Layer, h : {0} \cup Handle]
QueryRec == [pc : {"idle", "content", "overlay", "done"}, db : Layer, ct : Layer,
             h : {0} \cup Handle, fnFloor : Layer, ctFloor : Layer, cleared : BOOLEAN]

TypeInv ==
    /\ fs \in Cold
    /\ disk \in [db : ColdLayer, shards : ColdLayer]
    /\ wal \in OverlayRec
    /\ up \in BOOLEAN
    /\ entry \in EntryRec
    /\ handles \in Handle
    /\ shards \in [Handle -> ColdLayer]
    /\ overlay \in [Handle -> OverlayRec]
    /\ watcher \in [Handle -> WatcherRec]
    /\ net \in {0} \cup Handle
    /\ build \in BuildRec
    /\ fresh \in FreshRec
    /\ reload \in ReloadRec
    /\ query \in QueryRec
    /\ missed \in SUBSET Path /\ rebuilt \in SUBSET Path /\ undone \in BOOLEAN

Started == {"manifest", "reload", "clear", "open", "store"}   \* index.dfdb is written
Whole == {"reload", "clear", "open", "store"}                 \* and so is MANIFEST

\* Who is where: handles in use were opened, the phases of a build belong to
\* its kind, a compacting watcher waits, nothing runs in a dead process.
ControlInv ==
    /\ entry.h <= handles /\ net <= handles
    /\ reload.pc = "store" => reload.h \in 1..handles
    /\ query.pc # "idle" => query.h \in 1..handles
    /\ build.kind = "none" <=> build.pc = "done"
    /\ build.kind # "none" => build.h \in Handle
    /\ build.kind \in {"compact", "net"} => build.h <= handles /\ build.pc # "attach"
    /\ build.kind = "demand" =>
          IF build.pc \in {"store", "attach"} THEN build.h = handles ELSE build.h = handles + 1
    /\ build.pc = "clear" => build.kind = "compact"
    /\ build.pc = "reload" => build.kind # "demand"
    /\ build.kind = "compact" => watcher[build.h].pc = "compacting"
    /\ \A h \in Handle : watcher[h].pc = "compacting" => build.kind = "compact" /\ build.h = h
    /\ \A h \in Handle :
          h > handles \/ (build.kind = "demand" /\ build.h = h) => watcher[h] = Idle
    /\ fresh = NoEntry \/ build.pc = "store"
    /\ ~up => /\ build.kind = "none" /\ reload.pc = "idle" /\ query.pc = "idle" /\ net = 0
              /\ rebuilt = {} /\ \A h \in Handle : watcher[h] = Idle

Below(a, b) == \A p \in Path : a[p] <= b[p]

\* No layer is ahead of the files, no reader ahead of the disk, and a build
\* replaces what is there by something that is not older.
OrderInv ==
    /\ Below(disk.db, fs) /\ Below(disk.shards, fs) /\ Below(wal.ver, fs)
    /\ \A h \in Handle : /\ Below(shards[h], disk.shards)
                         /\ Below(overlay[h].ver, fs)
                         /\ Below(watcher[h].recs, fs)
    /\ Below(entry.db, disk.db)
    /\ reload.pc # "idle" => reload.db \in ColdLayer /\ Below(reload.db, disk.db)
    /\ Below(build.walk, fs)
    /\ \A p \in Path : build.walk[p] # 0 =>
          disk.db[p] <= build.walk[p] /\ disk.shards[p] <= build.walk[p]

\* How far a build has come.
BuildInv ==
    /\ build.pc \in {"db"} \cup Started => \A p \in Path : build.walk[p] # 0
    /\ build.pc \in Started => disk.db = build.walk
    /\ build.pc \in Whole => disk.shards = build.walk
    /\ build.pc \in {"clear", "store"} \/ (build.pc = "open" /\ build.kind # "demand")
          => shards[build.h] = build.walk
    /\ build.pc = "store" => /\ fresh.db = build.walk /\ fresh.h \in 1..handles
                             /\ build.kind = "demand" => fresh.h = build.h

SlotsInv ==
    /\ wal.slots \subseteq {p \in Path : wal.ver[p] # 0}
    /\ \A h \in Handle : overlay[h].slots \subseteq {p \in Path : overlay[h].ver[p] # 0}

\* What the query in progress will see of p is not below its floors.
FloorsHold(p) ==
    LET o == overlay[query.h].ver[p] IN
    CASE query.pc = "content" ->
           IF o # 0 THEN query.fnFloor[p] <= o /\ query.ctFloor[p] <= o
           ELSE query.fnFloor[p] <= query.db[p] /\ query.ctFloor[p] <= shards[query.h][p]
      [] query.pc = "overlay" ->
           IF o # 0 THEN query.fnFloor[p] <= o /\ query.ctFloor[p] <= o
           ELSE query.fnFloor[p] <= query.db[p] /\ query.ctFloor[p] <= query.ct[p]
      [] query.pc = "done" -> query.fnFloor[p] <= query.db[p] /\ query.ctFloor[p] <= query.ct[p]
      [] OTHER -> TRUE

QueryInv ==
    /\ Below(query.db, fs) /\ Below(query.ct, fs)
    /\ ~query.cleared => \A p \in Path : FloorsHold(p)

RebuildInv ==
    ~undone => \A p \in rebuilt : entry.db[p] = fs[p] /\ shards[entry.h][p] = fs[p]

\* df-watch: a record is current, or the event of a newer change is queued.
WatchInv ==
    \A h \in Handle :
        /\ watcher[h].pc \in {"off", "starting"} => watcher[h].chan = {}
        /\ watcher[h].pc # "reading" => watcher[h].batch = {} /\ watcher[h].recs = NoVersions
        /\ \A p \in Path : \/ watcher[h].recs[p] \in {0, fs[p]}
                           \/ p \in watcher[h].chan

\* What a compaction has read is current, or the event of a newer change waits
\* for the end of the compaction; the overlay has nothing newer than the walk.
CompactInv ==
    build.kind = "compact" =>
        \A p \in Path : build.walk[p] # 0 =>
            /\ build.walk[p] = fs[p] \/ p \in watcher[build.h].chan
            /\ overlay[build.h].ver[p] <= build.walk[p]

\* One generation: the watcher has been through every change of p it saw.
Applied(p) == p \notin missed /\ ~Unapplied(1, p)

\* The filename reader is about to be replaced, the overlay is already gone.
Swapping == build.kind = "compact" /\ build.pc \in {"open", "store"}

OneInv ==
    /\ overlay[1] = wal
    /\ \A p \in Path : Applied(p) =>
          \/ wal.ver[p] = fs[p]
          \/ /\ wal.ver[p] = 0 /\ disk.db[p] = fs[p] /\ disk.shards[p] = fs[p]
             /\ up => /\ shards[1][p] = fs[p]
                      /\ ~undone /\ ~Swapping => entry.db[p] = fs[p]

IInv == /\ TypeInv /\ ControlInv /\ OrderInv /\ BuildInv /\ SlotsInv
        /\ QueryInv /\ RebuildInv /\ WatchInv /\ CompactInv
        /\ MaxHandles = 1 => OneInv

-----------------------------------------------------------------------------
(* Records *)

\* Lengths and versions are numbers.
LEMMA Versions ==
    /\ \A p \in Path : Len(Life[p]) \in Nat \ {0}
    /\ NoVersions \in Layer /\ \A p \in Path : NoVersions[p] = 0
    /\ 1 \in Handle /\ Handle \subseteq Nat /\ 0 \notin Handle
<1>1. \A p \in Path : Len(Life[p]) \in Nat \ {0}
  <2> TAKE p \in Path
  <2>1. Len(Life[p]) \in Nat /\ Len(Life[p]) > 0
    BY LsmAssumption, LenProperties
  <2> QED BY <2>1
<1>2. MaxHandles \in Nat \ {0}
  BY LsmAssumption
<1> QED BY <1>1, <1>2 DEF NoVersions, Layer, Handle

\* A watcher that moves on keeps its events and records.
LEMMA WatcherMoves ==
    ASSUME NEW w \in WatcherRec,
           NEW to \in {"off", "starting", "idle", "reading", "compact", "compacting"}
    PROVE  /\ [w EXCEPT !.pc = to] \in WatcherRec
           /\ [w EXCEPT !.pc = to].pc = to /\ [w EXCEPT !.pc = to].chan = w.chan
           /\ [w EXCEPT !.pc = to].batch = w.batch /\ [w EXCEPT !.pc = to].recs = w.recs
BY DEF WatcherRec

\* One watcher steps, the others stay as they are.
LEMMA WatcherUpdate ==
    ASSUME TypeInv, NEW h \in Handle, NEW w \in WatcherRec, watcher' = [watcher EXCEPT ![h] = w]
    PROVE  /\ watcher' \in [Handle -> WatcherRec] /\ watcher'[h] = w
           /\ \A g \in Handle \ {h} : watcher'[g] = watcher[g]
BY DEF TypeInv

\* A build that moves on keeps what it has read.
LEMMA BuildMoves ==
    ASSUME NEW b \in BuildRec,
           NEW to \in {"done", "walk", "db", "manifest", "reload", "clear", "open", "store", "attach"}
    PROVE  /\ [b EXCEPT !.pc = to] \in BuildRec
           /\ [b EXCEPT !.pc = to].pc = to /\ [b EXCEPT !.pc = to].kind = b.kind
           /\ [b EXCEPT !.pc = to].h = b.h /\ [b EXCEPT !.pc = to].walk = b.walk
BY DEF BuildRec

\* Nobody builds.
LEMMA NoBuildFields ==
    /\ NoBuild \in BuildRec /\ NoBuild.kind = "none" /\ NoBuild.pc = "done"
    /\ NoBuild.walk = NoVersions
BY Versions DEF NoBuild, BuildRec

\* A watcher that is off.
LEMMA IdleFields ==
    /\ Idle \in WatcherRec /\ Idle.pc = "off" /\ Idle.chan = {} /\ Idle.batch = {}
    /\ Idle.recs = NoVersions
BY Versions DEF Idle, WatcherRec

\* Handles in use are handles that were opened.
LEMMA UsedHandles ==
    ASSUME IInv
    PROVE  /\ handles \in Nat /\ 1..handles \subseteq Handle
           /\ entry.h \in 1..handles
           /\ query.pc # "idle" => query.h \in 1..handles
           /\ reload.pc = "store" => reload.h \in 1..handles
<1>1. MaxHandles \in Nat /\ handles \in 1..MaxHandles /\ entry.h \in 1..MaxHandles
  BY LsmAssumption DEF IInv, TypeInv, EntryRec, Handle
<1>2. /\ entry.h <= handles
      /\ query.pc # "idle" => query.h \in 1..handles
      /\ reload.pc = "store" => reload.h \in 1..handles
  BY DEF IInv, ControlInv
<1>3. handles \in Nat /\ 1..handles \subseteq 1..MaxHandles /\ entry.h \in 1..handles
  BY <1>1, <1>2
<1> QED BY <1>2, <1>3 DEF Handle

-----------------------------------------------------------------------------
(* The invariant is kept: the watcher *)

\* A step of one watcher that changes nothing else, and keeps every event it
\* has not applied.
LEMMA WatcherOnly ==
    ASSUME IInv, NEW h \in Handle, NEW w \in WatcherRec,
           watcher' = [watcher EXCEPT ![h] = w],
           UNCHANGED <<fs, disk, wal, up, entry, handles, shards, overlay, net, build,
                       fresh, reload, query, history>>,
           watcher[h].pc \notin {"off", "compacting"},
           w.pc \notin {"off", "starting", "compacting"},
           Below(w.recs, fs),
           w.pc # "reading" => w.batch = {} /\ w.recs = NoVersions,
           \A p \in Path : w.recs[p] \in {0, fs[p]} \/ p \in w.chan,
           \A p \in Path : Unapplied(h, p) => p \in w.chan \cup w.batch \/ w.recs[p] # 0
    PROVE  IInv'
<1>0. /\ fs' = fs /\ disk' = disk /\ wal' = wal /\ up' = up /\ entry' = entry
      /\ handles' = handles /\ shards' = shards /\ overlay' = overlay /\ net' = net
      /\ build' = build /\ fresh' = fresh /\ reload' = reload /\ query' = query
      /\ missed' = missed /\ rebuilt' = rebuilt /\ undone' = undone
  BY DEF history
<1>3. /\ watcher' \in [Handle -> WatcherRec] /\ watcher'[h] = w
      /\ \A g \in Handle \ {h} : watcher'[g] = watcher[g]
  BY WatcherUpdate DEF IInv
<1>4. TypeInv'
  BY <1>0, <1>3 DEF IInv, TypeInv
<1>5. ControlInv'
  BY <1>0, <1>3, IdleFields DEF IInv, ControlInv
<1>6. OrderInv'
  BY <1>0, <1>3 DEF IInv, OrderInv, Below
<1>7. BuildInv' /\ SlotsInv'
  BY <1>0 DEF IInv, BuildInv, SlotsInv
<1>8. QueryInv' /\ RebuildInv'
  BY <1>0 DEF IInv, QueryInv, FloorsHold, RebuildInv, Below
<1>9. WatchInv'
  BY <1>0, <1>3 DEF IInv, WatchInv
<1>10. CompactInv'
  BY <1>0, <1>3 DEF IInv, CompactInv, ControlInv
<1>11. MaxHandles = 1 => OneInv'
  <2> SUFFICES ASSUME MaxHandles = 1 PROVE OneInv'
    OBVIOUS
  <2>1. h = 1
    BY Versions DEF Handle
  <2>2. \A p \in Path : Applied(p)' => Applied(p)
    BY <1>0, <1>3, <2>1 DEF Applied, Unapplied
  <2> QED BY <1>0, <2>2 DEF IInv, OneInv, Swapping
<1> QED BY <1>4, <1>5, <1>6, <1>7, <1>8, <1>9, <1>10, <1>11 DEF IInv

\* WatchStart: events from now on are queued.  SkipCompaction: back to the loop.
LEMMA WatchPcStep ==
    ASSUME IInv, NEW h \in Handle, WatchStart(h) \/ SkipCompaction(h)
    PROVE  IInv'
<1> DEFINE w == [watcher[h] EXCEPT !.pc = "idle"]
<1>1. /\ watcher[h].pc \in {"starting", "compact"} /\ watcher' = [watcher EXCEPT ![h] = w]
      /\ watcher[h] \in WatcherRec
      /\ UNCHANGED <<fs, disk, wal, up, entry, handles, shards, overlay, net, build,
                     fresh, reload, query, history>>
  BY DEF WatchStart, SkipCompaction, WatcherStep, IInv, TypeInv
<1>2. /\ w \in WatcherRec /\ w.pc = "idle" /\ w.chan = watcher[h].chan
      /\ w.batch = watcher[h].batch /\ w.recs = watcher[h].recs
  BY <1>1, WatcherMoves
<1> HIDE DEF w
<1>3. /\ Below(w.recs, fs) /\ w.batch = {} /\ w.recs = NoVersions
      /\ \A p \in Path : w.recs[p] \in {0, fs[p]} \/ p \in w.chan
      /\ \A p \in Path : Unapplied(h, p) => p \in w.chan \cup w.batch \/ w.recs[p] # 0
  BY <1>1, <1>2 DEF IInv, OrderInv, WatchInv, Unapplied
<1> QED BY <1>1, <1>2, <1>3, WatcherOnly

\* Recv: what is taken from the channel is in the batch.
LEMMA RecvStep ==
    ASSUME IInv, NEW h \in Handle, Recv(h)
    PROVE  IInv'
<1>1. PICK burst \in SUBSET watcher[h].chan \ {{}} :
          WatcherStep(h, "idle", [watcher[h] EXCEPT !.pc = "reading",
                                  !.chan = @ \ burst, !.batch = burst])
  BY DEF Recv
<1> DEFINE w == [watcher[h] EXCEPT !.pc = "reading", !.chan = @ \ burst, !.batch = burst]
<1>2. /\ watcher[h].pc = "idle" /\ watcher' = [watcher EXCEPT ![h] = w]
      /\ watcher[h] \in WatcherRec
      /\ UNCHANGED <<fs, disk, wal, up, entry, handles, shards, overlay, net, build,
                     fresh, reload, query, history>>
  BY <1>1 DEF Recv, WatcherStep, IInv, TypeInv
<1>3. /\ w \in WatcherRec /\ w.pc = "reading" /\ w.chan = watcher[h].chan \ burst
      /\ w.batch = burst /\ w.recs = watcher[h].recs
  BY <1>2 DEF WatcherRec
<1> HIDE DEF w
<1>4. watcher[h].batch = {} /\ watcher[h].recs = NoVersions /\ Below(watcher[h].recs, fs)
  BY <1>2 DEF IInv, WatchInv, OrderInv
<1>5. /\ \A p \in Path : w.recs[p] \in {0, fs[p]} \/ p \in w.chan
      /\ \A p \in Path : Unapplied(h, p) => p \in w.chan \cup w.batch \/ w.recs[p] # 0
  BY <1>3, <1>4, Versions DEF Unapplied
<1> QED BY <1>2, <1>3, <1>4, <1>5, WatcherOnly

\* BuildRecord: the record has the state of the file now.
LEMMA BuildRecordStep ==
    ASSUME IInv, NEW h \in Handle, NEW p \in Path, BuildRecord(h, p)
    PROVE  IInv'
<1> DEFINE w == [watcher[h] EXCEPT !.batch = @ \ {p}, !.recs[p] = fs[p]]
<1>2. /\ watcher[h].pc = "reading" /\ watcher' = [watcher EXCEPT ![h] = w]
      /\ watcher[h] \in WatcherRec /\ fs[p] \in Nat \ {0}
      /\ UNCHANGED <<fs, disk, wal, up, entry, handles, shards, overlay, net, build,
                     fresh, reload, query, history>>
  BY DEF BuildRecord, WatcherStep, IInv, TypeInv, Cold, Version
<1>3. /\ w \in WatcherRec /\ w.pc = "reading" /\ w.chan = watcher[h].chan
      /\ w.batch = watcher[h].batch \ {p} /\ w.recs = [watcher[h].recs EXCEPT ![p] = fs[p]]
  BY <1>2 DEF WatcherRec, Layer
<1> HIDE DEF w
<1>4. /\ w.recs[p] = fs[p]
      /\ \A q \in Path \ {p} : w.recs[q] = watcher[h].recs[q]
  <2>1. watcher[h].recs \in [Path -> Nat]
    BY <1>2 DEF WatcherRec, Layer
  <2> QED BY <1>3, <2>1
<1>5. Below(w.recs, fs)
  BY <1>2, <1>4 DEF IInv, OrderInv, Below
<1>6. /\ \A q \in Path : w.recs[q] \in {0, fs[q]} \/ q \in w.chan
      /\ \A q \in Path : Unapplied(h, q) => q \in w.chan \cup w.batch \/ w.recs[q] # 0
  BY <1>2, <1>3, <1>4 DEF IInv, WatchInv, Unapplied
<1> QED BY <1>2, <1>3, <1>5, <1>6, WatcherOnly

\* Change: whoever watches has the event in its channel.
LEMMA ChangeStep ==
    ASSUME IInv, NEW p \in Path, Change(p)
    PROVE  IInv'
<1>0. /\ disk' = disk /\ wal' = wal /\ up' = up /\ entry' = entry
      /\ handles' = handles /\ shards' = shards /\ overlay' = overlay /\ net' = net
      /\ build' = build /\ fresh' = fresh /\ reload' = reload /\ query' = query
      /\ undone' = undone /\ rebuilt' = rebuilt \ {p}
      /\ missed' = IF up /\ Watching(entry.h) THEN missed ELSE missed \cup {p}
  BY DEF Change
<1>1. /\ fs' = [fs EXCEPT ![p] = fs[p] + 1] /\ fs[p] < Len(Life[p])
      /\ fs \in [Path -> Nat] /\ \A q \in Path : fs[q] \in 1..Len(Life[q])
  BY DEF Change, IInv, TypeInv, Cold, Layer, Version
<1>2. /\ fs' \in [Path -> Nat] /\ fs'[p] = fs[p] + 1
      /\ \A q \in Path \ {p} : fs'[q] = fs[q]
  BY <1>1
<1>3. Below(fs, fs') /\ fs' \in Cold
  BY <1>1, <1>2, Versions, SMTT(60) DEF Below, Cold, Layer, Version
<1>4. ASSUME NEW h \in Handle
      PROVE  /\ watcher'[h] \in WatcherRec
             /\ watcher'[h].pc = watcher[h].pc /\ watcher'[h].batch = watcher[h].batch
             /\ watcher'[h].recs = watcher[h].recs
             /\ watcher'[h].chan = IF Watching(h) THEN watcher[h].chan \cup {p} ELSE watcher[h].chan
             /\ ~Watching(h) => watcher'[h] = watcher[h]
  <2>1. watcher[h] \in WatcherRec
    BY DEF IInv, TypeInv
  <2>2. watcher'[h] = IF Watching(h) THEN [watcher[h] EXCEPT !.chan = watcher[h].chan \cup {p}]
                                     ELSE watcher[h]
    BY DEF Change
  <2> QED BY <2>1, <2>2 DEF WatcherRec
<1>5. watcher' \in [Handle -> WatcherRec]
  <2>1. watcher' = [h \in Handle |-> watcher'[h]]
    BY DEF Change
  <2> QED BY <1>4, <2>1
<1>6. TypeInv'
  <2>1. missed' \in SUBSET Path /\ rebuilt' \in SUBSET Path
    BY <1>0 DEF IInv, TypeInv
  <2> QED BY <1>0, <1>3, <1>5, <2>1 DEF IInv, TypeInv
<1>7. ControlInv'
  <2>1. \A h \in Handle : watcher[h] = Idle => watcher'[h] = Idle
    BY <1>4, IdleFields DEF Watching
  <2> QED BY <1>0, <1>4, <2>1, ZenonT(60) DEF IInv, ControlInv
<1>8. OrderInv'
  <2>1. ASSUME NEW l \in [Path -> Nat], Below(l, fs) PROVE Below(l, fs')
    BY <1>1, <1>2, <1>3, <2>1 DEF Below
  <2>2. /\ disk.db \in [Path -> Nat] /\ disk.shards \in [Path -> Nat] /\ wal.ver \in [Path -> Nat]
        /\ build.walk \in [Path -> Nat]
        /\ \A h \in Handle : overlay[h].ver \in [Path -> Nat] /\ watcher[h].recs \in [Path -> Nat]
    BY DEF IInv, TypeInv, ColdLayer, OverlayRec, WatcherRec, BuildRec, Layer
  <2> HIDE DEF Below
  <2> QED BY <1>0, <1>4, <2>1, <2>2 DEF IInv, OrderInv
<1>9. BuildInv' /\ SlotsInv'
  BY <1>0 DEF IInv, BuildInv, SlotsInv
<1>10. QueryInv'
  <2>1. query.db \in [Path -> Nat] /\ query.ct \in [Path -> Nat]
    BY DEF IInv, TypeInv, QueryRec, Layer
  <2>2. Below(query.db, fs') /\ Below(query.ct, fs')
    BY <1>1, <1>2, <2>1 DEF IInv, QueryInv, Below
  <2> QED BY <1>0, <2>2 DEF IInv, QueryInv, FloorsHold
<1>11. RebuildInv'
  BY <1>0, <1>2 DEF IInv, RebuildInv, TypeInv
<1>12. WatchInv'
  <2>1. \A h \in Handle : ~Watching(h) => watcher[h].recs = NoVersions
    BY DEF IInv, WatchInv, Watching
  <2>2. ASSUME NEW h \in Handle
        PROVE  /\ watcher'[h].pc \in {"off", "starting"} => watcher'[h].chan = {}
               /\ watcher'[h].pc # "reading" => watcher'[h].batch = {} /\ watcher'[h].recs = NoVersions
    BY <1>4 DEF IInv, WatchInv, Watching
  <2>3. ASSUME NEW h \in Handle, NEW q \in Path
        PROVE  watcher'[h].recs[q] \in {0, fs'[q]} \/ q \in watcher'[h].chan
    <3>1. watcher[h].recs[q] \in {0, fs[q]} \/ q \in watcher[h].chan
      BY DEF IInv, WatchInv
    <3>2. CASE q # p
      BY <1>2, <1>4, <3>1, <3>2
    <3>3. CASE q = p
      BY <1>4, <2>1, <3>3, Versions, ZenonT(60)
    <3> QED BY <3>2, <3>3
  <2> QED BY <2>2, <2>3 DEF WatchInv
<1>13. CompactInv'
  <2>1. build.kind = "compact" => build.h \in Handle /\ Watching(build.h)
    BY DEF IInv, ControlInv, Watching
  <2> QED BY <1>0, <1>2, <1>4, <2>1, ZenonT(60) DEF IInv, CompactInv
<1>14. MaxHandles = 1 => OneInv'
  <2> SUFFICES ASSUME MaxHandles = 1 PROVE OneInv'
    OBVIOUS
  <2>1. 1 \in Handle /\ entry.h = 1
    BY Versions DEF IInv, TypeInv, EntryRec, Handle
  <2>2. \A q \in Path : Applied(q)' => q # p /\ Applied(q)
    BY <1>0, <1>4, <2>1 DEF Applied, Unapplied
  <2> QED BY <1>0, <1>2, <2>2 DEF IInv, OneInv, Swapping
<1> QED BY <1>6, <1>7, <1>8, <1>9, <1>10, <1>11, <1>12, <1>13, <1>14 DEF IInv

\* Applying records to an overlay: the newest record of each path stands.
LEMMA ApplyFields ==
    ASSUME NEW o \in OverlayRec, NEW recs \in Layer,
           o.slots \subseteq {p \in Path : o.ver[p] # 0}
    PROVE  /\ Apply(o, recs) \in OverlayRec
           /\ \A p \in Path : Apply(o, recs).ver[p] = IF recs[p] # 0 THEN recs[p] ELSE o.ver[p]
           /\ Apply(o, recs).slots \subseteq {p \in Path : Apply(o, recs).ver[p] # 0}
<1> DEFINE v == [p \in Path |-> IF recs[p] # 0 THEN recs[p] ELSE o.ver[p]]
           t == o.slots \cup {p \in Path : recs[p] # 0 /\ Obs(p, recs[p]) # Absent}
<1>1. o.ver \in [Path -> Nat] /\ recs \in [Path -> Nat] /\ o.slots \subseteq Path
  BY DEF OverlayRec, Layer
<1>2. Apply(o, recs) = [ver |-> v, slots |-> t]
  BY DEF Apply
<1>3. v \in [Path -> Nat] /\ \A p \in Path : v[p] = IF recs[p] # 0 THEN recs[p] ELSE o.ver[p]
  BY <1>1
<1>4. t \subseteq {p \in Path : v[p] # 0}
  BY <1>1, <1>3
<1> HIDE DEF v, t
<1> QED BY <1>2, <1>3, <1>4 DEF OverlayRec, Layer

\* Witness lowers the floors of the query to what is now served.
LEMMA WitnessFields ==
    ASSUME query \in QueryRec, NEW o \in OverlayRec
    PROVE  /\ Witness(o) \in QueryRec
           /\ Witness(o).pc = query.pc /\ Witness(o).db = query.db /\ Witness(o).ct = query.ct
           /\ Witness(o).h = query.h /\ Witness(o).cleared = query.cleared
           /\ \A p \in Path :
                /\ Witness(o).fnFloor[p] <= query.fnFloor[p]
                /\ Witness(o).ctFloor[p] <= query.ctFloor[p]
                /\ o.ver[p] # 0 => /\ Witness(o).fnFloor[p] <= o.ver[p]
                                   /\ Witness(o).ctFloor[p] <= o.ver[p]
<1>1. o.ver \in [Path -> Nat]
  BY DEF OverlayRec, Layer
<1>2. ASSUME NEW f \in [Path -> Nat]
      PROVE  /\ Lower(f, o) \in [Path -> Nat]
             /\ \A p \in Path : Lower(f, o)[p] <= f[p] /\ (o.ver[p] # 0 => Lower(f, o)[p] <= o.ver[p])
  <2>1. \A p \in Path : o.ver[p] \in Nat /\ f[p] \in Nat
    BY <1>1
  <2>2. \A p \in Path : Lower(f, o)[p] = IF o.ver[p] \in 1..f[p] THEN o.ver[p] ELSE f[p]
    BY DEF Lower
  <2>3. Lower(f, o) \in [Path -> Nat]
    BY <2>1 DEF Lower
  <2> QED BY <2>1, <2>2, <2>3
<1> DEFINE a == Lower(query.fnFloor, o)
           b == Lower(query.ctFloor, o)
<1>3. query.fnFloor \in [Path -> Nat] /\ query.ctFloor \in [Path -> Nat]
  BY DEF QueryRec, Layer
<1>4. Witness(o) = [query EXCEPT !.fnFloor = a, !.ctFloor = b]
  BY DEF Witness
<1>5. /\ a \in Layer /\ \A p \in Path : a[p] <= query.fnFloor[p] /\ (o.ver[p] # 0 => a[p] <= o.ver[p])
      /\ b \in Layer /\ \A p \in Path : b[p] <= query.ctFloor[p] /\ (o.ver[p] # 0 => b[p] <= o.ver[p])
  BY <1>2, <1>3 DEF Layer
<1> HIDE DEF a, b
<1>6. /\ Witness(o) \in QueryRec /\ Witness(o).fnFloor = a /\ Witness(o).ctFloor = b
      /\ Witness(o).pc = query.pc /\ Witness(o).db = query.db /\ Witness(o).ct = query.ct
      /\ Witness(o).h = query.h /\ Witness(o).cleared = query.cleared
  BY <1>4, <1>5 DEF QueryRec
<1> QED BY <1>5, <1>6

\* RecordAndApply: log and overlay take the records of the batch.
LEMMA RecordAndApplyStep ==
    ASSUME IInv, NEW h \in Handle, RecordAndApply(h)
    PROVE  IInv'
<1> DEFINE recs == watcher[h].recs
           o == Apply(overlay[h], recs)
           l == Apply(wal, recs)
           w == [watcher[h] EXCEPT !.pc = AfterBatch(o), !.recs = NoVersions]
<1>0. /\ fs' = fs /\ disk' = disk /\ up' = up /\ entry' = entry
      /\ handles' = handles /\ shards' = shards /\ net' = net
      /\ build' = build /\ fresh' = fresh /\ reload' = reload
      /\ rebuilt' = rebuilt /\ undone' = undone
  BY DEF RecordAndApply
<1>1. /\ watcher[h].pc = "reading" /\ watcher[h].batch = {}
      /\ watcher' = [watcher EXCEPT ![h] = w] /\ watcher[h] \in WatcherRec
      /\ wal' = l /\ overlay' = [overlay EXCEPT ![h] = o] /\ query' = Witness(o)
      /\ missed' = {p \in missed : recs[p] = 0}
  BY DEF RecordAndApply, WatcherStep, IInv, TypeInv
<1>2. /\ recs \in Layer /\ overlay[h] \in OverlayRec /\ wal \in OverlayRec
      /\ overlay[h].slots \subseteq {p \in Path : overlay[h].ver[p] # 0}
      /\ wal.slots \subseteq {p \in Path : wal.ver[p] # 0}
      /\ overlay[h].ver \in [Path -> Nat] /\ wal.ver \in [Path -> Nat] /\ recs \in [Path -> Nat]
  BY <1>1 DEF IInv, TypeInv, SlotsInv, WatcherRec, OverlayRec, Layer
<1>3. /\ o \in OverlayRec /\ l \in OverlayRec
      /\ \A p \in Path : o.ver[p] = IF recs[p] # 0 THEN recs[p] ELSE overlay[h].ver[p]
      /\ \A p \in Path : l.ver[p] = IF recs[p] # 0 THEN recs[p] ELSE wal.ver[p]
      /\ o.slots \subseteq {p \in Path : o.ver[p] # 0}
      /\ l.slots \subseteq {p \in Path : l.ver[p] # 0}
  BY <1>2, ApplyFields
<1>4. /\ w \in WatcherRec /\ w.pc \in {"compact", "idle"} /\ w.chan = watcher[h].chan
      /\ w.batch = {} /\ w.recs = NoVersions
  BY <1>1, Versions DEF WatcherRec, AfterBatch
<1>s. wal = overlay[h] => l = o
  OBVIOUS
<1> HIDE DEF o, l, w
<1>5. /\ watcher' \in [Handle -> WatcherRec] /\ watcher'[h] = w
      /\ \A g \in Handle \ {h} : watcher'[g] = watcher[g]
  BY <1>1, <1>4, WatcherUpdate DEF IInv
<1>6. /\ overlay' \in [Handle -> OverlayRec] /\ overlay'[h] = o
      /\ \A g \in Handle \ {h} : overlay'[g] = overlay[g]
  BY <1>1, <1>3 DEF IInv, TypeInv
<1>7. /\ query' \in QueryRec
      /\ query'.pc = query.pc /\ query'.db = query.db /\ query'.ct = query.ct
      /\ query'.h = query.h /\ query'.cleared = query.cleared
      /\ \A p \in Path :
           /\ query'.fnFloor[p] <= query.fnFloor[p] /\ query'.ctFloor[p] <= query.ctFloor[p]
           /\ o.ver[p] # 0 => query'.fnFloor[p] <= o.ver[p] /\ query'.ctFloor[p] <= o.ver[p]
  BY <1>1, <1>3, WitnessFields DEF IInv, TypeInv
<1>8. TypeInv'
  <2>1. missed' \in SUBSET Path
    BY <1>1 DEF IInv, TypeInv
  <2> QED BY <1>0, <1>1, <1>3, <1>5, <1>6, <1>7, <2>1 DEF IInv, TypeInv
<1>9. ControlInv'
  BY <1>0, <1>1, <1>4, <1>5, <1>7, IdleFields DEF IInv, ControlInv
<1>10. OrderInv'
  <2>1. Below(recs, fs) /\ Below(overlay[h].ver, fs) /\ Below(wal.ver, fs)
    BY DEF IInv, OrderInv
  <2>2. Below(o.ver, fs) /\ Below(l.ver, fs)
    BY <1>2, <1>3, <2>1 DEF Below
  <2>3. Below(w.recs, fs)
    BY <1>4, Versions DEF Below, IInv, TypeInv, Cold, Layer
  <2> HIDE DEF Below
  <2> QED BY <1>0, <1>1, <1>5, <1>6, <2>2, <2>3 DEF IInv, OrderInv
<1>11. BuildInv' /\ SlotsInv'
  BY <1>0, <1>1, <1>3, <1>6 DEF IInv, BuildInv, SlotsInv
<1>12. QueryInv'
  <2>1. /\ Below(query'.db, fs') /\ Below(query'.ct, fs')
    BY <1>0, <1>7 DEF IInv, QueryInv
  <2>2. ASSUME ~query'.cleared, NEW p \in Path PROVE FloorsHold(p)'
    <3>1. FloorsHold(p)
      BY <1>7, <2>2 DEF IInv, QueryInv
    <3>2. /\ query.pc # "idle" => query.h \in Handle
          /\ query.pc \in {"idle", "content", "overlay", "done"}
      BY DEF IInv, ControlInv, TypeInv, QueryRec, Handle
    <3>3. /\ query.fnFloor[p] \in Nat /\ query.ctFloor[p] \in Nat
          /\ query'.fnFloor[p] \in Nat /\ query'.ctFloor[p] \in Nat
          /\ query.db[p] \in Nat /\ query.ct[p] \in Nat
          /\ \A g \in Handle : shards[g][p] \in Nat /\ overlay[g].ver[p] \in Nat
          /\ \A g \in Handle : overlay'[g].ver[p] \in Nat
      BY <1>6, <1>7 DEF IInv, TypeInv, QueryRec, Layer, ColdLayer, OverlayRec
    <3>4. CASE query.h = h
      <4>1. overlay'[query.h].ver[p] = IF recs[p] # 0 THEN recs[p] ELSE overlay[query.h].ver[p]
        BY <1>3, <1>6, <3>4
      <4> QED BY <1>0, <1>6, <1>7, <3>1, <3>2, <3>3, <3>4, <4>1 DEF FloorsHold
    <3>5. CASE query.h # h
      <4>1. query.pc # "idle" => overlay'[query.h] = overlay[query.h]
        BY <1>6, <3>2, <3>5
      <4> QED BY <1>0, <1>7, <3>1, <3>2, <3>3, <4>1 DEF FloorsHold
    <3> QED BY <3>4, <3>5
  <2> QED BY <2>1, <2>2 DEF QueryInv
<1>13. RebuildInv'
  BY <1>0 DEF IInv, RebuildInv
<1>14. WatchInv'
  BY <1>0, <1>4, <1>5, Versions DEF IInv, WatchInv
<1>15. CompactInv'
  <2>1. build.kind = "compact" => build.h \in Handle /\ build.h # h
    BY <1>1 DEF IInv, ControlInv
  <2> QED BY <1>0, <1>5, <1>6, <2>1 DEF IInv, CompactInv
<1>16. MaxHandles = 1 => OneInv'
  <2> SUFFICES ASSUME MaxHandles = 1 PROVE OneInv'
    OBVIOUS
  <2>1. h = 1
    BY Versions DEF Handle
  <2>2. overlay'[1] = wal'
    BY <1>1, <1>6, <1>s, <2>1 DEF IInv, OneInv
  <2>3. ASSUME NEW p \in Path, Applied(p)', recs[p] # 0 PROVE wal'.ver[p] = fs'[p]
    <3>1. p \notin w.chan
      BY <1>5, <2>1, <2>3 DEF Applied, Unapplied
    <3>2. recs[p] = fs[p]
      BY <1>4, <2>3, <3>1 DEF IInv, WatchInv
    <3> QED BY <1>0, <1>1, <1>3, <2>3, <3>2
  <2>4. ASSUME NEW p \in Path, Applied(p)', recs[p] = 0
        PROVE  Applied(p) /\ wal'.ver[p] = wal.ver[p]
    BY <1>1, <1>3, <1>4, <1>5, <2>1, <2>4 DEF Applied, Unapplied
  <2> QED BY <1>0, <2>2, <2>3, <2>4 DEF IInv, OneInv, Swapping
<1> QED BY <1>8, <1>9, <1>10, <1>11, <1>12, <1>13, <1>14, <1>15, <1>16 DEF IInv

-----------------------------------------------------------------------------
(* The invariant is kept: builds *)

\* A build begins with nothing read.
LEMMA BeginFields ==
    ASSUME TypeInv, NEW kind \in {"compact", "net", "demand"}, NEW h \in Handle, Begin(kind, h)
    PROVE  /\ build.kind = "none" /\ build' \in BuildRec
           /\ build'.kind = kind /\ build'.h = h /\ build'.pc = "walk" /\ build'.walk = NoVersions
BY Versions DEF Begin, BuildRec

\* Beginning a build: the watcher waits if it is its compaction.
LEMMA BeginStep ==
    ASSUME IInv, NEW kind \in {"compact", "net", "demand"}, NEW h \in Handle, Begin(kind, h),
           UNCHANGED <<fs, disk, wal, up, entry, handles, shards, overlay,
                       fresh, reload, query, history>>,
           up, net' \in {0, net},
           kind = "demand" => h = handles + 1,
           kind # "demand" => h <= handles,
           IF kind = "compact"
           THEN /\ watcher[h].pc = "compact"
                /\ watcher' = [watcher EXCEPT ![h] = [watcher[h] EXCEPT !.pc = "compacting"]]
           ELSE watcher' = watcher
    PROVE  IInv'
<1>0. /\ fs' = fs /\ disk' = disk /\ wal' = wal /\ up' = up /\ entry' = entry
      /\ handles' = handles /\ shards' = shards /\ overlay' = overlay
      /\ fresh' = fresh /\ reload' = reload /\ query' = query
      /\ missed' = missed /\ rebuilt' = rebuilt /\ undone' = undone
  BY DEF history
<1>1. /\ build.kind = "none" /\ build' \in BuildRec
      /\ build'.kind = kind /\ build'.h = h /\ build'.pc = "walk" /\ build'.walk = NoVersions
  BY BeginFields DEF IInv
<1>2. /\ watcher' \in [Handle -> WatcherRec]
      /\ \A g \in Handle :
           /\ watcher'[g].chan = watcher[g].chan /\ watcher'[g].batch = watcher[g].batch
           /\ watcher'[g].recs = watcher[g].recs
           /\ g # h \/ kind # "compact" => watcher'[g] = watcher[g]
      /\ kind = "compact" => watcher'[h].pc = "compacting" /\ watcher[h].pc = "compact"
  <2>1. CASE kind # "compact"
    BY <2>1 DEF IInv, TypeInv
  <2>2. CASE kind = "compact"
    <3> DEFINE w == [watcher[h] EXCEPT !.pc = "compacting"]
    <3>1. watcher[h] \in WatcherRec
      BY DEF IInv, TypeInv
    <3>2. /\ w \in WatcherRec /\ w.pc = "compacting" /\ w.chan = watcher[h].chan
          /\ w.batch = watcher[h].batch /\ w.recs = watcher[h].recs
      BY <3>1, WatcherMoves
    <3>3. watcher' = [watcher EXCEPT ![h] = w]
      BY <2>2
    <3> HIDE DEF w
    <3>4. /\ watcher' \in [Handle -> WatcherRec] /\ watcher'[h] = w
          /\ \A g \in Handle \ {h} : watcher'[g] = watcher[g]
      BY <3>2, <3>3, WatcherUpdate DEF IInv
    <3> QED BY <2>2, <3>2, <3>4
  <2> QED BY <2>1, <2>2
<1>3. TypeInv'
  <2>1. net' \in {0} \cup Handle
    BY DEF IInv, TypeInv
  <2> QED BY <1>0, <1>1, <1>2, <2>1 DEF IInv, TypeInv
<1>4. ControlInv'
  <2>1. /\ entry.h <= handles /\ net <= handles /\ handles \in Nat /\ build.pc = "done"
        /\ net' <= handles
    BY <1>1, Versions DEF IInv, ControlInv, TypeInv
  <2>2. fresh = NoEntry
    BY <2>1 DEF IInv, ControlInv
  <2>3. \A g \in Handle : watcher[g].pc # "compacting"
    BY <1>1 DEF IInv, ControlInv
  <2>4. \A g \in Handle : g > handles => watcher[g] = Idle
    BY DEF IInv, ControlInv
  <2>5. kind # "compact" => h \in Handle
    OBVIOUS
  <2>6. \A g \in Handle : watcher'[g].pc = "compacting" => kind = "compact" /\ h = g
    BY <1>2, <2>3
  <2>7. \A g \in Handle :
          g > handles' \/ (build'.kind = "demand" /\ build'.h = g) => watcher'[g] = Idle
    <3> SUFFICES ASSUME NEW g \in Handle, g > handles \/ (kind = "demand" /\ h = g)
                 PROVE  watcher'[g] = Idle
      BY <1>0, <1>1
    <3>1. g > handles /\ (g # h \/ kind # "compact")
      BY <2>1, Versions
    <3> QED BY <1>2, <2>4, <3>1
  <2>8. /\ reload.pc = "store" => reload.h \in 1..handles
        /\ query.pc # "idle" => query.h \in 1..handles
    BY DEF IInv, ControlInv
  <2> QED BY <1>0, <1>1, <1>2, <2>1, <2>2, <2>6, <2>7, <2>8 DEF ControlInv
<1>5. OrderInv'
  <2>1. Below(NoVersions, fs)
    BY Versions DEF Below, IInv, TypeInv, Cold, Layer
  <2> HIDE DEF Below
  <2> QED BY <1>0, <1>1, <1>2, <2>1, Versions DEF IInv, OrderInv
<1>6. BuildInv' /\ SlotsInv'
  BY <1>0, <1>1 DEF IInv, BuildInv, SlotsInv, Started, Whole
<1>7. QueryInv' /\ RebuildInv'
  BY <1>0 DEF IInv, QueryInv, FloorsHold, RebuildInv, Below
<1>8. WatchInv'
  BY <1>0, <1>2 DEF IInv, WatchInv
<1>9. CompactInv'
  BY <1>1, Versions DEF CompactInv
<1>10. MaxHandles = 1 => OneInv'
  <2> SUFFICES ASSUME MaxHandles = 1 PROVE OneInv'
    OBVIOUS
  <2>1. \A p \in Path : Applied(p)' <=> Applied(p)
    BY <1>0, <1>2, Versions DEF Applied, Unapplied
  <2>2. ~Swapping /\ ~Swapping'
    BY <1>1 DEF Swapping
  <2> QED BY <1>0, <2>1, <2>2 DEF IInv, OneInv
<1> QED BY <1>3, <1>4, <1>5, <1>6, <1>7, <1>8, <1>9, <1>10 DEF IInv

\* The three ways to begin a build.
LEMMA StartsStep ==
    ASSUME IInv, (\E h \in Handle : StartCompaction(h)) \/ NetBuild \/ StartOnDemand
    PROVE  IInv'
<1>1. ASSUME NEW h \in Handle, StartCompaction(h) PROVE IInv'
  <2>1. Begin("compact", h) /\ watcher[h].pc = "compact" /\ net' = net
    BY <1>1 DEF StartCompaction, WatcherStep
  <2>2. watcher[h] # Idle
    BY <2>1, IdleFields
  <2>3. up /\ h <= handles
    BY <2>2, Versions DEF IInv, ControlInv, TypeInv
  <2> QED BY <1>1, <2>1, <2>3, BeginStep DEF StartCompaction, WatcherStep
<1>2. CASE NetBuild
  <2>1. net \in Handle /\ Begin("net", net)
    BY <1>2 DEF NetBuild, IInv, TypeInv
  <2>2. up /\ net <= handles
    BY <1>2 DEF NetBuild, IInv, ControlInv, TypeInv
  <2> QED BY <1>2, <2>1, <2>2, BeginStep DEF NetBuild
<1>3. CASE StartOnDemand
  <2>1. handles + 1 \in Handle
    BY <1>3, LsmAssumption DEF StartOnDemand, IInv, TypeInv, Handle
  <2> QED BY <1>3, <2>1, BeginStep DEF StartOnDemand
<1> QED BY <1>1, <1>2, <1>3

\* NetWake, NetSkip: only the captured handle changes.
LEMMA NetStep ==
    ASSUME IInv, NetWake \/ NetSkip
    PROVE  IInv'
<1>0. /\ fs' = fs /\ disk' = disk /\ wal' = wal /\ up' = up /\ entry' = entry
      /\ handles' = handles /\ shards' = shards /\ overlay' = overlay /\ watcher' = watcher
      /\ build' = build /\ fresh' = fresh /\ reload' = reload /\ query' = query
      /\ missed' = missed /\ rebuilt' = rebuilt /\ undone' = undone
      /\ net' = 0 \/ (net' = entry.h /\ up)
  BY DEF NetWake, NetSkip, history
<1>1. entry.h \in Handle /\ entry.h <= handles /\ handles \in Nat
  BY Versions DEF IInv, TypeInv, EntryRec, ControlInv
<1>2. TypeInv'
  BY <1>0, <1>1 DEF IInv, TypeInv
<1>3. ControlInv'
  BY <1>0, <1>1 DEF IInv, ControlInv
<1>4. OrderInv' /\ BuildInv' /\ SlotsInv'
  BY <1>0 DEF IInv, OrderInv, BuildInv, SlotsInv, Below
<1>5. QueryInv' /\ RebuildInv' /\ WatchInv' /\ CompactInv'
  BY <1>0 DEF IInv, QueryInv, FloorsHold, RebuildInv, Below, WatchInv, CompactInv
<1>6. MaxHandles = 1 => OneInv'
  BY <1>0 DEF IInv, OneInv, Applied, Unapplied, Swapping
<1> QED BY <1>2, <1>3, <1>4, <1>5, <1>6 DEF IInv

\* A build in flight takes its next step.
LEMMA BuildStepFields ==
    ASSUME TypeInv, NEW from, NEW to \in {"db", "manifest", "reload", "clear", "open", "store", "attach"},
           BuildStep(from, to)
    PROVE  /\ build.kind # "none" /\ build.pc = from /\ build' \in BuildRec
           /\ build'.pc = to /\ build'.kind = build.kind
           /\ build'.h = build.h /\ build'.walk = build.walk
<1>1. build \in BuildRec /\ build' = [build EXCEPT !.pc = to]
  BY DEF TypeInv, BuildStep
<1>2. build.kind # "none" /\ build.pc = from
  BY DEF BuildStep
<1>3. /\ build' \in BuildRec /\ build'.pc = to /\ build'.kind = build.kind
      /\ build'.h = build.h /\ build'.walk = build.walk
  <2>1. to \in {"done", "walk", "db", "manifest", "reload", "clear", "open", "store", "attach"}
    OBVIOUS
  <2> QED BY <1>1, <2>1 DEF BuildRec
<1> QED BY <1>2, <1>3

\* Walk: a file is read as it is now.
LEMMA WalkStep ==
    ASSUME IInv, NEW p \in Path, Walk(p)
    PROVE  IInv'
<1>0. /\ fs' = fs /\ disk' = disk /\ wal' = wal /\ up' = up /\ entry' = entry
      /\ handles' = handles /\ shards' = shards /\ overlay' = overlay /\ watcher' = watcher
      /\ net' = net /\ fresh' = fresh /\ reload' = reload /\ query' = query
      /\ missed' = missed /\ rebuilt' = rebuilt /\ undone' = undone
  BY DEF Walk, history
<1>1. /\ build.pc = "walk" /\ build' = [build EXCEPT !.walk[p] = fs[p]] /\ build \in BuildRec
      /\ build.walk \in [Path -> Nat] /\ fs \in [Path -> Nat]
  BY DEF Walk, IInv, TypeInv, BuildRec, Cold, Layer
<1>2. /\ build' \in BuildRec /\ build'.pc = build.pc /\ build'.kind = build.kind
      /\ build'.h = build.h /\ build'.walk = [build.walk EXCEPT ![p] = fs[p]]
  BY <1>1 DEF BuildRec, Layer
<1>3. build'.walk[p] = fs[p] /\ \A q \in Path \ {p} : build'.walk[q] = build.walk[q]
  BY <1>1, <1>2
<1>4. TypeInv'
  BY <1>0, <1>2 DEF IInv, TypeInv
<1>5. ControlInv'
  BY <1>0, <1>2 DEF IInv, ControlInv
<1>6. OrderInv'
  <2>1. Below(build'.walk, fs)
    BY <1>1, <1>3 DEF IInv, OrderInv, Below
  <2>2. \A q \in Path : build'.walk[q] # 0 =>
          disk.db[q] <= build'.walk[q] /\ disk.shards[q] <= build'.walk[q]
    BY <1>3 DEF IInv, OrderInv, Below
  <2> HIDE DEF Below
  <2> QED BY <1>0, <2>1, <2>2 DEF IInv, OrderInv
<1>7. BuildInv' /\ SlotsInv'
  BY <1>0, <1>1, <1>2 DEF IInv, BuildInv, SlotsInv, Started, Whole
<1>8. QueryInv' /\ RebuildInv' /\ WatchInv'
  BY <1>0 DEF IInv, QueryInv, FloorsHold, RebuildInv, Below, WatchInv
<1>9. CompactInv'
  <2>1. build.kind = "compact" => build.h \in Handle /\ Below(overlay[build.h].ver, fs)
    BY DEF IInv, ControlInv, OrderInv
  <2> QED BY <1>0, <1>2, <1>3, <2>1 DEF IInv, CompactInv, Below
<1>10. MaxHandles = 1 => OneInv'
  BY <1>0, <1>1, <1>2 DEF IInv, OneInv, Applied, Unapplied, Swapping
<1> QED BY <1>4, <1>5, <1>6, <1>7, <1>8, <1>9, <1>10 DEF IInv

\* A step of a build that writes index files: nothing on disk gets older.
LEMMA DiskStep ==
    ASSUME IInv, NEW from \in {"walk", "db", "manifest"},
           NEW to \in {"db", "manifest", "reload", "open"}, BuildStep(from, to),
           to = "reload" => build.kind # "demand", to = "open" => build.kind = "demand",
           disk' \in [db : ColdLayer, shards : ColdLayer],
           \A p \in Path : disk'.db[p] \in {disk.db[p], build.walk[p]},
           \A p \in Path : disk'.shards[p] \in {disk.shards[p], build.walk[p]},
           \A p \in Path : build.walk[p] # 0,
           BuildInv',
           UNCHANGED <<fs, wal, up, entry, handles, shards, overlay, watcher, net,
                       fresh, reload, query, history>>
    PROVE  IInv'
<1>0. /\ fs' = fs /\ wal' = wal /\ up' = up /\ entry' = entry
      /\ handles' = handles /\ shards' = shards /\ overlay' = overlay /\ watcher' = watcher
      /\ net' = net /\ fresh' = fresh /\ reload' = reload /\ query' = query
      /\ missed' = missed /\ rebuilt' = rebuilt /\ undone' = undone
  BY DEF history
<1>1. /\ build.kind # "none" /\ build.pc = from /\ build' \in BuildRec
      /\ build'.pc = to /\ build'.kind = build.kind
      /\ build'.h = build.h /\ build'.walk = build.walk
  BY BuildStepFields DEF IInv
<1>2. TypeInv'
  BY <1>0, <1>1 DEF IInv, TypeInv
<1>3. ControlInv'
  BY <1>0, <1>1 DEF IInv, ControlInv
<1>t. ASSUME NEW p \in Path
      PROVE  /\ disk.db[p] \in Nat /\ disk.shards[p] \in Nat /\ build.walk[p] \in Nat /\ fs[p] \in Nat
             /\ entry.db[p] \in Nat /\ reload.db[p] \in Nat
             /\ \A h \in Handle : shards[h][p] \in Nat
  BY DEF IInv, TypeInv, ColdLayer, BuildRec, EntryRec, ReloadRec, Cold, Layer
<1>4. ASSUME NEW p \in Path
      PROVE  /\ disk.db[p] <= disk'.db[p] /\ disk.shards[p] <= disk'.shards[p]
             /\ disk'.db[p] <= build.walk[p] /\ disk'.shards[p] <= build.walk[p]
             /\ build.walk[p] <= fs[p] /\ disk'.db[p] \in Nat /\ disk'.shards[p] \in Nat
  <2>1. /\ disk.db[p] <= build.walk[p] /\ disk.shards[p] <= build.walk[p] /\ build.walk[p] <= fs[p]
    BY DEF IInv, OrderInv, Below
  <2>2. disk'.db[p] \in {disk.db[p], build.walk[p]} /\ disk'.shards[p] \in {disk.shards[p], build.walk[p]}
    OBVIOUS
  <2> QED BY <1>t, <2>1, <2>2
<1>5. OrderInv'
  <2>1. /\ Below(disk'.db, fs) /\ Below(disk'.shards, fs)
        /\ \A h \in Handle : Below(shards[h], disk'.shards)
        /\ Below(entry.db, disk'.db)
        /\ reload.pc # "idle" => Below(reload.db, disk'.db)
    BY <1>t, <1>4 DEF IInv, OrderInv, Below
  <2> HIDE DEF Below
  <2> QED BY <1>0, <1>1, <1>4, <2>1 DEF IInv, OrderInv
<1>6. SlotsInv' /\ QueryInv' /\ RebuildInv' /\ WatchInv'
  BY <1>0 DEF IInv, SlotsInv, QueryInv, FloorsHold, RebuildInv, Below, WatchInv
<1>7. CompactInv'
  BY <1>0, <1>1 DEF IInv, CompactInv
<1>8. MaxHandles = 1 => OneInv'
  <2> SUFFICES ASSUME MaxHandles = 1 PROVE OneInv'
    OBVIOUS
  <2>1. \A p \in Path : Applied(p)' <=> Applied(p)
    BY <1>0 DEF Applied, Unapplied
  <2>2. ~Swapping
    BY <1>1 DEF Swapping
  <2>3. \A p \in Path : /\ disk.db[p] = fs[p] => disk'.db[p] = fs[p]
                        /\ disk.shards[p] = fs[p] => disk'.shards[p] = fs[p]
    BY <1>t, <1>4
  <2> QED BY <1>0, <2>1, <2>2, <2>3 DEF IInv, OneInv
<1> QED BY <1>2, <1>3, <1>5, <1>6, <1>7, <1>8 DEF IInv

\* WriteShards, WriteDb, WriteManifest.
LEMMA WritesStep ==
    ASSUME IInv, WriteShards \/ WriteDb \/ WriteManifest
    PROVE  IInv'
<1>t. /\ disk \in [db : ColdLayer, shards : ColdLayer] /\ build.walk \in [Path -> Nat]
  BY DEF IInv, TypeInv, BuildRec, Layer
<1>1. CASE WriteShards
  <2> DEFINE s == IF \E p \in Path : Obs(p, build.walk[p]) # Absent THEN build.walk ELSE disk.shards
  <2>1. /\ \A p \in Path : build.walk[p] # 0
        /\ BuildStep("walk", "db")
        /\ disk' = [disk EXCEPT !.shards = s]
        /\ UNCHANGED <<fs, wal, up, entry, handles, shards, overlay, watcher, net,
                       fresh, reload, query, history>>
    BY <1>1 DEF WriteShards
  <2>2. build.walk \in ColdLayer
    BY <1>t, <2>1 DEF ColdLayer
  <2>3. s \in ColdLayer /\ \A p \in Path : s[p] \in {disk.shards[p], build.walk[p]}
    BY <1>t, <2>2
  <2> HIDE DEF s
  <2>4. /\ disk' \in [db : ColdLayer, shards : ColdLayer] /\ disk'.db = disk.db /\ disk'.shards = s
    BY <1>t, <2>1, <2>3
  <2>5. build'.pc = "db" /\ build'.walk = build.walk
    BY <2>1, BuildStepFields DEF IInv
  <2>6. BuildInv'
    BY <2>1, <2>5 DEF BuildInv, Started, Whole
  <2> QED BY <2>1, <2>3, <2>4, <2>6, DiskStep
<1>2. CASE WriteDb
  <2>1. /\ BuildStep("db", "manifest")
        /\ disk' = [disk EXCEPT !.db = build.walk]
        /\ UNCHANGED <<fs, wal, up, entry, handles, shards, overlay, watcher, net,
                       fresh, reload, query, history>>
    BY <1>2 DEF WriteDb
  <2>2. build.pc = "db" /\ build'.pc = "manifest" /\ build'.walk = build.walk
    BY <2>1, BuildStepFields DEF IInv
  <2>3. \A p \in Path : build.walk[p] # 0
    BY <2>2 DEF IInv, BuildInv
  <2>4. build.walk \in ColdLayer
    BY <1>t, <2>3 DEF ColdLayer
  <2>5. /\ disk' \in [db : ColdLayer, shards : ColdLayer]
        /\ disk'.db = build.walk /\ disk'.shards = disk.shards
    BY <1>t, <2>1, <2>4
  <2>6. BuildInv'
    BY <2>2, <2>3, <2>5 DEF BuildInv, Started, Whole
  <2> QED BY <2>1, <2>3, <2>5, <2>6, DiskStep
<1>3. CASE WriteManifest
  <2> DEFINE to == IF build.kind = "demand" THEN "open" ELSE "reload"
  <2>1. /\ BuildStep("manifest", to)
        /\ disk' = [disk EXCEPT !.shards = build.walk]
        /\ UNCHANGED <<fs, wal, up, entry, handles, shards, overlay, watcher, net,
                       fresh, reload, query, history>>
    BY <1>3 DEF WriteManifest
  <2>t. /\ to \in {"open", "reload"}
        /\ to = "open" => build.kind = "demand"
        /\ to = "reload" => build.kind # "demand"
    OBVIOUS
  <2> HIDE DEF to
  <2>2. build.pc = "manifest" /\ build'.pc = to /\ build'.walk = build.walk /\ build'.kind = build.kind
    BY <2>1, <2>t, BuildStepFields DEF IInv
  <2>3. /\ \A p \in Path : build.walk[p] # 0
        /\ disk.db = build.walk
    BY <2>2 DEF IInv, BuildInv, Started
  <2>4. build.walk \in ColdLayer
    BY <1>t, <2>3 DEF ColdLayer
  <2>5. /\ disk' \in [db : ColdLayer, shards : ColdLayer]
        /\ disk'.shards = build.walk /\ disk'.db = disk.db
    BY <1>t, <2>1, <2>4
  <2>6. BuildInv'
    BY <2>t, <2>2, <2>3, <2>5 DEF BuildInv, Started, Whole
  <2> QED BY <2>1, <2>t, <2>3, <2>5, <2>6, DiskStep
<1> QED BY <1>1, <1>2, <1>3

\* The end of a build gives a compacting watcher back to its loop.
LEMMA EndBuildFields ==
    ASSUME IInv, build.kind # "none", EndBuild
    PROVE  /\ build' = NoBuild
           /\ watcher' \in [Handle -> WatcherRec]
           /\ \A g \in Handle :
                /\ watcher'[g].chan = watcher[g].chan /\ watcher'[g].batch = watcher[g].batch
                /\ watcher'[g].recs = watcher[g].recs
                /\ watcher'[g].pc # "compacting"
                /\ watcher[g].pc # "compacting" => watcher'[g] = watcher[g]
                /\ watcher[g].pc = "compacting" => watcher'[g].pc = "idle"
<1>1. CASE build.kind # "compact"
  <2>1. watcher' = watcher /\ \A g \in Handle : watcher[g].pc # "compacting"
    BY <1>1 DEF EndBuild, IInv, ControlInv
  <2> QED BY <2>1 DEF EndBuild, IInv, TypeInv
<1>2. CASE build.kind = "compact"
  <2> DEFINE h == build.h
             w == [watcher[h] EXCEPT !.pc = "idle"]
  <2>1. h \in Handle /\ watcher[h] \in WatcherRec /\ watcher \in [Handle -> WatcherRec]
    BY <1>2 DEF IInv, ControlInv, TypeInv
  <2>2. watcher' = [watcher EXCEPT ![h] = w]
    BY <1>2, <2>1 DEF EndBuild
  <2>3. /\ w \in WatcherRec /\ w.pc = "idle" /\ w.chan = watcher[h].chan
        /\ w.batch = watcher[h].batch /\ w.recs = watcher[h].recs
    BY <2>1, WatcherMoves
  <2> HIDE DEF w
  <2>4. /\ watcher' \in [Handle -> WatcherRec] /\ watcher'[h] = w
        /\ \A g \in Handle \ {h} : watcher'[g] = watcher[g]
    BY <2>1, <2>2, <2>3, WatcherUpdate DEF IInv
  <2>5. \A g \in Handle : watcher[g].pc = "compacting" <=> g = h
    BY <1>2 DEF IInv, ControlInv
  <2> QED BY <2>3, <2>4, <2>5 DEF EndBuild
<1> QED BY <1>1, <1>2

\* BuildFails: what was written so far stays, the overlay was not touched.
LEMMA BuildFailsStep ==
    ASSUME IInv, BuildFails
    PROVE  IInv'
<1>0. /\ fs' = fs /\ disk' = disk /\ wal' = wal /\ up' = up /\ entry' = entry
      /\ handles' = handles /\ shards' = shards /\ overlay' = overlay
      /\ net' = net /\ fresh' = fresh /\ reload' = reload /\ query' = query
      /\ missed' = missed /\ rebuilt' = rebuilt /\ undone' = undone
  BY DEF BuildFails, history
<1>1. build.pc \in {"walk", "db", "manifest"} /\ build.kind # "none" /\ EndBuild
  BY DEF BuildFails, IInv, ControlInv
<1>2. /\ build' = NoBuild
      /\ watcher' \in [Handle -> WatcherRec]
      /\ \A g \in Handle :
           /\ watcher'[g].chan = watcher[g].chan /\ watcher'[g].batch = watcher[g].batch
           /\ watcher'[g].recs = watcher[g].recs
           /\ watcher'[g].pc # "compacting"
           /\ watcher[g].pc # "compacting" => watcher'[g] = watcher[g]
           /\ watcher[g].pc = "compacting" => watcher'[g].pc = "idle"
  BY <1>1, EndBuildFields
<1>3. TypeInv'
  BY <1>0, <1>2, NoBuildFields DEF IInv, TypeInv
<1>4. ControlInv'
  <2>1. fresh = NoEntry
    BY <1>1 DEF IInv, ControlInv
  <2>2. \A g \in Handle : g > handles => watcher'[g] = Idle
    BY <1>2, IdleFields DEF IInv, ControlInv
  <2> QED BY <1>0, <1>1, <1>2, <2>1, <2>2, NoBuildFields DEF IInv, ControlInv
<1>5. OrderInv'
  <2>1. Below(NoVersions, fs)
    BY Versions DEF Below, IInv, TypeInv, Cold, Layer
  <2> HIDE DEF Below
  <2> QED BY <1>0, <1>2, <2>1, Versions, NoBuildFields DEF IInv, OrderInv
<1>6. BuildInv' /\ SlotsInv'
  BY <1>0, <1>2, NoBuildFields DEF IInv, BuildInv, SlotsInv, Started, Whole
<1>7. QueryInv' /\ RebuildInv'
  BY <1>0 DEF IInv, QueryInv, FloorsHold, RebuildInv, Below
<1>8. WatchInv' /\ CompactInv'
  BY <1>0, <1>2, NoBuildFields DEF IInv, WatchInv, CompactInv
<1>9. MaxHandles = 1 => OneInv'
  <2> SUFFICES ASSUME MaxHandles = 1 PROVE OneInv'
    OBVIOUS
  <2>1. \A p \in Path : Applied(p)' <=> Applied(p)
    BY <1>0, <1>2, Versions DEF Applied, Unapplied
  <2>2. ~Swapping /\ ~Swapping'
    BY <1>1, <1>2, NoBuildFields DEF Swapping
  <2> QED BY <1>0, <2>1, <2>2 DEF IInv, OneInv
<1> QED BY <1>3, <1>4, <1>5, <1>6, <1>7, <1>8, <1>9 DEF IInv

\* ReloadShards: the handle's shards are those of the build.
LEMMA ReloadShardsStep ==
    ASSUME IInv, ReloadShards
    PROVE  IInv'
<1> DEFINE to == IF build.kind = "compact" THEN "clear" ELSE "open"
           b == build.h
<1>0. /\ fs' = fs /\ disk' = disk /\ wal' = wal /\ up' = up /\ entry' = entry
      /\ handles' = handles /\ overlay' = overlay /\ watcher' = watcher
      /\ net' = net /\ fresh' = fresh /\ reload' = reload /\ query' = query
      /\ missed' = missed /\ rebuilt' = rebuilt /\ undone' = undone
  BY DEF ReloadShards, history
<1>1. BuildStep("reload", to) /\ shards' = [shards EXCEPT ![b] = disk.shards]
  BY DEF ReloadShards
<1>2. to \in {"clear", "open"} /\ (to = "clear" <=> build.kind = "compact")
  OBVIOUS
<1> HIDE DEF to
<1>3. /\ build.kind # "none" /\ build.pc = "reload" /\ build' \in BuildRec
      /\ build'.pc = to /\ build'.kind = build.kind
      /\ build'.h = b /\ build'.walk = build.walk
  BY <1>1, <1>2, BuildStepFields DEF IInv
<1>4. /\ b \in Handle /\ build.kind # "demand" /\ b <= handles
  BY <1>3 DEF IInv, ControlInv, TypeInv, BuildRec
<1>5. disk.shards = build.walk /\ disk.db = build.walk /\ disk.shards \in ColdLayer
  BY <1>3 DEF IInv, BuildInv, TypeInv, Whole, Started
<1> HIDE DEF b
<1>6. /\ shards' \in [Handle -> ColdLayer] /\ shards'[b] = disk.shards
      /\ \A g \in Handle \ {b} : shards'[g] = shards[g]
  BY <1>1, <1>4, <1>5 DEF IInv, TypeInv
<1>t. ASSUME NEW p \in Path
      PROVE  /\ disk.shards[p] \in Nat /\ fs[p] \in Nat /\ disk.shards[p] <= fs[p]
             /\ \A h \in Handle : /\ shards[h][p] \in Nat /\ shards'[h][p] \in Nat
                                  /\ shards[h][p] <= disk.shards[p]
                                  /\ shards[h][p] <= shards'[h][p]
                                  /\ shards'[h][p] <= disk.shards[p]
  <2>1. disk.shards[p] \in Nat /\ fs[p] \in Nat /\ \A h \in Handle : shards[h][p] \in Nat
    BY <1>5 DEF IInv, TypeInv, ColdLayer, Cold, Layer
  <2>2. disk.shards[p] <= fs[p] /\ \A h \in Handle : shards[h][p] <= disk.shards[p]
    BY DEF IInv, OrderInv, Below
  <2>3. \A h \in Handle : shards'[h][p] \in {shards[h][p], disk.shards[p]}
    BY <1>6
  <2> QED BY <2>1, <2>2, <2>3
<1>7. TypeInv'
  BY <1>0, <1>3, <1>6 DEF IInv, TypeInv
<1>8. ControlInv'
  BY <1>0, <1>2, <1>3, <1>4 DEF IInv, ControlInv, b
<1>9. OrderInv'
  <2>1. \A h \in Handle : Below(shards'[h], disk.shards)
    BY <1>t DEF Below
  <2> HIDE DEF Below
  <2> QED BY <1>0, <1>3, <2>1 DEF IInv, OrderInv
<1>10. BuildInv' /\ SlotsInv'
  <2>1. \A p \in Path : build.walk[p] # 0
    BY <1>3 DEF IInv, BuildInv, Started
  <2> QED BY <1>0, <1>2, <1>3, <1>5, <1>6, <2>1 DEF IInv, BuildInv, SlotsInv, Started, Whole
<1>11. QueryInv'
  <2>1. ASSUME ~query.cleared, NEW p \in Path PROVE FloorsHold(p)'
    <3>1. FloorsHold(p)
      BY <2>1 DEF IInv, QueryInv
    <3>2. query.pc # "idle" => query.h \in Handle
      BY UsedHandles
    <3>3. query.ctFloor[p] \in Nat
      BY DEF IInv, TypeInv, QueryRec, Layer
    <3>4. query.pc # "idle" /\ query.ctFloor[p] <= shards[query.h][p]
             => query.ctFloor[p] <= shards'[query.h][p]
      BY <1>t, <3>2, <3>3
    <3> QED BY <1>0, <3>1, <3>4 DEF FloorsHold
  <2> QED BY <1>0, <2>1 DEF IInv, QueryInv
<1>12. RebuildInv'
  <2>1. entry.h \in Handle /\ rebuilt \subseteq Path
    BY DEF IInv, TypeInv, EntryRec
  <2>2. \A p \in Path : shards[entry.h][p] = fs[p] => shards'[entry.h][p] = fs[p]
    BY <1>t, <2>1
  <2> QED BY <1>0, <2>1, <2>2 DEF IInv, RebuildInv
<1>13. WatchInv' /\ CompactInv'
  BY <1>0, <1>3 DEF IInv, WatchInv, CompactInv, b
<1>14. MaxHandles = 1 => OneInv'
  <2> SUFFICES ASSUME MaxHandles = 1 PROVE OneInv'
    OBVIOUS
  <2>1. \A p \in Path : Applied(p)' <=> Applied(p)
    BY <1>0 DEF Applied, Unapplied
  <2>2. ~Swapping /\ 1 \in Handle
    BY <1>3, Versions DEF Swapping
  <2>3. \A p \in Path : shards[1][p] = fs[p] => shards'[1][p] = fs[p]
    BY <1>t, <2>2
  <2> QED BY <1>0, <2>1, <2>2, <2>3 DEF IInv, OneInv
<1> QED BY <1>7, <1>8, <1>9, <1>10, <1>11, <1>12, <1>13, <1>14 DEF IInv

\* ClearOverlay: what the overlay answered for is in the reloaded shards.
LEMMA ClearOverlayStep ==
    ASSUME IInv, ClearOverlay
    PROVE  IInv'
<1> DEFINE b == build.h
<1>0. /\ fs' = fs /\ disk' = disk /\ up' = up /\ entry' = entry
      /\ handles' = handles /\ shards' = shards /\ watcher' = watcher
      /\ net' = net /\ fresh' = fresh /\ reload' = reload
      /\ missed' = missed /\ rebuilt' = rebuilt /\ undone' = undone
  BY DEF ClearOverlay, history
<1>1. /\ BuildStep("clear", "open") /\ overlay' = [overlay EXCEPT ![b] = EmptyOverlay]
      /\ wal' = EmptyOverlay /\ query' = [query EXCEPT !.cleared = query.pc # "idle"]
  BY DEF ClearOverlay
<1>3. /\ build.kind # "none" /\ build.pc = "clear" /\ build' \in BuildRec
      /\ build'.pc = "open" /\ build'.kind = build.kind
      /\ build'.h = b /\ build'.walk = build.walk
  BY <1>1, BuildStepFields DEF IInv
<1>4. /\ b \in Handle /\ build.kind = "compact" /\ b <= handles
  BY <1>3 DEF IInv, ControlInv, TypeInv, BuildRec
<1>5. /\ disk.shards = build.walk /\ disk.db = build.walk /\ shards[b] = build.walk
      /\ \A p \in Path : build.walk[p] # 0
  BY <1>3 DEF IInv, BuildInv, Whole, Started
<1> HIDE DEF b
<1>e. /\ EmptyOverlay \in OverlayRec /\ EmptyOverlay.ver = NoVersions /\ EmptyOverlay.slots = {}
      /\ Below(NoVersions, fs)
  BY Versions DEF EmptyOverlay, OverlayRec, Below, IInv, TypeInv, Cold, Layer
<1>6. /\ overlay' \in [Handle -> OverlayRec] /\ overlay'[b] = EmptyOverlay
      /\ \A g \in Handle \ {b} : overlay'[g] = overlay[g]
  BY <1>1, <1>4, <1>e DEF IInv, TypeInv
<1>7. /\ query' \in QueryRec /\ query'.pc = query.pc /\ query'.db = query.db /\ query'.ct = query.ct
      /\ query'.h = query.h /\ query'.fnFloor = query.fnFloor /\ query'.ctFloor = query.ctFloor
      /\ query'.cleared = (query.pc # "idle")
  <2>1. query \in QueryRec /\ (query.pc # "idle") \in BOOLEAN
    BY DEF IInv, TypeInv
  <2> QED BY <1>1, <2>1 DEF QueryRec
<1>8. TypeInv'
  BY <1>0, <1>1, <1>3, <1>6, <1>7, <1>e DEF IInv, TypeInv
<1>9. ControlInv'
  BY <1>0, <1>3, <1>4, <1>7 DEF IInv, ControlInv, b
<1>10. OrderInv'
  <2> HIDE DEF Below
  <2> QED BY <1>0, <1>1, <1>3, <1>6, <1>e DEF IInv, OrderInv
<1>11. BuildInv' /\ SlotsInv'
  BY <1>0, <1>1, <1>3, <1>4, <1>5, <1>6, <1>e DEF IInv, BuildInv, SlotsInv, Started, Whole
<1>12. QueryInv'
  <2>1. ~query'.cleared => \A p \in Path : FloorsHold(p)'
    BY <1>7 DEF FloorsHold
  <2> QED BY <1>0, <1>7, <2>1 DEF IInv, QueryInv
<1>13. RebuildInv' /\ WatchInv'
  BY <1>0 DEF IInv, RebuildInv, WatchInv
<1>14. CompactInv'
  <2>1. \A p \in Path : build.walk[p] # 0 => build.walk[p] = fs[p] \/ p \in watcher[b].chan
    BY <1>4 DEF IInv, CompactInv, b
  <2>2. \A p \in Path : overlay'[b].ver[p] <= build.walk[p]
    BY <1>6, <1>e, Versions DEF IInv, TypeInv, BuildRec, Layer
  <2> QED BY <1>0, <1>3, <2>1, <2>2 DEF CompactInv
<1>15. MaxHandles = 1 => OneInv'
  <2> SUFFICES ASSUME MaxHandles = 1 PROVE OneInv'
    OBVIOUS
  <2>1. b = 1
    BY <1>4 DEF Handle
  <2>2. Swapping'
    BY <1>3, <1>4 DEF Swapping
  <2>3. ASSUME NEW p \in Path, Applied(p)'
        PROVE  build.walk[p] = fs[p] /\ wal'.ver[p] = 0
    <3>1. p \notin watcher[1].chan
      BY <1>0, <2>3 DEF Applied, Unapplied
    <3> QED BY <1>1, <1>4, <1>5, <1>e, <2>1, <3>1, Versions DEF IInv, CompactInv, b
  <2> QED BY <1>0, <1>1, <1>5, <1>6, <2>1, <2>2, <2>3 DEF OneInv
<1> QED BY <1>8, <1>9, <1>10, <1>11, <1>12, <1>13, <1>14, <1>15 DEF IInv

\* OpenReusing: the new filename reader is on the files of the build.
LEMMA OpenReusingStep ==
    ASSUME IInv, OpenReusing
    PROVE  IInv'
<1>0. /\ fs' = fs /\ disk' = disk /\ wal' = wal /\ up' = up /\ entry' = entry
      /\ handles' = handles /\ shards' = shards /\ overlay' = overlay /\ watcher' = watcher
      /\ net' = net /\ reload' = reload /\ query' = query
      /\ missed' = missed /\ rebuilt' = rebuilt /\ undone' = undone
  BY DEF OpenReusing, history
<1>1. /\ BuildStep("open", "store") /\ build.kind \in {"compact", "net"}
      /\ fresh' = [db |-> disk.db, h |-> entry.h]
  BY DEF OpenReusing
<1>3. /\ build.kind # "none" /\ build.pc = "open" /\ build' \in BuildRec
      /\ build'.pc = "store" /\ build'.kind = build.kind
      /\ build'.h = build.h /\ build'.walk = build.walk
  BY <1>1, BuildStepFields DEF IInv
<1>4. /\ disk.shards = build.walk /\ disk.db = build.walk /\ shards[build.h] = build.walk
      /\ \A p \in Path : build.walk[p] # 0
  BY <1>1, <1>3 DEF IInv, BuildInv, Whole, Started
<1>5. /\ fresh' \in FreshRec /\ fresh'.db = disk.db /\ fresh'.h = entry.h
      /\ entry.h \in 1..handles
  <2>1. disk.db \in Layer /\ entry.h \in Handle
    BY DEF IInv, TypeInv, EntryRec, ColdLayer, Layer
  <2> QED BY <1>1, <2>1, UsedHandles DEF FreshRec
<1>6. TypeInv'
  BY <1>0, <1>3, <1>5 DEF IInv, TypeInv
<1>7. ControlInv'
  BY <1>0, <1>1, <1>3 DEF IInv, ControlInv
<1>8. OrderInv' /\ SlotsInv'
  BY <1>0, <1>3 DEF IInv, OrderInv, SlotsInv, Below
<1>9. BuildInv'
  BY <1>0, <1>1, <1>3, <1>4, <1>5 DEF BuildInv, Started, Whole
<1>10. QueryInv' /\ RebuildInv' /\ WatchInv' /\ CompactInv'
  BY <1>0, <1>3 DEF IInv, QueryInv, FloorsHold, RebuildInv, Below, WatchInv, CompactInv
<1>11. MaxHandles = 1 => OneInv'
  BY <1>0, <1>3 DEF IInv, OneInv, Applied, Unapplied, Swapping
<1> QED BY <1>6, <1>7, <1>8, <1>9, <1>10, <1>11 DEF IInv

\* OpenNew: nobody has the new handle yet.
LEMMA OpenNewStep ==
    ASSUME IInv, OpenNew
    PROVE  IInv'
<1> DEFINE b == build.h
<1>0. /\ fs' = fs /\ disk' = disk /\ wal' = wal /\ up' = up /\ entry' = entry
      /\ watcher' = watcher /\ net' = net /\ reload' = reload /\ query' = query
      /\ missed' = missed /\ rebuilt' = rebuilt /\ undone' = undone
  BY DEF OpenNew, history
<1>1. /\ BuildStep("open", "store") /\ build.kind = "demand" /\ handles' = b
      /\ shards' = [shards EXCEPT ![b] = disk.shards]
      /\ overlay' = [overlay EXCEPT ![b] = wal]
      /\ fresh' = [db |-> disk.db, h |-> b]
  BY DEF OpenNew
<1>3. /\ build.kind # "none" /\ build.pc = "open" /\ build' \in BuildRec
      /\ build'.pc = "store" /\ build'.kind = build.kind
      /\ build'.h = b /\ build'.walk = build.walk
  BY <1>1, BuildStepFields DEF IInv
<1>4. /\ disk.shards = build.walk /\ disk.db = build.walk
      /\ \A p \in Path : build.walk[p] # 0
  BY <1>1, <1>3 DEF IInv, BuildInv, Whole, Started
<1>5. b \in Handle /\ b = handles + 1 /\ handles \in Nat
  BY <1>1, <1>3, Versions DEF IInv, ControlInv, TypeInv
<1> HIDE DEF b
<1>6. /\ shards' \in [Handle -> ColdLayer] /\ shards'[b] = disk.shards
      /\ \A g \in Handle \ {b} : shards'[g] = shards[g]
      /\ overlay' \in [Handle -> OverlayRec] /\ overlay'[b] = wal
      /\ \A g \in Handle \ {b} : overlay'[g] = overlay[g]
  BY <1>1, <1>5 DEF IInv, TypeInv
<1>7. fresh' \in FreshRec /\ fresh'.db = disk.db /\ fresh'.h = b
  <2>1. disk.db \in Layer
    BY DEF IInv, TypeInv, ColdLayer, Layer
  <2> QED BY <1>1, <1>5, <2>1 DEF FreshRec
<1>8. TypeInv'
  BY <1>0, <1>1, <1>3, <1>5, <1>6, <1>7 DEF IInv, TypeInv
<1>9. ControlInv'
  <2>1. /\ entry.h \in Nat /\ entry.h <= handles /\ net \in Nat /\ net <= handles
        /\ reload.pc = "store" => reload.h \in 1..handles
        /\ query.pc # "idle" => query.h \in 1..handles
    <3>1. entry.h \in Nat /\ net \in Nat
      <4>1. entry.h \in Handle /\ (net = 0 \/ net \in Handle)
        BY DEF IInv, TypeInv, EntryRec
      <4>2. \A h \in Handle : h \in Nat
        BY Versions
      <4>3. 0 \in Nat
        OBVIOUS
      <4> QED BY <4>1, <4>2, <4>3, Zenon
    <3>2. /\ entry.h <= handles /\ net <= handles
          /\ reload.pc = "store" => reload.h \in 1..handles
          /\ query.pc # "idle" => query.h \in 1..handles
      BY DEF IInv, ControlInv
    <3> QED BY <3>1, <3>2
  <2>2. /\ entry.h <= b /\ net <= b
        /\ reload.pc = "store" => reload.h \in 1..b
        /\ query.pc # "idle" => query.h \in 1..b
    BY <1>5, <2>1
  <2>3. \A h \in Handle : h > b \/ h = b => watcher[h] = Idle
    BY <1>1, <1>5, Versions DEF IInv, ControlInv, b
  <2> QED BY <1>0, <1>1, <1>3, <1>5, <2>2, <2>3 DEF IInv, ControlInv
<1>10. OrderInv'
  <2>1. Below(disk.shards, disk.shards)
    BY DEF Below, IInv, TypeInv, ColdLayer
  <2> HIDE DEF Below
  <2> QED BY <1>0, <1>3, <1>6, <2>1 DEF IInv, OrderInv
<1>11. BuildInv'
  BY <1>0, <1>1, <1>3, <1>4, <1>5, <1>6, <1>7 DEF BuildInv, Started, Whole
<1>12. SlotsInv'
  BY <1>0, <1>6 DEF IInv, SlotsInv
<1>13. QueryInv'
  <2>1. query.pc # "idle" => overlay'[query.h] = overlay[query.h] /\ shards'[query.h] = shards[query.h]
    <3>1. query.pc # "idle" => query.h \in Handle /\ query.h # b
      <4>1. query.pc # "idle" => query.h \in 1..handles /\ query.h \in Handle
        BY UsedHandles
      <4> QED BY <1>5, <4>1
    <3> QED BY <1>6, <3>1
  <2>2. \A p \in Path : FloorsHold(p) => FloorsHold(p)'
    BY <1>0, <2>1 DEF FloorsHold
  <2> QED BY <1>0, <2>2 DEF IInv, QueryInv
<1>14. RebuildInv'
  <2>1. entry.h \in Handle /\ entry.h # b
    BY <1>5, Versions DEF IInv, ControlInv, TypeInv, EntryRec
  <2> QED BY <1>0, <1>6, <2>1 DEF IInv, RebuildInv
<1>15. WatchInv' /\ CompactInv'
  BY <1>0, <1>1, <1>3 DEF IInv, WatchInv, CompactInv
<1>16. MaxHandles = 1 => OneInv'
  BY <1>5, Versions DEF Handle, IInv, TypeInv
<1> QED BY <1>8, <1>9, <1>10, <1>11, <1>12, <1>13, <1>14, <1>15, <1>16 DEF IInv


\* Store: queries get the files of the build, whichever handle it was for.
LEMMA StoreStep ==
    ASSUME IInv, Store
    PROVE  IInv'
<1>0. /\ fs' = fs /\ disk' = disk /\ wal' = wal /\ up' = up /\ handles' = handles
      /\ shards' = shards /\ overlay' = overlay /\ net' = net /\ reload' = reload
      /\ query' = query /\ missed' = missed
  BY DEF Store
<1>1. /\ build.kind # "none" /\ build.pc = "store" /\ entry' = fresh /\ fresh' = NoEntry
      /\ rebuilt' = {p \in Path : fresh.h = build.h /\ build.walk[p] = fs[p]}
      /\ undone' = FALSE
  BY DEF Store
<1>2. /\ disk.shards = build.walk /\ disk.db = build.walk /\ shards[build.h] = build.walk
      /\ fresh.db = disk.db /\ fresh.h \in 1..handles
      /\ build.kind = "demand" => fresh.h = build.h
  BY <1>1 DEF IInv, BuildInv, Whole, Started
<1>3. fresh.h \in Handle /\ disk.db \in ColdLayer /\ fresh \in EntryRec
  <2>1. fresh.h \in Handle /\ disk.db \in ColdLayer /\ fresh \in FreshRec
    BY <1>2, UsedHandles DEF IInv, TypeInv
  <2> QED BY <1>2, <2>1 DEF FreshRec, EntryRec
<1>4. NoEntry \in FreshRec
  BY Versions DEF NoEntry, FreshRec
<1>5. /\ build' \in BuildRec /\ build'.pc \in {"done", "attach"}
      /\ IF build.kind = "demand"
         THEN build'.pc = "attach" /\ build'.kind = "demand" /\ build'.h = build.h
              /\ build'.walk = build.walk
         ELSE build' = NoBuild
      /\ watcher' \in [Handle -> WatcherRec]
      /\ \A g \in Handle :
           /\ watcher'[g].chan = watcher[g].chan /\ watcher'[g].batch = watcher[g].batch
           /\ watcher'[g].recs = watcher[g].recs
           /\ watcher'[g].pc # "compacting"
           /\ watcher[g].pc # "compacting" => watcher'[g] = watcher[g]
           /\ watcher[g].pc = "compacting" => watcher'[g].pc = "idle"
  <2>1. CASE build.kind = "demand"
    <3>1. build' = [build EXCEPT !.pc = "attach"] /\ watcher' = watcher
      BY <2>1 DEF Store
    <3>2. build \in BuildRec /\ watcher \in [Handle -> WatcherRec]
      BY DEF IInv, TypeInv
    <3>3. \A g \in Handle : watcher[g].pc # "compacting"
      BY <2>1 DEF IInv, ControlInv
    <3>4. /\ build' \in BuildRec /\ build'.pc = "attach" /\ build'.kind = "demand"
          /\ build'.h = build.h /\ build'.walk = build.walk
      BY <2>1, <3>1, <3>2 DEF BuildRec
    <3> QED BY <2>1, <3>1, <3>2, <3>3, <3>4
  <2>2. CASE build.kind # "demand"
    <3>1. EndBuild
      BY <2>2 DEF Store
    <3> QED BY <1>1, <2>2, <3>1, EndBuildFields, NoBuildFields
  <2> QED BY <2>1, <2>2
<1>6. TypeInv'
  BY <1>0, <1>1, <1>3, <1>4, <1>5 DEF IInv, TypeInv
<1>7. ControlInv'
  <2>1. fresh.h <= handles
    BY <1>2, UsedHandles
  <2>2. \A g \in Handle : g > handles => watcher'[g] = Idle
    BY <1>5, IdleFields DEF IInv, ControlInv
  <2>3. build.kind = "demand" =>
          watcher'[build.h] = Idle /\ build.h \in Handle /\ build.h = handles
    BY <1>1, <1>5, IdleFields DEF IInv, ControlInv
  <2>4. up
    BY <1>1 DEF IInv, ControlInv
  <2> QED BY <1>0, <1>1, <1>5, <2>1, <2>2, <2>3, <2>4, NoBuildFields DEF IInv, ControlInv
<1>8. OrderInv'
  <2>1. Below(NoVersions, fs)
    BY Versions DEF Below, IInv, TypeInv, Cold, Layer
  <2>2. Below(disk.db, disk.db)
    BY <1>3 DEF Below, ColdLayer
  <2>3. /\ Below(build'.walk, fs)
        /\ \A p \in Path : build'.walk[p] # 0 =>
              disk.db[p] <= build'.walk[p] /\ disk.shards[p] <= build'.walk[p]
    BY <1>5, <2>1, Versions, NoBuildFields DEF IInv, OrderInv
  <2> HIDE DEF Below
  <2> QED BY <1>0, <1>1, <1>2, <1>5, <2>2, <2>3 DEF IInv, OrderInv
<1>9. BuildInv' /\ SlotsInv'
  BY <1>0, <1>5 DEF IInv, BuildInv, SlotsInv, Started, Whole
<1>10. QueryInv'
  BY <1>0 DEF IInv, QueryInv, FloorsHold, Below
<1>11. RebuildInv'
  BY <1>0, <1>1, <1>2 DEF RebuildInv
<1>12. WatchInv' /\ CompactInv'
  BY <1>0, <1>5, NoBuildFields DEF IInv, WatchInv, CompactInv
<1>13. MaxHandles = 1 => OneInv'
  <2> SUFFICES ASSUME MaxHandles = 1 PROVE OneInv'
    OBVIOUS
  <2>1. \A p \in Path : Applied(p)' <=> Applied(p)
    BY <1>0, <1>5, Versions DEF Applied, Unapplied
  <2> QED BY <1>0, <1>1, <1>2, <2>1 DEF IInv, OneInv
<1> QED BY <1>6, <1>7, <1>8, <1>9, <1>10, <1>11, <1>12, <1>13 DEF IInv

\* Attach: the new watcher has seen nothing yet.
LEMMA AttachStep ==
    ASSUME IInv, Attach
    PROVE  IInv'
<1> DEFINE b == build.h
<1>0. /\ fs' = fs /\ disk' = disk /\ wal' = wal /\ up' = up /\ entry' = entry
      /\ handles' = handles /\ shards' = shards /\ overlay' = overlay
      /\ net' = net /\ fresh' = fresh /\ reload' = reload /\ query' = query
      /\ missed' = missed /\ rebuilt' = rebuilt /\ undone' = undone
  BY DEF Attach, history
<1>1. /\ build.pc = "attach" /\ build.kind = "demand" /\ b = handles /\ b \in Handle
      /\ watcher[b] = Idle /\ build' = NoBuild /\ fresh = NoEntry /\ up
      /\ \A g \in Handle : watcher[g].pc # "compacting"
  BY DEF Attach, IInv, ControlInv, TypeInv, BuildRec
<1> HIDE DEF b
<1>2. /\ watcher' \in [Handle -> WatcherRec]
      /\ \A g \in Handle :
           /\ watcher'[g].chan = watcher[g].chan /\ watcher'[g].batch = watcher[g].batch
           /\ watcher'[g].recs = watcher[g].recs
           /\ watcher'[g].pc # "compacting"
           /\ g # b => watcher'[g] = watcher[g]
           /\ g = b => watcher'[g].pc \in {"off", "starting"}
  <2> DEFINE w == [Idle EXCEPT !.pc = "starting"]
  <2>1. watcher \in [Handle -> WatcherRec]
    BY DEF IInv, TypeInv
  <2>2. watcher' = IF Watch THEN [watcher EXCEPT ![b] = w] ELSE watcher
    BY <1>1, <2>1 DEF Attach, b
  <2>3. /\ w \in WatcherRec /\ w.pc = "starting" /\ w.chan = Idle.chan
        /\ w.batch = Idle.batch /\ w.recs = Idle.recs
    BY IdleFields, WatcherMoves
  <2> HIDE DEF w
  <2>4. CASE Watch
    <3>1. /\ watcher' \in [Handle -> WatcherRec] /\ watcher'[b] = w
          /\ \A g \in Handle \ {b} : watcher'[g] = watcher[g]
      BY <1>1, <2>2, <2>3, <2>4, WatcherUpdate DEF IInv
    <3> QED BY <1>1, <2>3, <3>1
  <2>5. CASE ~Watch
    BY <1>1, <2>1, <2>2, <2>5, IdleFields
  <2> QED BY <2>4, <2>5
<1>3. TypeInv'
  BY <1>0, <1>2, <1>1, NoBuildFields DEF IInv, TypeInv
<1>4. ControlInv'
  <2>1. \A g \in Handle : g > handles => watcher'[g] = Idle
    <3>1. \A g \in Handle : g > handles => watcher[g] = Idle /\ g # b
      BY <1>1, Versions DEF IInv, ControlInv
    <3> QED BY <1>2, <3>1
  <2> QED BY <1>0, <1>1, <1>2, <2>1, NoBuildFields DEF IInv, ControlInv
<1>5. OrderInv'
  <2>1. Below(NoVersions, fs)
    BY Versions DEF Below, IInv, TypeInv, Cold, Layer
  <2> HIDE DEF Below
  <2> QED BY <1>0, <1>1, <1>2, <2>1, Versions, NoBuildFields DEF IInv, OrderInv
<1>6. BuildInv' /\ SlotsInv'
  BY <1>0, <1>1, NoBuildFields DEF IInv, BuildInv, SlotsInv, Started, Whole
<1>7. QueryInv' /\ RebuildInv'
  BY <1>0 DEF IInv, QueryInv, FloorsHold, RebuildInv, Below
<1>8. WatchInv' /\ CompactInv'
  <2>1. watcher[b].batch = {} /\ watcher[b].recs = NoVersions /\ watcher[b].chan = {}
    BY <1>1, IdleFields
  <2> QED BY <1>0, <1>1, <1>2, <2>1, NoBuildFields DEF IInv, WatchInv, CompactInv
<1>9. MaxHandles = 1 => OneInv'
  <2> SUFFICES ASSUME MaxHandles = 1 PROVE OneInv'
    OBVIOUS
  <2>1. \A p \in Path : Applied(p)' <=> Applied(p)
    BY <1>0, <1>2, Versions DEF Applied, Unapplied
  <2>2. ~Swapping /\ ~Swapping'
    BY <1>1, NoBuildFields DEF Swapping
  <2> QED BY <1>0, <2>1, <2>2 DEF IInv, OneInv
<1> QED BY <1>3, <1>4, <1>5, <1>6, <1>7, <1>8, <1>9 DEF IInv

-----------------------------------------------------------------------------
(* The invariant is kept: reloads, the end of the process, queries *)

\* A step of the registry watcher that does not store anything.
LEMMA ReloadLoadStep ==
    ASSUME IInv, ReloadOpen \/ ReloadReuse
    PROVE  IInv'
<1>0. /\ fs' = fs /\ disk' = disk /\ wal' = wal /\ up' = up /\ entry' = entry
      /\ handles' = handles /\ shards' = shards /\ overlay' = overlay /\ watcher' = watcher
      /\ net' = net /\ build' = build /\ fresh' = fresh /\ query' = query
      /\ missed' = missed /\ rebuilt' = rebuilt /\ undone' = undone
  BY DEF ReloadOpen, ReloadReuse, history
<1>1. /\ reload' \in ReloadRec /\ up /\ reload'.pc # "idle"
      /\ reload'.db \in ColdLayer /\ Below(reload'.db, disk.db)
      /\ reload'.pc = "store" => reload'.h \in 1..handles
  <2>1. CASE ReloadOpen
    <3>1. reload' = [pc |-> "load", db |-> disk.db, h |-> 0] /\ up
      BY <2>1 DEF ReloadOpen
    <3>2. disk.db \in ColdLayer /\ disk.db \in Layer /\ Below(disk.db, disk.db)
      BY DEF IInv, TypeInv, ColdLayer, Layer, Below
    <3> QED BY <3>1, <3>2 DEF ReloadRec
  <2>2. CASE ReloadReuse
    <3>1. /\ reload.pc = "load" /\ reload' = [reload EXCEPT !.pc = "store", !.h = entry.h]
          /\ reload \in ReloadRec /\ entry.h \in Handle /\ entry.h \in 1..handles
          /\ reload.db \in ColdLayer /\ Below(reload.db, disk.db) /\ up
      BY <2>2, UsedHandles DEF ReloadReuse, IInv, TypeInv, EntryRec, OrderInv, ControlInv
    <3>2. /\ reload' \in ReloadRec /\ reload'.pc = "store" /\ reload'.db = reload.db
          /\ reload'.h = entry.h
      BY <3>1 DEF ReloadRec
    <3> QED BY <3>1, <3>2
  <2> QED BY <2>1, <2>2
<1>2. TypeInv'
  BY <1>0, <1>1 DEF IInv, TypeInv
<1>3. ControlInv'
  BY <1>0, <1>1 DEF IInv, ControlInv
<1>4. OrderInv'
  <2> HIDE DEF Below
  <2> QED BY <1>0, <1>1 DEF IInv, OrderInv
<1>5. BuildInv' /\ SlotsInv'
  BY <1>0 DEF IInv, BuildInv, SlotsInv
<1>6. QueryInv' /\ RebuildInv' /\ WatchInv' /\ CompactInv'
  BY <1>0 DEF IInv, QueryInv, FloorsHold, RebuildInv, Below, WatchInv, CompactInv
<1>7. MaxHandles = 1 => OneInv'
  BY <1>0 DEF IInv, OneInv, Applied, Unapplied, Swapping
<1> QED BY <1>2, <1>3, <1>4, <1>5, <1>6, <1>7 DEF IInv

\* ReloadStore: if the reader it stores is not older, it is the one it replaces
\* wherever that one was current.
LEMMA ReloadStoreStep ==
    ASSUME IInv, ReloadStore
    PROVE  IInv'
<1>0. /\ fs' = fs /\ disk' = disk /\ wal' = wal /\ up' = up
      /\ handles' = handles /\ shards' = shards /\ overlay' = overlay /\ watcher' = watcher
      /\ net' = net /\ build' = build /\ fresh' = fresh /\ query' = query
      /\ missed' = missed /\ rebuilt' = rebuilt
  BY DEF ReloadStore
<1>1. /\ reload.pc = "store" /\ entry' = [db |-> reload.db, h |-> reload.h]
      /\ reload' = NoReload
      /\ undone' = (undone \/ reload.h # entry.h \/ \E p \in Path : reload.db[p] < entry.db[p])
  BY DEF ReloadStore
<1>2. reload.db \in ColdLayer /\ Below(reload.db, disk.db)
  BY <1>1 DEF IInv, OrderInv
<1>3. reload.h \in Handle /\ reload.h \in 1..handles /\ handles \in Nat
  BY <1>1, UsedHandles
<1>4. /\ entry' \in EntryRec /\ entry'.db = reload.db /\ entry'.h = reload.h
  BY <1>1, <1>2, <1>3 DEF EntryRec
<1>5. NoReload \in ReloadRec /\ NoReload.pc = "idle"
  BY Versions DEF NoReload, ReloadRec
<1>6. undone' \in BOOLEAN /\ undone \in BOOLEAN
  BY <1>1 DEF IInv, TypeInv
<1>7. ASSUME ~undone'
      PROVE  /\ ~undone /\ reload.h = entry.h
             /\ \A p \in Path : entry.db[p] = fs[p] => reload.db[p] = fs[p]
  <2>1. ~undone /\ reload.h = entry.h /\ \A p \in Path : ~(reload.db[p] < entry.db[p])
    BY <1>1, <1>7
  <2>2. \A p \in Path : /\ reload.db[p] \in Nat /\ entry.db[p] \in Nat /\ disk.db[p] \in Nat
                        /\ fs[p] \in Nat /\ reload.db[p] <= disk.db[p] /\ disk.db[p] <= fs[p]
    BY <1>2 DEF IInv, TypeInv, EntryRec, OrderInv, Below, ColdLayer, Cold, Layer
  <2> QED BY <2>1, <2>2
<1>8. TypeInv'
  BY <1>0, <1>1, <1>4, <1>5, <1>6 DEF IInv, TypeInv
<1>9. ControlInv'
  <2>1. up /\ reload.h <= handles
    BY <1>1, <1>3 DEF IInv, ControlInv
  <2> QED BY <1>0, <1>1, <1>4, <1>5, <2>1 DEF IInv, ControlInv
<1>10. OrderInv'
  <2> HIDE DEF Below
  <2> QED BY <1>0, <1>1, <1>2, <1>4, <1>5 DEF IInv, OrderInv
<1>11. BuildInv' /\ SlotsInv'
  BY <1>0 DEF IInv, BuildInv, SlotsInv
<1>12. QueryInv' /\ WatchInv' /\ CompactInv'
  BY <1>0 DEF IInv, QueryInv, FloorsHold, Below, WatchInv, CompactInv
<1>13. RebuildInv'
  <2>1. rebuilt \subseteq Path
    BY DEF IInv, TypeInv
  <2> QED BY <1>0, <1>4, <1>7, <2>1 DEF IInv, RebuildInv
<1>14. MaxHandles = 1 => OneInv'
  <2> SUFFICES ASSUME MaxHandles = 1 PROVE OneInv'
    OBVIOUS
  <2>1. \A p \in Path : Applied(p)' <=> Applied(p)
    BY <1>0 DEF Applied, Unapplied
  <2>2. Swapping' <=> Swapping
    BY <1>0 DEF Swapping
  <2> QED BY <1>0, <1>4, <1>6, <1>7, <2>1, <2>2 DEF IInv, OneInv
<1> QED BY <1>8, <1>9, <1>10, <1>11, <1>12, <1>13, <1>14 DEF IInv

\* Crash: what df-watch had not applied is missed, nothing else is lost.
LEMMA CrashStep ==
    ASSUME IInv, Crash
    PROVE  IInv'
<1>0. /\ fs' = fs /\ disk' = disk /\ wal' = wal /\ entry' = entry
      /\ handles' = handles /\ shards' = shards /\ overlay' = overlay /\ undone' = undone
  BY DEF Crash
<1>1. /\ up' = FALSE /\ watcher' = [h \in Handle |-> Idle] /\ net' = 0 /\ build' = NoBuild
      /\ fresh' = NoEntry /\ reload' = NoReload /\ query' = NoQuery /\ rebuilt' = {}
      /\ missed' = missed \cup {p \in Path : \E h \in Handle : Unapplied(h, p)}
  BY DEF Crash
<1>2. NoEntry \in FreshRec /\ NoReload \in ReloadRec /\ NoReload.pc = "idle"
  BY Versions DEF NoEntry, FreshRec, NoReload, ReloadRec
<1>3. /\ NoQuery \in QueryRec /\ NoQuery.pc = "idle"
      /\ NoQuery.db = NoVersions /\ NoQuery.ct = NoVersions
  BY Versions DEF NoQuery, QueryRec
<1>4. /\ watcher' \in [Handle -> WatcherRec]
      /\ \A h \in Handle : watcher'[h] = Idle
  BY <1>1, IdleFields
<1>5. Below(NoVersions, fs)
  BY Versions DEF Below, IInv, TypeInv, Cold, Layer
<1>6. TypeInv'
  <2>1. missed' \in SUBSET Path
    BY <1>1 DEF IInv, TypeInv
  <2> QED BY <1>0, <1>1, <1>2, <1>3, <1>4, <2>1, NoBuildFields DEF IInv, TypeInv
<1>7. ControlInv'
  <2>1. 0 <= handles
    BY Versions DEF IInv, TypeInv
  <2> QED BY <1>0, <1>1, <1>2, <1>3, <1>4, <2>1, IdleFields, NoBuildFields
       DEF IInv, ControlInv
<1>8. OrderInv'
  <2> HIDE DEF Below
  <2> QED BY <1>0, <1>1, <1>2, <1>4, <1>5, Versions, IdleFields, NoBuildFields DEF IInv, OrderInv
<1>9. BuildInv' /\ SlotsInv'
  BY <1>0, <1>1, NoBuildFields DEF IInv, BuildInv, SlotsInv, Started, Whole
<1>10. QueryInv'
  <2>1. \A p \in Path : FloorsHold(p)'
    BY <1>1, <1>3 DEF FloorsHold
  <2> HIDE DEF Below
  <2> QED BY <1>0, <1>1, <1>3, <1>5, <2>1 DEF QueryInv
<1>11. RebuildInv' /\ CompactInv'
  BY <1>1, NoBuildFields DEF RebuildInv, CompactInv
<1>12. WatchInv'
  BY <1>4, IdleFields, Versions DEF WatchInv
<1>13. MaxHandles = 1 => OneInv'
  <2> SUFFICES ASSUME MaxHandles = 1 PROVE OneInv'
    OBVIOUS
  <2>1. \A p \in Path : Applied(p)' => Applied(p)
    BY <1>1, Versions DEF Applied
  <2> QED BY <1>0, <1>1, <2>1 DEF IInv, OneInv
<1> QED BY <1>6, <1>7, <1>8, <1>9, <1>10, <1>11, <1>12, <1>13 DEF IInv

\* Restart: the cold files as they are, and the log replayed.
LEMMA RestartStep ==
    ASSUME IInv, Restart
    PROVE  IInv'
<1>0. /\ fs' = fs /\ disk' = disk /\ wal' = wal /\ net' = net /\ build' = build
      /\ fresh' = fresh /\ reload' = reload /\ query' = query
      /\ missed' = missed /\ rebuilt' = rebuilt
  BY DEF Restart
<1>1. /\ ~up /\ up' = TRUE /\ entry' = [db |-> disk.db, h |-> 1] /\ handles' = 1
      /\ shards' = [h \in Handle |-> disk.shards]
      /\ overlay' = [h \in Handle |-> IF h = 1 THEN wal ELSE EmptyOverlay]
      /\ undone' = FALSE
  BY DEF Restart
<1>2. /\ build.kind = "none" /\ build.pc = "done" /\ reload.pc = "idle" /\ query.pc = "idle"
      /\ net = 0 /\ rebuilt = {} /\ \A h \in Handle : watcher[h] = Idle
  BY <1>1 DEF IInv, ControlInv
<1>3. /\ watcher' \in [Handle -> WatcherRec]
      /\ \A g \in Handle :
           /\ watcher'[g].chan = {} /\ watcher'[g].batch = {} /\ watcher'[g].recs = NoVersions
           /\ watcher'[g].pc \in {"off", "starting"}
           /\ g # 1 => watcher'[g] = Idle
  <2> DEFINE w == [Idle EXCEPT !.pc = "starting"]
  <2>1. watcher \in [Handle -> WatcherRec] /\ 1 \in Handle
    BY Versions DEF IInv, TypeInv
  <2>2. watcher' = IF Watch THEN [watcher EXCEPT ![1] = w] ELSE watcher
    BY <1>2, <2>1 DEF Restart
  <2>3. /\ w \in WatcherRec /\ w.pc = "starting" /\ w.chan = {}
        /\ w.batch = {} /\ w.recs = NoVersions
    BY IdleFields, WatcherMoves
  <2> HIDE DEF w
  <2>4. CASE Watch
    <3>1. /\ watcher' \in [Handle -> WatcherRec] /\ watcher'[1] = w
          /\ \A g \in Handle \ {1} : watcher'[g] = watcher[g]
      BY <2>1, <2>2, <2>3, <2>4, WatcherUpdate DEF IInv
    <3> QED BY <1>2, <2>3, <3>1, IdleFields
  <2>5. CASE ~Watch
    BY <1>2, <2>1, <2>2, <2>5, IdleFields
  <2> QED BY <2>4, <2>5
<1>4. /\ disk.db \in ColdLayer /\ disk.shards \in ColdLayer /\ wal \in OverlayRec
  BY DEF IInv, TypeInv
<1>5. entry' \in EntryRec /\ entry'.db = disk.db /\ entry'.h = 1
  BY <1>1, <1>4, Versions DEF EntryRec
<1>6. /\ EmptyOverlay \in OverlayRec /\ EmptyOverlay.ver = NoVersions /\ EmptyOverlay.slots = {}
      /\ Below(NoVersions, fs)
  BY Versions DEF EmptyOverlay, OverlayRec, Below, IInv, TypeInv, Cold, Layer
<1>7. /\ shards' \in [Handle -> ColdLayer] /\ \A h \in Handle : shards'[h] = disk.shards
      /\ overlay' \in [Handle -> OverlayRec] /\ overlay'[1] = wal
      /\ \A h \in Handle : overlay'[h] \in {wal, EmptyOverlay}
  BY <1>1, <1>4, <1>6, Versions
<1>8. TypeInv'
  BY <1>0, <1>1, <1>3, <1>5, <1>7, Versions DEF IInv, TypeInv
<1>9. ControlInv'
  <2>1. \A h \in Handle : h > 1 => watcher'[h] = Idle
    BY <1>3, Versions
  <2> QED BY <1>0, <1>1, <1>2, <1>3, <1>5, <2>1 DEF IInv, ControlInv
<1>10. OrderInv'
  <2>1. Below(disk.db, disk.db) /\ Below(disk.shards, disk.shards)
    BY <1>4 DEF Below, ColdLayer
  <2>2. Below(wal.ver, fs)
    BY DEF IInv, OrderInv
  <2>3. \A h \in Handle : /\ Below(shards'[h], disk.shards) /\ Below(overlay'[h].ver, fs)
                          /\ Below(watcher'[h].recs, fs)
    BY <1>3, <1>6, <1>7, <2>1, <2>2
  <2> HIDE DEF Below
  <2> QED BY <1>0, <1>5, <2>1, <2>3 DEF IInv, OrderInv
<1>11. BuildInv' /\ SlotsInv'
  <2>1. \A h \in Handle : overlay'[h].slots \subseteq {p \in Path : overlay'[h].ver[p] # 0}
    BY <1>6, <1>7 DEF IInv, SlotsInv
  <2> QED BY <1>0, <1>2, <2>1 DEF IInv, BuildInv, SlotsInv, Started, Whole
<1>12. QueryInv'
  <2>1. \A p \in Path : FloorsHold(p)'
    BY <1>0, <1>2 DEF FloorsHold
  <2> QED BY <1>0, <2>1 DEF IInv, QueryInv
<1>13. RebuildInv' /\ CompactInv'
  BY <1>0, <1>2 DEF RebuildInv, CompactInv
<1>14. WatchInv'
  BY <1>3, Versions DEF WatchInv
<1>15. MaxHandles = 1 => OneInv'
  <2> SUFFICES ASSUME MaxHandles = 1 PROVE OneInv'
    OBVIOUS
  <2>1. \A p \in Path : Applied(p)' => Applied(p)
    BY <1>0, <1>2, IdleFields, Versions DEF Applied, Unapplied
  <2> QED BY <1>0, <1>5, <1>7, <2>1, Versions DEF IInv, OneInv
<1> QED BY <1>8, <1>9, <1>10, <1>11, <1>12, <1>13, <1>14, <1>15 DEF IInv

\* A step of the query reads and changes nothing else.
LEMMA QueryOnly ==
    ASSUME IInv,
           UNCHANGED <<fs, disk, wal, up, entry, handles, shards, overlay, watcher, net,
                       build, fresh, reload, history>>,
           query' \in QueryRec, QueryInv',
           query'.pc # "idle" => query'.h \in 1..handles, query'.pc # "idle" => up
    PROVE  IInv'
<1>0. /\ fs' = fs /\ disk' = disk /\ wal' = wal /\ up' = up /\ entry' = entry
      /\ handles' = handles /\ shards' = shards /\ overlay' = overlay /\ watcher' = watcher
      /\ net' = net /\ build' = build /\ fresh' = fresh /\ reload' = reload
      /\ missed' = missed /\ rebuilt' = rebuilt /\ undone' = undone
  BY DEF history
<1>1. TypeInv'
  BY <1>0 DEF IInv, TypeInv
<1>2. ControlInv'
  BY <1>0 DEF IInv, ControlInv
<1>3. OrderInv' /\ BuildInv' /\ SlotsInv'
  BY <1>0 DEF IInv, OrderInv, Below, BuildInv, SlotsInv
<1>4. RebuildInv' /\ WatchInv' /\ CompactInv'
  BY <1>0 DEF IInv, RebuildInv, WatchInv, CompactInv
<1>5. MaxHandles = 1 => OneInv'
  BY <1>0 DEF IInv, OneInv, Applied, Unapplied, Swapping
<1> QED BY <1>1, <1>2, <1>3, <1>4, <1>5 DEF IInv

\* The versions a query can meet are numbers that are not ahead of the files.
LEMMA ReadVersions ==
    ASSUME IInv, NEW h \in Handle, NEW p \in Path
    PROVE  /\ overlay[h].ver[p] \in Nat /\ overlay[h].ver[p] <= fs[p]
           /\ shards[h][p] \in Nat /\ shards[h][p] <= fs[p]
           /\ entry.db[p] \in Nat /\ entry.db[p] <= fs[p]
           /\ query.db[p] \in Nat /\ query.ct[p] \in Nat
           /\ query.db[p] <= fs[p] /\ query.ct[p] <= fs[p] /\ fs[p] \in Nat
           /\ query.fnFloor[p] \in Nat /\ query.ctFloor[p] \in Nat
<1>1. /\ overlay[h].ver[p] \in Nat /\ shards[h][p] \in Nat /\ entry.db[p] \in Nat
      /\ disk.db[p] \in Nat /\ disk.shards[p] \in Nat /\ fs[p] \in Nat
  <2>1. overlay[h] \in OverlayRec /\ shards[h] \in ColdLayer
    BY DEF IInv, TypeInv
  <2> QED BY <2>1 DEF IInv, TypeInv, OverlayRec, ColdLayer, EntryRec, Cold, Layer
<1>2. /\ query.db[p] \in Nat /\ query.ct[p] \in Nat
      /\ query.fnFloor[p] \in Nat /\ query.ctFloor[p] \in Nat
  BY DEF IInv, TypeInv, QueryRec, Layer
<1>3. /\ overlay[h].ver[p] <= fs[p] /\ shards[h][p] <= disk.shards[p]
      /\ disk.shards[p] <= fs[p] /\ entry.db[p] <= disk.db[p] /\ disk.db[p] <= fs[p]
  BY DEF IInv, OrderInv, Below
<1>4. query.db[p] <= fs[p] /\ query.ct[p] <= fs[p]
  BY DEF IInv, QueryInv, Below
<1> QED BY <1>1, <1>2, <1>3, <1>4

\* QueryPin: the floors are what would be answered now.
LEMMA QueryPinStep ==
    ASSUME IInv, QueryPin
    PROVE  IInv'
<1>0. /\ UNCHANGED <<fs, disk, wal, up, entry, handles, shards, overlay, watcher, net,
                     build, fresh, reload, history>>
      /\ fs' = fs /\ shards' = shards /\ overlay' = overlay /\ up
  BY DEF QueryPin
<1> DEFINE fn == [p \in Path |-> FilenameView(p)]
           ct == [p \in Path |-> ContentView(p)]
<1>1. query' = [pc |-> "content", db |-> entry.db, ct |-> NoVersions, h |-> entry.h,
                fnFloor |-> fn, ctFloor |-> ct, cleared |-> FALSE]
  BY DEF QueryPin
<1>2. entry.h \in Handle /\ entry.h \in 1..handles /\ entry.db \in Layer
  BY UsedHandles DEF IInv, TypeInv, EntryRec, ColdLayer, Layer
<1>3. \A p \in Path : /\ overlay[entry.h].ver[p] \in Nat /\ shards[entry.h][p] \in Nat
                      /\ entry.db[p] \in Nat /\ entry.db[p] <= fs[p] /\ fs[p] \in Nat
  BY <1>2, ReadVersions
<1>4. \A p \in Path :
         /\ fn[p] = IF overlay[entry.h].ver[p] # 0 THEN overlay[entry.h].ver[p] ELSE entry.db[p]
         /\ ct[p] = IF overlay[entry.h].ver[p] # 0 THEN overlay[entry.h].ver[p]
                                                   ELSE shards[entry.h][p]
         /\ fn[p] \in Nat /\ ct[p] \in Nat
  BY <1>3 DEF FilenameView, ContentView, Merged
<1>5. fn \in Layer /\ ct \in Layer
  <2>1. fn = [p \in Path |-> fn[p]] /\ ct = [p \in Path |-> ct[p]]
    OBVIOUS
  <2> HIDE DEF fn, ct
  <2> QED BY <1>4, <2>1 DEF Layer
<1> HIDE DEF fn, ct
<1>6. /\ query' \in QueryRec /\ query'.pc = "content" /\ query'.db = entry.db
      /\ query'.ct = NoVersions /\ query'.h = entry.h /\ query'.fnFloor = fn
      /\ query'.ctFloor = ct
  BY <1>1, <1>2, <1>5, Versions DEF QueryRec
<1>7. QueryInv'
  <2>1. ASSUME NEW p \in Path PROVE FloorsHold(p)'
    BY <1>0, <1>3, <1>4, <1>6 DEF FloorsHold
  <2>2. Below(query'.db, fs) /\ Below(query'.ct, fs)
    BY <1>3, <1>6, Versions DEF Below
  <2> HIDE DEF Below
  <2> QED BY <1>0, <2>1, <2>2 DEF QueryInv
<1> QED BY <1>0, <1>2, <1>6, <1>7, QueryOnly

\* QueryContent: the shards are what they were at the floor, or newer.
LEMMA QueryContentStep ==
    ASSUME IInv, QueryContent
    PROVE  IInv'
<1>0. /\ UNCHANGED <<fs, disk, wal, up, entry, handles, shards, overlay, watcher, net,
                     build, fresh, reload, history>>
      /\ fs' = fs /\ shards' = shards /\ overlay' = overlay
  BY DEF QueryContent
<1>1. /\ query.pc = "content" /\ query' = [query EXCEPT !.pc = "overlay", !.ct = shards[query.h]]
      /\ query \in QueryRec
  BY DEF QueryContent, IInv, TypeInv
<1>2. query.h \in Handle /\ query.h \in 1..handles /\ up
  BY <1>1, UsedHandles DEF IInv, ControlInv
<1>3. shards[query.h] \in Layer
  BY <1>2 DEF IInv, TypeInv, ColdLayer, Layer
<1>4. /\ query' \in QueryRec /\ query'.pc = "overlay" /\ query'.db = query.db
      /\ query'.ct = shards[query.h] /\ query'.h = query.h /\ query'.fnFloor = query.fnFloor
      /\ query'.ctFloor = query.ctFloor /\ query'.cleared = query.cleared
  BY <1>1, <1>3 DEF QueryRec
<1>5. QueryInv'
  <2>1. ~query.cleared => \A p \in Path : FloorsHold(p)'
    BY <1>0, <1>1, <1>4 DEF IInv, QueryInv, FloorsHold
  <2>2. Below(query'.db, fs) /\ Below(query'.ct, fs)
    BY <1>2, <1>4, ReadVersions DEF Below
  <2> HIDE DEF Below
  <2> QED BY <1>0, <1>4, <2>1, <2>2 DEF QueryInv
<1> QED BY <1>0, <1>2, <1>4, <1>5, QueryOnly

\* QueryOverlay: an overlay entry is not below the floors either.
LEMMA QueryOverlayStep ==
    ASSUME IInv, QueryOverlay
    PROVE  IInv'
<1>0. /\ UNCHANGED <<fs, disk, wal, up, entry, handles, shards, overlay, watcher, net,
                     build, fresh, reload, history>>
      /\ fs' = fs /\ shards' = shards /\ overlay' = overlay
  BY DEF QueryOverlay
<1> DEFINE o == overlay[query.h]
           db == [p \in Path |-> Merged(o, query.db, p)]
           ct == [p \in Path |-> Merged(o, query.ct, p)]
<1>1. /\ query.pc = "overlay" /\ query' = [query EXCEPT !.pc = "done", !.db = db, !.ct = ct]
      /\ query \in QueryRec
  BY DEF QueryOverlay, IInv, TypeInv
<1>2. query.h \in Handle /\ query.h \in 1..handles /\ up
  BY <1>1, UsedHandles DEF IInv, ControlInv
<1>3. \A p \in Path : /\ o.ver[p] \in Nat /\ query.db[p] \in Nat /\ query.ct[p] \in Nat
                      /\ o.ver[p] <= fs[p] /\ query.db[p] <= fs[p] /\ query.ct[p] <= fs[p]
  BY <1>2, ReadVersions
<1>4. \A p \in Path : /\ db[p] = IF o.ver[p] # 0 THEN o.ver[p] ELSE query.db[p]
                      /\ ct[p] = IF o.ver[p] # 0 THEN o.ver[p] ELSE query.ct[p]
                      /\ db[p] \in Nat /\ ct[p] \in Nat
                      /\ db[p] <= fs[p] /\ ct[p] <= fs[p]
  BY <1>3 DEF Merged
<1>5. db \in Layer /\ ct \in Layer
  <2>1. db = [p \in Path |-> db[p]] /\ ct = [p \in Path |-> ct[p]]
    OBVIOUS
  <2> HIDE DEF db, ct
  <2> QED BY <1>4, <2>1 DEF Layer
<1> HIDE DEF db, ct
<1>6. /\ query' \in QueryRec /\ query'.pc = "done" /\ query'.db = db
      /\ query'.ct = ct /\ query'.h = query.h /\ query'.fnFloor = query.fnFloor
      /\ query'.ctFloor = query.ctFloor /\ query'.cleared = query.cleared
  BY <1>1, <1>5 DEF QueryRec
<1>7. QueryInv'
  <2>1. ASSUME ~query.cleared, NEW p \in Path PROVE FloorsHold(p)'
    <3>1. FloorsHold(p)
      BY <2>1 DEF IInv, QueryInv
    <3> QED BY <1>0, <1>1, <1>4, <1>6, <3>1 DEF FloorsHold
  <2>2. Below(query'.db, fs) /\ Below(query'.ct, fs)
    BY <1>4, <1>6 DEF Below
  <2> HIDE DEF Below
  <2> QED BY <1>0, <1>6, <2>1, <2>2 DEF QueryInv
<1> QED BY <1>0, <1>2, <1>6, <1>7, QueryOnly

\* QueryReply: nothing is promised about a query that is over.
LEMMA QueryReplyStep ==
    ASSUME IInv, QueryReply
    PROVE  IInv'
<1>0. /\ UNCHANGED <<fs, disk, wal, up, entry, handles, shards, overlay, watcher, net,
                     build, fresh, reload, history>>
      /\ fs' = fs /\ query' = NoQuery
  BY DEF QueryReply
<1>1. /\ NoQuery \in QueryRec /\ NoQuery.pc = "idle"
      /\ NoQuery.db = NoVersions /\ NoQuery.ct = NoVersions
  BY Versions DEF NoQuery, QueryRec
<1>2. QueryInv'
  <2>1. \A p \in Path : FloorsHold(p)'
    BY <1>0, <1>1 DEF FloorsHold
  <2>2. Below(NoVersions, fs)
    BY Versions DEF Below, IInv, TypeInv, Cold, Layer
  <2> HIDE DEF Below
  <2> QED BY <1>0, <1>1, <2>1, <2>2 DEF QueryInv
<1> QED BY <1>0, <1>1, <1>2, QueryOnly

-----------------------------------------------------------------------------
(* The theorems *)

\* A daemon up on an index that nothing has changed under.
LEMMA InitIInv ==
    ASSUME Init
    PROVE  IInv
<1>1. /\ fs = [p \in Path |-> 1] /\ disk = [db |-> fs, shards |-> fs] /\ wal = EmptyOverlay
      /\ up = TRUE /\ entry = [db |-> fs, h |-> 1] /\ handles = 1
      /\ shards = [h \in Handle |-> fs] /\ overlay = [h \in Handle |-> EmptyOverlay]
      /\ net = 0 /\ build = NoBuild /\ fresh = NoEntry /\ reload = NoReload /\ query = NoQuery
      /\ missed = {} /\ rebuilt = {} /\ undone = FALSE
  BY DEF Init
<1>2. /\ \A p \in Path : fs[p] = 1
      /\ fs \in ColdLayer /\ fs \in Cold /\ fs \in Layer /\ Below(fs, fs)
  <2>1. \A p \in Path : fs[p] = 1 /\ fs[p] \in Version(p)
    BY <1>1, Versions DEF Version
  <2>2. fs \in ColdLayer /\ fs \in Layer
    BY <1>1 DEF ColdLayer, Layer
  <2> QED BY <2>1, <2>2 DEF Cold, Below
<1>3. /\ EmptyOverlay \in OverlayRec /\ EmptyOverlay.ver = NoVersions /\ EmptyOverlay.slots = {}
      /\ Below(NoVersions, fs)
  BY <1>2, Versions DEF EmptyOverlay, OverlayRec, Below
<1>4. /\ NoEntry \in FreshRec /\ NoReload \in ReloadRec /\ NoReload.pc = "idle"
  BY Versions DEF NoEntry, FreshRec, NoReload, ReloadRec
<1>5. /\ NoQuery \in QueryRec /\ NoQuery.pc = "idle"
      /\ NoQuery.db = NoVersions /\ NoQuery.ct = NoVersions
  BY Versions DEF NoQuery, QueryRec
<1>6. /\ disk \in [db : ColdLayer, shards : ColdLayer] /\ disk.db = fs /\ disk.shards = fs
      /\ entry \in EntryRec /\ entry.db = fs /\ entry.h = 1
  BY <1>1, <1>2, Versions DEF EntryRec
<1>7. /\ shards \in [Handle -> ColdLayer] /\ \A h \in Handle : shards[h] = fs
      /\ overlay \in [Handle -> OverlayRec] /\ \A h \in Handle : overlay[h] = EmptyOverlay
  BY <1>1, <1>2, <1>3
<1>8. /\ watcher \in [Handle -> WatcherRec]
      /\ \A h \in Handle :
           /\ watcher[h].chan = {} /\ watcher[h].batch = {} /\ watcher[h].recs = NoVersions
           /\ watcher[h].pc \in {"off", "idle"}
           /\ h # 1 => watcher[h] = Idle
  <2> DEFINE w == [Idle EXCEPT !.pc = "idle"]
  <2>1. watcher = [h \in Handle |-> IF Watch /\ h = 1 THEN w ELSE Idle]
    BY DEF Init
  <2>2. /\ w \in WatcherRec /\ w.pc = "idle" /\ w.chan = {} /\ w.batch = {}
        /\ w.recs = NoVersions
    BY IdleFields, WatcherMoves
  <2> HIDE DEF w
  <2> QED BY <2>1, <2>2, IdleFields
<1>9. TypeInv
  BY <1>1, <1>2, <1>3, <1>4, <1>5, <1>6, <1>7, <1>8, Versions, NoBuildFields DEF TypeInv
<1>10. ControlInv
  <2>1. \A h \in Handle : h > handles => watcher[h] = Idle
    <3>1. \A h \in Handle : h > 1 => h # 1
      BY Versions
    <3> QED BY <1>1, <1>8, <3>1
  <2> QED BY <1>1, <1>4, <1>5, <1>6, <1>8, <2>1, NoBuildFields DEF ControlInv
<1>11. OrderInv
  <2> HIDE DEF Below
  <2> QED BY <1>1, <1>2, <1>3, <1>4, <1>6, <1>7, <1>8, Versions, NoBuildFields DEF OrderInv
<1>12. BuildInv /\ SlotsInv
  BY <1>1, <1>3, <1>7, NoBuildFields DEF BuildInv, SlotsInv, Started, Whole
<1>13. QueryInv
  <2>1. \A p \in Path : FloorsHold(p)
    BY <1>1, <1>5 DEF FloorsHold
  <2> HIDE DEF Below
  <2> QED BY <1>1, <1>3, <1>5, <2>1 DEF QueryInv
<1>14. RebuildInv /\ WatchInv /\ CompactInv
  BY <1>1, <1>8, Versions, NoBuildFields DEF RebuildInv, WatchInv, CompactInv
<1>15. OneInv
  BY <1>1, <1>3, <1>6, <1>7, Versions DEF OneInv
<1> QED BY <1>9, <1>10, <1>11, <1>12, <1>13, <1>14, <1>15 DEF IInv

\* Every step keeps it: one lemma per action.
LEMMA NextIInv ==
    ASSUME IInv, [Next]_vars
    PROVE  IInv'
<1>1. ASSUME NEW p \in Path, Change(p) PROVE IInv'
  BY <1>1, ChangeStep
<1>2. ASSUME NEW h \in Handle, WatcherNext(h) PROVE IInv'
  BY <1>2, WatchPcStep, RecvStep, RecordAndApplyStep, BuildRecordStep, StartsStep
     DEF WatcherNext
<1>3. CASE NetWake \/ NetBuild \/ NetSkip \/ StartOnDemand
  BY <1>3, NetStep, StartsStep
<1>4. CASE BuildNext
  <2>1. ASSUME NEW p \in Path, Walk(p) PROVE IInv'
    BY <2>1, WalkStep
  <2> QED BY <1>4, <2>1, WritesStep, ReloadShardsStep, ClearOverlayStep, OpenReusingStep,
             OpenNewStep, StoreStep, AttachStep DEF BuildNext
<1>5. CASE BuildFails
  BY <1>5, BuildFailsStep
<1>6. CASE ReloadOpen \/ ReloadReuse \/ ReloadStore
  BY <1>6, ReloadLoadStep, ReloadStoreStep
<1>7. CASE Crash \/ Restart
  BY <1>7, CrashStep, RestartStep
<1>8. CASE QueryPin \/ QueryContent \/ QueryOverlay \/ QueryReply
  BY <1>8, QueryPinStep, QueryContentStep, QueryOverlayStep, QueryReplyStep
<1>9. CASE UNCHANGED vars
  <2>0. /\ fs' = fs /\ disk' = disk /\ wal' = wal /\ up' = up /\ entry' = entry
        /\ handles' = handles /\ shards' = shards /\ overlay' = overlay /\ watcher' = watcher
        /\ net' = net /\ build' = build /\ fresh' = fresh /\ reload' = reload /\ query' = query
        /\ missed' = missed /\ rebuilt' = rebuilt /\ undone' = undone
    BY <1>9 DEF vars, history
  <2>1. QueryInv'
    BY <2>0 DEF IInv, QueryInv, FloorsHold, Below
  <2>2. UNCHANGED <<fs, disk, wal, up, entry, handles, shards, overlay, watcher, net,
                    build, fresh, reload, history>>
    BY <2>0 DEF history
  <2>3. /\ query' \in QueryRec
        /\ query'.pc # "idle" => query'.h \in 1..handles
        /\ query'.pc # "idle" => up
    BY <2>0 DEF IInv, TypeInv, ControlInv
  <2> QED BY <2>1, <2>2, <2>3, QueryOnly
<1>10. CASE Rest
  BY <1>9, <1>10 DEF Rest
<1> QED BY <1>1, <1>2, <1>3, <1>4, <1>5, <1>6, <1>7, <1>8, <1>9, <1>10 DEF Next

\* The inductive invariant holds in every reachable state of the layers.
THEOREM InvHolds == Spec => []IInv
BY InitIInv, NextIInv, PTL DEF Spec

\* Type correctness: cold files and readers are whole and no layer is ahead of
\* the files, through every step of builds, swaps, reloads and restarts.
THEOREM TypeCorrect == Spec => []TypeOK
<1>1. ASSUME IInv PROVE TypeOK
  <2>1. ASSUME NEW f \in ColdLayer, Below(f, fs) PROVE f \in Cold
    <3>1. \A p \in Path : f[p] \in Nat \ {0} /\ f[p] <= fs[p] /\ fs[p] \in 1..Len(Life[p])
      BY <1>1, <2>1 DEF IInv, TypeInv, ColdLayer, Cold, Version, Below
    <3>2. f \in Layer
      BY <2>1 DEF ColdLayer, Layer
    <3> QED BY <3>1, <3>2, Versions DEF Cold, Version
  <2>2. ASSUME NEW o \in OverlayRec, Below(o.ver, fs),
               o.slots \subseteq {p \in Path : o.ver[p] # 0}
        PROVE  IsOverlay(o)
    <3>1. \A p \in Path : o.ver[p] \in Nat /\ o.ver[p] <= fs[p] /\ fs[p] \in 1..Len(Life[p])
      BY <1>1, <2>2 DEF IInv, TypeInv, OverlayRec, Layer, Cold, Version, Below
    <3>2. o.ver \in Layer
      BY <2>2 DEF OverlayRec
    <3> QED BY <2>2, <3>1, <3>2, Versions DEF IsOverlay
  <2>3. /\ disk.db \in ColdLayer /\ Below(disk.db, fs)
        /\ disk.shards \in ColdLayer /\ Below(disk.shards, fs)
        /\ entry.db \in ColdLayer /\ Below(entry.db, fs)
    <3>1. /\ disk.db \in ColdLayer /\ disk.shards \in ColdLayer /\ entry.db \in ColdLayer
          /\ fs \in Layer
      BY <1>1 DEF IInv, TypeInv, EntryRec, Cold
    <3>2. Below(disk.db, fs) /\ Below(disk.shards, fs) /\ Below(entry.db, disk.db)
      BY <1>1 DEF IInv, OrderInv
    <3> QED BY <3>1, <3>2 DEF Below, ColdLayer, Layer
  <2>4. \A h \in Handle : shards[h] \in ColdLayer /\ Below(shards[h], fs)
    <3>1. \A h \in Handle : shards[h] \in ColdLayer /\ Below(shards[h], disk.shards)
      BY <1>1 DEF IInv, TypeInv, OrderInv
    <3>2. fs \in Layer
      BY <1>1 DEF IInv, TypeInv, Cold
    <3> QED BY <2>3, <3>1, <3>2 DEF Below, ColdLayer, Layer
  <2>5. fresh = NoEntry \/ (fresh.db = disk.db /\ fresh.h \in Handle)
    <3>1. fresh = NoEntry \/ build.pc = "store"
      BY <1>1 DEF IInv, ControlInv
    <3>2. build.pc = "store" => fresh.db = disk.db /\ fresh.h \in 1..handles
      BY <1>1 DEF IInv, BuildInv, Started
    <3> QED BY <1>1, <3>1, <3>2, UsedHandles
  <2>6. \A o \in {overlay[h] : h \in Handle} \cup {wal} :
          /\ o \in OverlayRec /\ Below(o.ver, fs)
          /\ o.slots \subseteq {p \in Path : o.ver[p] # 0}
    BY <1>1 DEF IInv, TypeInv, OrderInv, SlotsInv
  <2>7. \A h \in Handle : watcher[h].chan \cup watcher[h].batch \subseteq Path
    BY <1>1 DEF IInv, TypeInv, WatcherRec
  <2>8. /\ fs \in Cold /\ entry.h \in Handle /\ handles \in Handle /\ net \in Handle \cup {0}
        /\ missed \cup rebuilt \subseteq Path
    BY <1>1 DEF IInv, TypeInv, EntryRec
  <2> QED BY <2>1, <2>2, <2>3, <2>4, <2>5, <2>6, <2>7, <2>8 DEF TypeOK
<1> QED BY <1>1, InvHolds, PTL

\* An answer is never older than everything served since the query began, if no
\* compaction cleared the overlay under it: whatever batches, builds, swaps and
\* reloads happen between the snapshots query_entry takes of the layers.
THEOREM QueriesAreFresh == Spec => []QueryFresh
<1>1. ASSUME IInv PROVE QueryFresh
  <2> SUFFICES ASSUME query.pc = "done", ~query.cleared, NEW p \in Path
               PROVE  /\ Obs(p, query.db[p]) \in SeenSince(p, query.fnFloor[p])
                      /\ Obs(p, query.ct[p]) \in SeenSince(p, query.ctFloor[p])
    BY DEF QueryFresh, AnswerInWindow
  <2>1. query.fnFloor[p] <= query.db[p] /\ query.ctFloor[p] <= query.ct[p]
    BY <1>1 DEF IInv, QueryInv, FloorsHold
  <2>2. /\ query.db[p] \in Nat /\ query.ct[p] \in Nat /\ fs[p] \in Nat
        /\ query.fnFloor[p] \in Nat /\ query.ctFloor[p] \in Nat
        /\ query.db[p] <= fs[p] /\ query.ct[p] <= fs[p]
    BY <1>1, ReadVersions, Versions
  <2>3. query.db[p] \in query.fnFloor[p]..fs[p] /\ query.ct[p] \in query.ctFloor[p]..fs[p]
    BY <2>1, <2>2
  <2> QED BY <2>3 DEF SeenSince
<1> QED BY <1>1, InvHolds, PTL

\* Once a rebuild is swapped in, a path that did not change since it was read is
\* shown as it is if the overlay has no entry for it: compact_and_swap,
\* rebuild_and_swap and spawn_build all swap both layers.
THEOREM RebuildsAreShown == Spec => []RebuildShowsFiles
<1>1. ASSUME IInv PROVE RebuildShowsFiles
  <2> SUFFICES ASSUME NEW p \in rebuilt, overlay[entry.h].ver[p] = 0, ~undone
               PROVE  Shows(FilenameView(p), p) /\ Shows(ContentView(p), p)
    BY DEF RebuildShowsFiles
  <2>1. entry.db[p] = fs[p] /\ shards[entry.h][p] = fs[p]
    BY <1>1 DEF IInv, RebuildInv
  <2> QED BY <2>1 DEF Shows, FilenameView, ContentView, Merged
<1> QED BY <1>1, InvHolds, PTL

-----------------------------------------------------------------------------
(* One generation of handles: a daemon that is not asked for on-demand builds *)

\* Then the served entry, df-watch and the log are about the same overlay.
LEMMA OneGeneration ==
    ASSUME IInv, MaxHandles = 1
    PROVE  OneInv /\ entry.h = 1 /\ Handle = {1}
BY DEF IInv, TypeInv, EntryRec, Handle

\* When df-watch has caught up, a query sees every path as it is on disk unless
\* it changed while nobody watched or a registry reload undid a swap.
THEOREM QuietIsCurrent ==
    ASSUME MaxHandles = 1
    PROVE  Spec => []QuietViewCurrent
<1>1. ASSUME IInv PROVE QuietViewCurrent
  <2> SUFFICES ASSUME Quiet, ~undone, NEW p \in Path \ missed
               PROVE  Shows(FilenameView(p), p) /\ Shows(ContentView(p), p)
    BY DEF QuietViewCurrent
  <2>1. OneInv /\ entry.h = 1 /\ 1 \in Handle
    BY <1>1, OneGeneration
  <2>2. /\ up /\ build.kind = "none"
        /\ watcher[1].pc \in {"off", "idle"} /\ watcher[1].chan = {}
    BY <2>1 DEF Quiet
  <2>3. watcher[1].batch = {} /\ watcher[1].recs = NoVersions
    BY <1>1, <2>1, <2>2 DEF IInv, WatchInv
  <2>4. Applied(p) /\ ~Swapping
    BY <2>2, <2>3, Versions DEF Applied, Unapplied, Swapping
  <2>5. \/ overlay[1].ver[p] = fs[p]
        \/ overlay[1].ver[p] = 0 /\ shards[1][p] = fs[p] /\ entry.db[p] = fs[p]
    BY <2>1, <2>2, <2>4 DEF OneInv
  <2>6. fs[p] # 0
    BY <1>1 DEF IInv, TypeInv, Cold, Version
  <2> QED BY <2>1, <2>5, <2>6 DEF Shows, FilenameView, ContentView, Merged
<1> QED BY <1>1, InvHolds, PTL

\* What a daemon killed now would show after a restart is not older than what
\* it shows now, at every point of a batch, a build, a compaction and a swap.
THEOREM RestartIsSafe ==
    ASSUME MaxHandles = 1
    PROVE  Spec => []RestartLosesNothing
<1>1. ASSUME IInv PROVE RestartLosesNothing
  <2> SUFFICES ASSUME NEW p \in Path
               PROVE  /\ Merged(wal, disk.db, p) >= FilenameView(p)
                      /\ Merged(wal, disk.shards, p) >= ContentView(p)
    BY DEF RestartLosesNothing
  <2>1. overlay[1] = wal /\ entry.h = 1 /\ 1 \in Handle
    BY <1>1, OneGeneration DEF OneInv
  <2>2. overlay[1].ver[p] \in Nat /\ shards[1][p] \in Nat /\ entry.db[p] \in Nat
    BY <1>1, <2>1, ReadVersions
  <2>3. disk.db[p] \in Nat /\ disk.shards[p] \in Nat
    BY <1>1 DEF IInv, TypeInv, ColdLayer
  <2>4. entry.db[p] <= disk.db[p] /\ shards[1][p] <= disk.shards[p]
    BY <1>1, <2>1 DEF IInv, OrderInv, Below
  <2> QED BY <2>1, <2>2, <2>3, <2>4 DEF FilenameView, ContentView, Merged
<1> QED BY <1>1, InvHolds, PTL

\* Content results never go back in time in a hot-swap: the shards are reloaded
\* before the overlay is cleared, and they have what the overlay answered for.
THEOREM SwapsAreMonotone ==
    ASSUME MaxHandles = 1
    PROVE  Spec => SwapKeepsContent
<1>1. ASSUME IInv, IInv', [Next]_vars, up, up', ~Publishes, NEW p \in Path
      PROVE  ContentView(p)' >= ContentView(p)
  <2>1. entry.h = 1 /\ entry'.h = 1 /\ 1 \in Handle /\ Handle = {1}
    <3>1. entry.h = 1 /\ 1 \in Handle /\ Handle = {1}
      BY <1>1, OneGeneration
    <3>2. entry'.h \in Handle
      BY <1>1 DEF IInv, TypeInv, EntryRec
    <3> QED BY <3>1, <3>2
  <2>2. overlay[1].ver[p] \in Nat /\ shards[1][p] \in Nat
    BY <1>1, <2>1, ReadVersions
  <2>3. CASE shards' = shards /\ overlay' = overlay
    BY <2>1, <2>2, <2>3 DEF ContentView, Merged
  <2>4. CASE ReloadShards
    <3>1. /\ overlay' = overlay /\ shards' = [shards EXCEPT ![build.h] = disk.shards]
      BY <2>4 DEF ReloadShards
    <3>2. shards[1][p] <= disk.shards[p] /\ disk.shards[p] \in Nat
      BY <1>1, <2>1 DEF IInv, OrderInv, Below, TypeInv, ColdLayer
    <3>3. shards'[1][p] \in {shards[1][p], disk.shards[p]}
      BY <1>1, <2>1, <3>1 DEF IInv, TypeInv
    <3> QED BY <2>1, <2>2, <3>1, <3>2, <3>3 DEF ContentView, Merged
  <2>5. CASE ClearOverlay
    <3>1. /\ shards' = shards /\ overlay' = [overlay EXCEPT ![build.h] = EmptyOverlay]
          /\ build.pc = "clear"
      BY <2>5 DEF ClearOverlay, BuildStep
    <3>2. build.kind = "compact" /\ build.h = 1
      BY <1>1, <2>1, <3>1 DEF IInv, ControlInv
    <3>3. shards[1] = build.walk /\ build.walk[p] # 0
      BY <1>1, <3>1, <3>2 DEF IInv, BuildInv, Whole, Started
    <3>4. overlay[1].ver[p] <= shards[1][p]
      BY <1>1, <3>2, <3>3 DEF IInv, CompactInv
    <3>5. overlay'[1].ver[p] = 0
      BY <1>1, <2>1, <3>1, <3>2, Versions DEF IInv, TypeInv, EmptyOverlay
    <3> QED BY <2>1, <2>2, <3>1, <3>4, <3>5 DEF ContentView, Merged
  <2>6. ~OpenNew /\ ~Restart
    <3>1. ~OpenNew
      BY <1>1, <2>1 DEF OpenNew, BuildStep, IInv, ControlInv, TypeInv
    <3> QED BY <1>1, <3>1 DEF Restart
  <2>7. \A h \in Handle : ~RecordAndApply(h)
    BY <1>1, SMTT(60) DEF Publishes
  <2>8. CASE \/ \E q \in Path : Change(q)
             \/ \E h \in Handle : WatcherNext(h)
             \/ NetWake \/ NetBuild \/ NetSkip \/ StartOnDemand
    BY <2>3, <2>7, <2>8 DEF Change, WatcherNext, WatchStart, Recv, BuildRecord, StartCompaction,
       SkipCompaction, NetWake, NetBuild, NetSkip, StartOnDemand
  <2>9. CASE BuildNext \/ BuildFails
    BY <2>3, <2>4, <2>5, <2>6, <2>9 DEF BuildNext, BuildFails, Walk, WriteShards, WriteDb,
       WriteManifest, OpenReusing, Store, Attach
  <2>10. CASE \/ ReloadOpen \/ ReloadReuse \/ ReloadStore
              \/ QueryPin \/ QueryContent \/ QueryOverlay \/ QueryReply
    BY <2>3, <2>10 DEF ReloadOpen, ReloadReuse, ReloadStore, QueryPin, QueryContent,
       QueryOverlay, QueryReply
  <2>11. CASE Rest \/ UNCHANGED vars
    BY <2>3, <2>11 DEF Rest, vars
  <2>12. ~Crash
    BY <1>1 DEF Crash
  <2> QED BY <1>1, <2>6, <2>8, <2>9, <2>10, <2>11, <2>12 DEF Next
<1>2. ASSUME IInv, IInv', [Next]_vars
      PROVE  [up /\ up' /\ ~Publishes => \A p \in Path : ContentView(p)' >= ContentView(p)]_vars
  BY <1>1, <1>2
<1> QED BY <1>2, InvHolds, PTL DEF Spec, SwapKeepsContent
=============================================================================
