---------------------------- MODULE OverlayStore ----------------------------
(***************************************************************************)
(* One DB's overlay handle and its write-ahead log: OverlayHandle          *)
(* (deepfindd/src/lib.rs), OverlayStore (df-index/src/overlay_store.rs)    *)
(* and the WAL framing of df-content/src/overlay.rs, with crashes, torn    *)
(* frames, I/O errors and recovery.                                        *)
(*                                                                         *)
(* The log file is a sequence of cells: a frame is one header cell (the    *)
(* u32 length) followed by BodyLen body cells.  A crash or a failed write  *)
(* may leave a proper prefix of a frame.  The in-memory overlay is the     *)
(* path-to-value map that Overlay implements (OverlayMap).                 *)
(***************************************************************************)
EXTENDS Naturals, Sequences, SequencesExt, FiniteSets

CONSTANTS Path,        \* file paths
          Val,         \* what an upsert may record for a path
          Deleted,     \* what a delete records
          Spliced,     \* what a decoder may make of a frame completed by alien bytes
          BodyLen,     \* body cells per frame
          MaxBatch,    \* records per df-watch batch
          MaxRecords,  \* bound: records in the log, and records in memory
          MaxCrashes,  \* bound: crashes of the daemon
          MaxErrors    \* bound: failed I/O calls

ASSUME StoreAssumption ==
    /\ {BodyLen, MaxBatch} \subseteq Nat \ {0}
    /\ {MaxRecords, MaxCrashes, MaxErrors} \subseteq Nat

VARIABLES file,       \* overlay.wal as the running system sees it
          disk,       \* its content at the last successful sync
          mem,        \* the published overlay: path -> value, or "cold"
          store,      \* is the log open?  (FALSE: degraded, memory only)
          phase,      \* where record_and_apply / clear / open is
          batch,      \* the records of the batch being recorded
          done,       \* how many of them the append loop is through with
          published,  \* history: records applied to mem since it was last empty
          intact,     \* history: no torn frame in the log, no failed I/O call
          crashes, errors

vars == <<file, disk, mem, store, phase, batch, done, published, intact, crashes, errors>>

-----------------------------------------------------------------------------
(* Records and frames *)

WalRecord == [path : Path, val : Val \cup {Deleted}]

FrameLen == BodyLen + 1

encode_record(rec) == [k \in 1..FrameLen |-> [rec |-> rec, k |-> k]]

\* The first cell of the i-th frame, when all before it are complete.
FrameStart(i) == (i - 1) * FrameLen + 1

\* The frame whose header is cell p of f has its own body behind it.
WholeFrame(f, p) == \A k \in 1..FrameLen : f[p + k - 1] = [rec |-> f[p].rec, k |-> k]

\* The decoder gets a record from cell p on: a length, that many bytes, and a
\* body that decodes.  When the missing end of a torn frame was filled by the
\* bytes of a later append, it may still do so (luck = TRUE), as an upsert with
\* alien content.
Decodes(f, p, luck) ==
    /\ p + BodyLen <= Len(f)
    /\ f[p].k = 1
    /\ WholeFrame(f, p) \/ (luck /\ f[p].rec.val # Deleted)

DecodedAt(f, p) ==
    IF WholeFrame(f, p) THEN f[p].rec ELSE [path |-> f[p].rec.path, val |-> Spliced]

\* Frame after frame from the start; the first that does not decode ends it.
decode_records(f, luck) ==
    LET n == Max({m \in 0..Len(f) : \A i \in 1..m : Decodes(f, FrameStart(i), luck)})
    IN  [i \in 1..n |-> DecodedAt(f, FrameStart(i))]

\* Some frame of f was begun and never finished.
HasTornFrame(f) ==
    \E p \in DOMAIN f : f[p].k = 1 /\ (p + BodyLen > Len(f) \/ ~WholeFrame(f, p))

\* Overlay::apply_records: each path takes the value of its last record.
apply_records(m, recs) ==
    [p \in Path |->
        LET at == {i \in DOMAIN recs : recs[i].path = p}
        IN  IF at = {} THEN m[p]
            ELSE recs[CHOOSE i \in at : \A j \in at : j <= i].val]

Empty == [p \in Path |-> "cold"]

FramesBegun == Cardinality({i \in DOMAIN file : file[i].k = 1})

-----------------------------------------------------------------------------
(* record_and_apply *)

Init == /\ file = <<>> /\ disk = <<>> /\ mem = Empty /\ store = TRUE
        /\ phase = "idle" /\ batch = <<>> /\ done = 0
        /\ published = <<>> /\ intact = TRUE /\ crashes = 0 /\ errors = 0

\* df-watch hands a debounced batch over; without a log the append loop and
\* the sync are skipped.
RecordBatch(recs) ==
    /\ phase = "idle"
    /\ FramesBegun + Len(recs) <= MaxRecords
    /\ Len(published) + Len(recs) <= MaxRecords
    /\ batch' = recs
    /\ done' = 0
    /\ phase' = IF store THEN "append" ELSE "publish"
    /\ UNCHANGED <<file, disk, mem, store, published, intact, crashes, errors>>

append ==
    /\ phase = "append"
    /\ done < Len(batch)
    /\ file' = file \o encode_record(batch[done + 1])
    /\ done' = done + 1
    /\ UNCHANGED <<disk, mem, store, phase, batch, published, intact, crashes, errors>>

\* write_all fails part-way: the error is logged, the loop goes on.
appendFails(k) ==
    /\ phase = "append"
    /\ done < Len(batch)
    /\ errors < MaxErrors
    /\ file' = file \o SubSeq(encode_record(batch[done + 1]), 1, k)
    /\ done' = done + 1
    /\ errors' = errors + 1
    /\ intact' = FALSE
    /\ UNCHANGED <<disk, mem, store, phase, batch, published, crashes>>

\* Mutation: the batch is published without waiting for the sync.
sync_Skipped ==
    /\ phase = "append"
    /\ done = Len(batch)
    /\ phase' = "publish"
    /\ UNCHANGED <<file, disk, mem, store, batch, done, published, intact, crashes, errors>>

sync ==
    /\ phase = "append"
    /\ done = Len(batch)
    /\ disk' = file
    /\ phase' = "publish"
    /\ UNCHANGED <<file, mem, store, batch, done, published, intact, crashes, errors>>

syncFails ==
    /\ phase = "append"
    /\ done = Len(batch)
    /\ errors < MaxErrors
    /\ phase' = "publish"
    /\ errors' = errors + 1
    /\ intact' = FALSE
    /\ UNCHANGED <<file, disk, mem, store, batch, done, published, crashes>>

\* clone -> apply -> ArcSwap::store, once per batch.
Publish ==
    /\ phase = "publish"
    /\ mem' = apply_records(mem, batch)
    /\ published' = published \o batch
    /\ phase' = "idle"
    /\ batch' = <<>>
    /\ done' = 0
    /\ UNCHANGED <<file, disk, store, intact, crashes, errors>>

-----------------------------------------------------------------------------
(* clear: called by compaction in the watcher thread, between batches *)

\* Mutation: only the in-memory overlay is dropped.
truncate_Forgotten ==
    /\ phase = "idle"
    /\ phase' = "clearing"
    /\ intact' = store
    /\ UNCHANGED <<file, disk, mem, store, batch, done, published, crashes, errors>>

truncate ==
    /\ phase = "idle"
    /\ phase' = "clearing"
    /\ file' = IF store THEN <<>> ELSE file
    /\ intact' = store
    /\ UNCHANGED <<disk, mem, store, batch, done, published, crashes, errors>>

truncateFails ==
    /\ phase = "idle"
    /\ store
    /\ errors < MaxErrors
    /\ phase' = "clearing"
    /\ errors' = errors + 1
    /\ intact' = FALSE
    /\ UNCHANGED <<file, disk, mem, store, batch, done, published, crashes>>

PublishEmpty ==
    /\ phase = "clearing"
    /\ mem' = Empty
    /\ published' = <<>>
    /\ phase' = "idle"
    /\ UNCHANGED <<file, disk, store, batch, done, intact, crashes, errors>>

-----------------------------------------------------------------------------
(* Crash, power loss and OverlayHandle::open *)

\* What a crash may leave of the log: nothing synced is lost, of what came
\* after the last sync any prefix survives; a truncation that was not synced
\* may be undone.
CrashImages ==
    {SubSeq(file, 1, n) : n \in (IF IsPrefix(disk, file) THEN Len(disk) ELSE 0)..Len(file)}
    \cup (IF IsPrefix(disk, file) THEN {} ELSE {disk})

Crash(f) ==
    /\ phase # "down"
    /\ crashes < MaxCrashes
    /\ f \in CrashImages
    /\ file' = f /\ disk' = f
    /\ mem' = Empty /\ store' = FALSE
    /\ phase' = "down" /\ batch' = <<>> /\ done' = 0
    /\ published' = <<>> /\ intact' = FALSE
    /\ crashes' = crashes + 1
    /\ UNCHANGED errors

\* open at the next start: replay, then reopen for appending.  The torn tail,
\* if there is one, stays in the file.
open(luck) ==
    /\ phase = "down"
    /\ mem' = apply_records(Empty, decode_records(file, luck))
    /\ published' = decode_records(file, luck)
    /\ store' = TRUE
    /\ intact' = ~HasTornFrame(file)
    /\ phase' = "idle"
    /\ UNCHANGED <<file, disk, batch, done, crashes, errors>>

\* The log cannot be read (an empty overlay is served) or cannot be opened for
\* appending (the overlay is no longer persisted).
openFails ==
    /\ phase = "down"
    /\ errors < MaxErrors
    /\ errors' = errors + 1
    /\ \/ mem' = Empty /\ published' = <<>> /\ store' = TRUE
       \/ /\ mem' = apply_records(Empty, decode_records(file, FALSE))
          /\ published' = decode_records(file, FALSE)
          /\ store' = FALSE
    /\ intact' = FALSE
    /\ phase' = "idle"
    /\ UNCHANGED <<file, disk, batch, done, crashes>>

-----------------------------------------------------------------------------
Batches == UNION {[1..n -> WalRecord] : n \in 1..MaxBatch}

Next == \/ \E recs \in Batches : RecordBatch(recs)
        \/ append
        \/ \E k \in 0..BodyLen : appendFails(k)
        \/ sync \/ syncFails \/ Publish
        \/ truncate \/ truncateFails \/ PublishEmpty
        \/ \E f \in CrashImages : Crash(f)
        \/ \E luck \in BOOLEAN : open(luck)
        \/ openFails

Spec == Init /\ [][Next]_vars

-----------------------------------------------------------------------------
(* Properties *)

Cell == [rec : WalRecord, k : 1..FrameLen]
Value == Val \cup {Deleted, Spliced}
Replayed == [path : Path, val : Value]

\* Types; the append loop never runs past its batch.
TypeOK ==
    /\ {file, disk} \subseteq Seq(Cell)
    /\ mem \in [Path -> {"cold"} \cup Value]
    /\ store \in BOOLEAN /\ intact \in BOOLEAN
    /\ phase \in {"idle", "append", "publish", "clearing", "down"}
    /\ batch \in Seq(WalRecord) /\ done \in 0..Len(batch)
    /\ published \in Seq(Replayed)
    /\ crashes \in 0..MaxCrashes /\ errors \in 0..MaxErrors

\* What queries can see survives a crash: whatever a crash in this very moment
\* leaves of the log, replaying it applies every record already published, in
\* order.  Claimed only while the log holds no torn frame and no I/O call
\* failed since it was last empty.
PublishedSurvivesCrash ==
    intact /\ phase \notin {"clearing", "down"} =>
        \A f \in CrashImages, luck \in BOOLEAN : IsPrefix(published, decode_records(f, luck))

\* Between batches the in-memory overlay is exactly what a restart would
\* rebuild from the log (same proviso).
MemoryMatchesLog ==
    intact /\ phase = "idle" =>
        \A luck \in BOOLEAN : mem = apply_records(Empty, decode_records(file, luck))

\* The same as PublishedSurvivesCrash without its proviso, as the comment on
\* OverlayStore::append has it: a crash loses at most the batch in flight.
CrashLosesAtMostOneBatch ==
    phase \notin {"clearing", "down"} =>
        \A f \in CrashImages, luck \in BOOLEAN : IsPrefix(published, decode_records(f, luck))
=============================================================================
