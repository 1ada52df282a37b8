----------------------------- MODULE IndexFiles -----------------------------
(***************************************************************************)
(* The index files of one database from build to query: the consumer of a  *)
(* build feeds every record to the filename builder and text records to    *)
(* the shard builder, shards are flushed when their corpus is full,        *)
(* finish() writes the files, and the reading threads of the daemon share  *)
(* one DbReader with its single-slot cache of decompressed blocks.         *)
(*                                                                         *)
(* The interesting inputs are chosen freely: the hash (so every pattern of *)
(* collisions), the documents and their order, whether a dictionary is     *)
(* trained, and the interleaving of the readers.                           *)
(***************************************************************************)
EXTENDS ShardFile

CONSTANTS Doc,               \* the records a walk may send: path, meta, content
          MaxDocs,           \* bound: records per build
          SHARD_FLUSH_BYTES, \* corpus size at which a shard is flushed
          HashKey,           \* the trigrams of Doc and Queries
          HashValue,         \* the values the hash takes
          Queries,           \* the needles asked for
          Limits,            \* the limits asked for, NoValue among them
          Thread             \* threads that read paths

\* Docids are u32: MaxDocs < 2^32, written so that TLC can evaluate it.
ASSUME DocidAssumption == MaxDocs \in Nat /\ MaxDocs \div PowerOfTwo(16) < PowerOfTwo(16)

\* Paths and contents are byte strings, the hash has a value for every trigram of
\* a path, a content or a needle.
ASSUME RecordAssumption ==
    /\ Byte \subseteq Nat /\ HashValue \subseteq Nat
    /\ \A d \in Doc : d.path \in Text /\ trigrams(fold(d.path)) \subseteq HashKey
    /\ \A d \in Doc : d.content # NoValue =>
          d.content \in Text /\ trigrams(fold(d.content)) \subseteq HashKey
ASSUME QueryAssumption ==
    \A q \in Queries : q \in Query /\ trigrams(q.folded) \cup trigrams(fold(q.original)) \subseteq HashKey
ASSUME LimitAssumption == Limits \subseteq {NoValue} \cup Nat

\* None is no number, no byte string or posting list, and no slot of the table.
ASSUME NoneAssumption ==
    /\ NoValue \notin Nat /\ NoValue \notin Seq(Nat)
    /\ NoValue \notin [key : Trigram, count : Nat, off : Nat, len : Nat]

VARIABLES hash,     \* the hash function, fixed for the run
          recs,     \* history: the records received
          db,       \* DbBuilder
          shard,    \* ShardBuilder of the shard being filled
          shards,   \* the shard files written
          entries,  \* their MANIFEST entries
          file,     \* index.dfdb, empty until it is written
          cached,   \* cached_block: a block number and its bytes, or NoValue
          call      \* per thread: its doc_path call
vars == <<hash, recs, db, shard, shards, entries, file, cached, call>>

BuildTime == 7
NoFile == <<>>
NoCall == [docid |-> NoValue, path |-> NoValue, done |-> FALSE]
ShardName(id) == <<id>>

Init ==
    /\ hash \in [HashKey -> HashValue]
    /\ recs = <<>>
    /\ db = NewBuilder
    /\ shard = NewShard(0, 0)
    /\ shards = <<>>
    /\ entries = <<>>
    /\ file = NoFile
    /\ cached = NoValue
    /\ call = [t \in Thread |-> NoCall]

\* Write out shard s: its file and its MANIFEST entry.
Flush(s) ==
    /\ shards' = Append(shards, ShardFinish(hash, s, BuildTime))
    /\ entries' = Append(entries, [shard_id |-> s.shard_id, base_docid |-> s.base_docid,
                                   num_docs |-> Len(s.paths), file |-> ShardName(s.shard_id)])

\* The consumer's loop body for record d.
Receive(d) ==
    LET added == add_file(shard, d.path, d.meta, d.content)
        full  == d.content # NoValue /\ Len(added.corpus) >= SHARD_FLUSH_BYTES
    IN  /\ file = NoFile /\ Len(recs) < MaxDocs
        /\ recs' = Append(recs, d)
        /\ db' = insert_with(db, d.path, d.meta)
        /\ IF full THEN /\ Flush(added)
                        /\ shard' = NewShard(shard.shard_id + 1, shard.base_docid + Len(added.paths))
           ELSE /\ shard' = IF d.content = NoValue THEN shard ELSE added
                /\ UNCHANGED <<shards, entries>>
        /\ UNCHANGED <<hash, file, cached, call>>

\* The end of the channel: the partial shard, then the filename database.
Finish ==
    /\ file = NoFile
    /\ IF Len(shard.paths) > 0 THEN Flush(shard) ELSE UNCHANGED <<shards, entries>>
    /\ \E dict \in train_dict(db.paths) : file' = finish(hash, db, dict, BuildTime)
    /\ UNCHANGED <<hash, recs, db, shard, cached, call>>

Reader == open(file)

(***************************************************************************)
(* doc_path(docid) by thread t: out of range, answered from the cached     *)
(* block, or a miss, which reads and decompresses without the lock and     *)
(* then replaces whatever block is cached by now.                          *)
(***************************************************************************)
Answer(t, docid, path) == call' = [call EXCEPT ![t] = [docid |-> docid, path |-> path, done |-> TRUE]]

Idle(t) == call[t].docid = NoValue \/ call[t].done

DocPathRange(t, docid) ==
    /\ file # NoFile /\ Idle(t) /\ ~InRange(Reader, docid)
    /\ Answer(t, docid, NoValue)
    /\ UNCHANGED <<hash, recs, db, shard, shards, entries, file, cached>>

\* Mutation: whatever block is cached is taken for the one wanted.
DocPathHit_AnyBlock(t, docid) ==
    /\ file # NoFile /\ Idle(t) /\ InRange(Reader, docid) /\ cached # NoValue
    /\ Answer(t, docid, extract_path(cached.bytes,
                                     docid - Reader.block_start[BlockOf(Reader, docid)]))
    /\ UNCHANGED <<hash, recs, db, shard, shards, entries, file, cached>>

DocPathHit(t, docid) ==
    /\ file # NoFile /\ Idle(t) /\ InRange(Reader, docid)
    /\ cached # NoValue /\ cached.idx = BlockOf(Reader, docid)
    /\ Answer(t, docid, extract_path(cached.bytes, docid - Reader.block_start[cached.idx]))
    /\ UNCHANGED <<hash, recs, db, shard, shards, entries, file, cached>>

DocPathMiss(t, docid) ==
    /\ file # NoFile /\ Idle(t) /\ InRange(Reader, docid)
    /\ cached # NoValue => cached.idx # BlockOf(Reader, docid)
    /\ call' = [call EXCEPT ![t] = [docid |-> docid, path |-> NoValue, done |-> FALSE]]
    /\ UNCHANGED <<hash, recs, db, shard, shards, entries, file, cached>>

DocPathStore(t) ==
    LET docid == call[t].docid
        i     == BlockOf(Reader, docid)
    IN  /\ ~Idle(t)
        /\ cached' = [idx |-> i, bytes |-> ReadBlock(file, Reader, i)]
        /\ Answer(t, docid, doc_path(file, Reader, docid))
        /\ UNCHANGED <<hash, recs, db, shard, shards, entries, file>>

Next ==
    \/ \E d \in Doc : Receive(d)
    \/ Finish
    \/ \E t \in Thread :
        \/ \E docid \in 0..Len(recs) :
               DocPathRange(t, docid) \/ DocPathHit(t, docid) \/ DocPathMiss(t, docid)
        \/ DocPathStore(t)

Spec == Init /\ [][Next]_vars

-----------------------------------------------------------------------------
\* The files do not change any more once they are written; the checks below
\* are made in the first state that has them.
JustBuilt == file # NoFile /\ cached = NoValue /\ \A t \in Thread : call[t] = NoCall

\* A scan of the records s: the docids of those that satisfy P, in docid order.
Matching(s, P(_)) == Kept(AllDocids(Len(s)), {d \in 0..(Len(s) - 1) : P(s[d + 1])})

(***************************************************************************)
(* The filename database answers as a scan of the records would: for every *)
(* hash, every needle and case mode, single_docids returns the first       *)
(* `limit` documents whose path contains the needle, in docid order; no    *)
(* posting is lost to a collision, to the table's wrap-around or to a      *)
(* block boundary, and no absent trigram is found.                         *)
(***************************************************************************)
FilenameQueryExact ==
    JustBuilt => \A q \in Queries, limit \in Limits :
        single_docids(hash, file, Reader, q, limit)
            = Truncated(Matching(recs, LAMBDA r : PathMatches(r.path, q)), limit)

\* The records that have a text.
TextDoc == {d \in Doc : d.content # NoValue}

(***************************************************************************)
(* The content layer answers as a scan of the text records would: across   *)
(* shards and flush boundaries the query returns path and metadata of      *)
(* every record whose content contains the needle, in order, and with a    *)
(* limit exactly the first `limit` of each shard.  That holds for every    *)
(* needle when case is ignored and, when it is not, for those whose        *)
(* folded form is fold(original); with a non-ASCII capital an exact search *)
(* misses matches (IndexCovers).  Shard docids are consecutive over the    *)
(* MANIFEST, which survives encoding and is refused when it is cut short   *)
(* anywhere.                                                               *)
(***************************************************************************)
ContentQueryExact ==
    JustBuilt =>
        LET texts  == Kept(recs, TextDoc)
            part(k) == SubSeq(texts, entries[k].base_docid + 1,
                              entries[k].base_docid + entries[k].num_docs)
            m      == [build_time |-> BuildTime, total |-> Len(texts), shards |-> entries]
            hits(s, q, limit) ==
                Truncated(Kept(s, {r \in TextDoc : cs_verify(r.content, q)}), limit)
            shown(s) == [i \in DOMAIN s |-> [path |-> s[i].path, meta |-> s[i].meta]]
        IN  /\ FlattenSeq([k \in DOMAIN entries |-> part(k)]) = texts
            /\ \A q \in {p \in Queries : IndexCovers(p)}, limit \in Limits :
                  ContentQuery(hash, shards, q, limit)
                    = FlattenSeq([k \in DOMAIN shards |-> shown(hits(part(k), q, limit))])
            /\ ManifestDecode(ManifestEncode(m)) = m
            /\ \A n \in 0..(Len(ManifestEncode(m)) - 1) :
                  ManifestDecode(SubSeq(ManifestEncode(m), 1, n)) = NoValue

(***************************************************************************)
(* A thread that resolves a docid gets that record's path and metadata, or *)
(* an error beyond the last record, whichever block other threads read,    *)
(* decompress and cache in the meantime.                                   *)
(***************************************************************************)
ReadersGetTheirDoc ==
    \A t \in Thread : call[t].done =>
        LET d == call[t].docid
        IN  IF d < Len(recs)
            THEN call[t].path = recs[d + 1].path /\ doc_meta(file, Reader, d) = recs[d + 1].meta
            ELSE call[t].path = NoValue /\ doc_meta(file, Reader, d) = NoValue
=============================================================================
