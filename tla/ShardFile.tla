----------------------------- MODULE ShardFile ------------------------------
(***************************************************************************)
(* The content shard (df-content/src/shard.rs), the MANIFEST that lists    *)
(* the shards (df-index/src/manifest.rs), and the content query over a set *)
(* of shards (ContentShards::query in deepfindd/src/lib.rs).  Cells are    *)
(* those of DbFile; a corpus is bytes.                                     *)
(***************************************************************************)
EXTENDS DbFile

SectionTags == <<"metaData", "fileNames", "fileMeta", "contentOffsets",
                 "contentCorpus", "ctHash", "ctPostings">>

(***************************************************************************)
(* ShardBuilder                                                            *)
(***************************************************************************)
NewShard(id, base) == [shard_id |-> id, base_docid |-> base, paths |-> <<>>, meta |-> <<>>,
                       corpus |-> <<>>, offsets |-> <<>>, try_map |-> <<>>]

\* Mutation: the offset is taken after the corpus has grown.
add_file_LateOffset(s, path, meta, content) ==
    [shard_id |-> s.shard_id, base_docid |-> s.base_docid,
     paths    |-> Append(s.paths, path),
     meta     |-> Append(s.meta, meta),
     corpus   |-> s.corpus \o content,
     offsets  |-> Append(s.offsets, [off |-> Len(s.corpus \o content), len |-> Len(content)]),
     try_map  |-> Indexed(s.try_map, content, Len(s.paths))]

add_file(s, path, meta, content) ==
    [shard_id |-> s.shard_id, base_docid |-> s.base_docid,
     paths    |-> Append(s.paths, path),
     meta     |-> Append(s.meta, meta),
     corpus   |-> s.corpus \o content,
     offsets  |-> Append(s.offsets, [off |-> Len(s.corpus), len |-> Len(content)]),
     try_map  |-> Indexed(s.try_map, content, Len(s.paths))]

\* The seven sections back to back, the table of contents, the footer.
ShardFinish(h, s, build_time) ==
    LET slots    == Slots(Cardinality(DOMAIN s.try_map))
        sections == <<
            <<[build_time |-> build_time, shard_id |-> s.shard_id, base_docid |-> s.base_docid,
               num_docs |-> Len(s.paths), slots_log2 |-> slots_log2(slots)]>>,
            PrefixedPaths(s.paths), s.meta, s.offsets, s.corpus,
            build_robin_hood(h, Entries(s.try_map, 0), slots),
            FlattenSeq(PostingSection(s.try_map))>>
        off(k)   == Len(FlattenSeq(SubSeq(sections, 1, k - 1)))
        toc      == <<Len(sections)>> \o [k \in DOMAIN sections |->
                        [tag |-> SectionTags[k], off |-> off(k), sz |-> Len(sections[k])]]
    IN  FlattenSeq(sections) \o toc \o <<off(8), Len(toc)>>

(***************************************************************************)
(* ShardReader: the sections that the table of contents gives and the      *)
(* metaData fields.  A footer that does not fit the file is an error.      *)
(***************************************************************************)
ShardFits(bytes) == bytes[Len(bytes) - 1] + bytes[Len(bytes)] = Len(bytes) - 2

ShardOpen(bytes) ==
    LET toc     == Slice(bytes, bytes[Len(bytes) - 1], bytes[Len(bytes)])
        at(tag) == CHOOSE e \in ToSet(Slice(toc, 1, toc[1])) : e.tag = tag
        sect    == [tag \in ToSet(SectionTags) |-> Slice(bytes, at(tag).off, at(tag).sz)]
        md      == sect["metaData"][1]
    IN  [sect |-> sect, num_docs |-> md.num_docs, base_docid |-> md.base_docid,
         slots |-> SlotsOf(md.slots_log2)]

ShardPath(r, d) == extract_path(r.sect["fileNames"], d)

ShardMeta(r, d) == IF d < Len(r.sect["fileMeta"]) THEN r.sect["fileMeta"][d + 1] ELSE NoValue

ShardContent(r, d) ==
    LET loc == r.sect["contentOffsets"][d + 1]
    IN  IF d >= Len(r.sect["contentOffsets"]) \/ loc.off + loc.len > Len(r.sect["contentCorpus"])
        THEN NoValue
        ELSE Slice(r.sect["contentCorpus"], loc.off, loc.len)

ShardPosting(h, r, trig) ==
    IF r.slots = 0 THEN NoValue
    ELSE posting(h, r.sect["ctHash"], r.sect["ctPostings"], trig)

\* candidates() over a shard.  A document that cannot be read before the limit
\* is reached is an error, and unwrap_or_default then drops the whole shard.
ShardDocids(h, r, q, limit) ==
    LET cands    == CandidateDocids([t \in trigrams(q.folded) |-> ShardPosting(h, r, t)], r.num_docs, q.folded)
        bad      == SelectInSeq(cands, LAMBDA d : ShardContent(r, d) = NoValue)
        readable == IF bad = 0 THEN cands ELSE SubSeq(cands, 1, bad - 1)
        hits     == Truncated(Kept(readable, {d \in ToSet(readable) : cs_verify(ShardContent(r, d), q)}), limit)
    IN  IF bad = 0 \/ (limit # NoValue /\ Len(hits) = limit) THEN hits ELSE <<>>

\* ContentShards::query without a scope: shard by shard, at most limit of each.
ContentQuery(h, shards, q, limit) ==
    LET hits(bytes) ==
            LET r   == ShardOpen(bytes)
                ids == IF ShardFits(bytes) THEN ShardDocids(h, r, q, limit) ELSE <<>>
            IN  [i \in DOMAIN ids |-> [path |-> ShardPath(r, ids[i]), meta |-> ShardMeta(r, ids[i])]]
    IN  FlattenSeq([k \in DOMAIN shards |-> hits(shards[k])])

(***************************************************************************)
(* MANIFEST: three integers, then per shard three integers, the varint     *)
(* length of the file name and the name.                                   *)
(***************************************************************************)
ManifestEncode(m) ==
    <<m.build_time, m.total, Len(m.shards)>>
    \o FlattenSeq([k \in DOMAIN m.shards |->
           LET s == m.shards[k]
           IN  <<s.shard_id, s.base_docid, s.num_docs>> \o encode_u32(Len(s.file)) \o s.file])

\* The decoder after one more entry: the cell it has reached, NoValue as soon
\* as an entry is cut short, and the entries so far.
Cut == [p |-> NoValue, out |-> <<>>]

ManifestNext(bytes, acc) ==
    LET p    == acc.p
        flen == decode_u32(bytes, p + 3)
        end  == flen.pos + flen.value
    IN  IF p = NoValue THEN Cut
        ELSE IF p + 3 > Len(bytes) THEN Cut
        ELSE IF flen.value = NoValue THEN Cut
        ELSE IF end > Len(bytes) THEN Cut
        ELSE [p   |-> end,
              out |-> Append(acc.out, [shard_id |-> bytes[p + 1], base_docid |-> bytes[p + 2],
                                       num_docs |-> bytes[p + 3],
                                       file |-> Slice(bytes, flen.pos, flen.value)])]

ManifestDecode(bytes) ==
    LET read[k \in 0..bytes[3]] ==
            IF k = 0 THEN [p |-> 3, out |-> <<>>] ELSE ManifestNext(bytes, read[k - 1])
        all == read[bytes[3]]
    IN  IF Len(bytes) < 3 THEN NoValue
        ELSE IF all.p = NoValue THEN NoValue
        ELSE [build_time |-> bytes[1], total |-> bytes[2], shards |-> all.out]
=============================================================================
