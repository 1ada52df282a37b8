------------------------------- MODULE DbFile -------------------------------
(***************************************************************************)
(* The single-file filename database (df-core/src/db.rs): what DbBuilder's *)
(* finish() lays out and what DbReader reads back, and the filename query  *)
(* over it (df-core/src/query.rs).                                         *)
(*                                                                         *)
(* A file is a sequence of cells, a cell being one fixed-width field or    *)
(* record of the format (the header, a block-index entry, a meta record, a *)
(* hash slot), one byte of a posting, or one zstd frame; offsets and       *)
(* lengths count cells.                                                    *)
(*                                                                         *)
(* The code lowercases paths and needles as Unicode here, where the        *)
(* content layer folds ASCII: in this module `fold` stands for             *)
(* to_lowercase, taken letter by letter (AsciiFold is any map of bytes).   *)
(* Letters whose lowercase depends on the context or has another length    *)
(* are left out.                                                           *)
(***************************************************************************)
EXTENDS TrigramTable

CONSTANTS BLOCK_PATHS,       \* paths per compressed block
          MIN_DICT_CORPUS    \* corpus size from which a dictionary is trained

ASSUME BlockPathsAssumption == BLOCK_PATHS \in Nat \ {0}

HEADER_LEN == 1

\* zstd with an optional dictionary: a frame decodes with the dictionary it
\* was made with, and is an error with another one.
zstd_encode(data, dict) == <<[data |-> data, dict |-> dict]>>
zstd_decode(comp, dict) == IF comp[1].dict = dict THEN comp[1].data ELSE NoValue

\* The dictionaries train_dict may return: none for a small corpus, and
\* possibly none when training fails.
train_dict(paths) ==
    LET corpus[i \in 0..Len(paths)] == IF i = 0 THEN 0 ELSE corpus[i - 1] + Len(paths[i]) + 4
    IN  IF corpus[Len(paths)] < MIN_DICT_CORPUS THEN {<<>>} ELSE {<<>>, <<"dictionary">>}

\* Length-prefixed paths, back to back (a filename block, a fileNames section).
PrefixedPaths(paths) == FlattenSeq([i \in DOMAIN paths |-> <<Len(paths[i])>> \o paths[i]])

\* Whether a whole path begins at position p of such a block, and where the
\* next one then begins; the end of the block stands for no path.
PathAt(block, p)   == p < Len(block) /\ p + 1 + block[p + 1] <= Len(block)
PathAfter(block, p) == IF PathAt(block, p) THEN p + 1 + block[p + 1] ELSE Len(block)

\* The local-th path of the block, NoValue when the block ends before it.
extract_path(block, local) ==
    LET start[k \in 0..local] == IF k = 0 THEN 0 ELSE PathAfter(block, start[k - 1])
        p == start[local]
    IN  IF PathAt(block, p) THEN Slice(block, p + 1, block[p + 1]) ELSE NoValue

\* chunks(BLOCK_PATHS)
Chunks(paths) ==
    [k \in 1..CeilDiv(Len(paths), BLOCK_PATHS) |->
        SubSeq(paths, BLOCK_PATHS * (k - 1) + 1, Min({BLOCK_PATHS * k, Len(paths)}))]

(***************************************************************************)
(* DbBuilder                                                               *)
(***************************************************************************)
NewBuilder == [paths |-> <<>>, meta |-> <<>>, try_map |-> <<>>]

insert_with(b, path, meta) ==
    [paths   |-> Append(b.paths, path),
     meta    |-> Append(b.meta, meta),
     try_map |-> Indexed(b.try_map, path, Len(b.paths))]

\* DOCS: dictionary, block index (absolute offset, length, count), blocks.
DocsSection(paths, dict, docs_off) ==
    LET chunks      == Chunks(paths)
        frames      == [k \in DOMAIN chunks |-> zstd_encode(PrefixedPaths(chunks[k]), dict)]
        blocks_base == docs_off + 1 + Len(dict) + 1 + Len(chunks)
        off(k)      == blocks_base + Len(FlattenSeq(SubSeq(frames, 1, k - 1)))
    IN  <<Len(dict)>> \o dict \o <<Len(chunks)>>
        \o [k \in DOMAIN chunks |-> [off |-> off(k), clen |-> Len(frames[k]), count |-> Len(chunks[k])]]
        \o FlattenSeq(frames)

finish(h, b, dict, build_time) ==
    LET docs     == DocsSection(b.paths, dict, HEADER_LEN)
        meta_off == HEADER_LEN + Len(docs)
        try_off  == meta_off + Len(b.meta)
        slots    == Slots(Cardinality(DOMAIN b.try_map))
        post_off == try_off + slots
    IN  <<[num_docs |-> Len(b.paths), build_time |-> build_time, docs_off |-> HEADER_LEN,
           meta_off |-> meta_off, try_off |-> try_off, slots_log2 |-> slots_log2(slots)]>>
        \o docs \o b.meta
        \o build_robin_hood(h, Entries(b.try_map, post_off), slots)
        \o FlattenSeq(PostingSection(b.try_map))

(***************************************************************************)
(* DbReader                                                                *)
(***************************************************************************)
open(src) ==
    LET hdr      == src[1]
        dict_len == src[hdr.docs_off + 1]
        idx_base == hdr.docs_off + 1 + dict_len
        blocks   == Slice(src, idx_base + 1, src[idx_base + 1])
        start[i \in 0..Len(blocks)] == IF i = 0 THEN 0 ELSE start[i - 1] + blocks[i].count
    IN  [num_docs |-> hdr.num_docs, build_time |-> hdr.build_time,
         meta_off |-> hdr.meta_off, try_off |-> hdr.try_off,
         slots    |-> SlotsOf(hdr.slots_log2),
         dict     |-> Slice(src, hdr.docs_off + 1, dict_len),
         blocks   |-> blocks,
         block_start |-> [i \in 1..Len(blocks) |-> start[i - 1]]]

doc_meta(src, r, docid) ==
    IF docid >= r.num_docs THEN NoValue ELSE src[r.meta_off + docid + 1]

\* partition_point(|s| s <= docid) - 1: the block docid falls into.
BlockOf(r, docid) ==
    Max({1} \cup {i \in DOMAIN r.block_start : r.block_start[i] <= docid})

InRange(r, docid) ==
    r.blocks # <<>> /\ docid - r.block_start[BlockOf(r, docid)] < r.blocks[BlockOf(r, docid)].count

\* Read and decompress block i.
ReadBlock(src, r, i) ==
    zstd_decode(Slice(src, r.blocks[i].off, r.blocks[i].clen), r.dict)

\* doc_path without the block cache in front of it.
doc_path(src, r, docid) ==
    IF ~InRange(r, docid) THEN NoValue
    ELSE LET i == BlockOf(r, docid)
         IN  extract_path(ReadBlock(src, r, i), docid - r.block_start[i])

DbPosting(h, src, r, trig) == posting(h, Slice(src, r.try_off, r.slots), src, trig)

PathMatches(path, q) ==
    IF q.case_sensitive THEN contains(path, q.original)
                        ELSE contains(fold(path), fold(q.original))

\* query.rs single_docids folds the raw needle itself; the limit caps what was
\* verified.
single_docids(h, src, r, q, limit) ==
    LET folded == fold(q.original)
    IN  candidates([t \in trigrams(folded) |-> DbPosting(h, src, r, t)],
                   {d \in 0..(r.num_docs - 1) : PathMatches(doc_path(src, r, d), q)},
                   r.num_docs, folded, limit)
=============================================================================
