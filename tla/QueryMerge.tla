---------------------------- MODULE QueryMerge ------------------------------
(***************************************************************************)
(* How the daemon answers one search (deepfindd/src/lib.rs: query_entry,   *)
(* merge_in, override_in and the path-batch and line modes of handle_conn; *)
(* df-ipc/src/filter.rs: passes; df-core/src/scope.rs).                    *)
(*                                                                         *)
(* A path is the sequence of its components.  A document is a path and     *)
(* what its text does to the query: NoValue if it has no indexed text,     *)
(* "miss", "atom" (it contains the literal atom of the regex, but the      *)
(* regex does not match) or "hit".  A database is                          *)
(*   [name, files: the paths of index.dfdb, shards: sequences of           *)
(*    documents, slots: the overlay's documents, dead: its tombstones].    *)
(* meta says which layer the metadata shown for a path came from.          *)
(* Options are a record with the fields of QueryCtx and SearchOptions; a   *)
(* glob stands for the set of the paths it matches, and expr is a sequence *)
(* of bfs tokens.                                                          *)
(***************************************************************************)
EXTENDS QuerySyntax, FiniteSetsExt

CONSTANTS NeedleIn,       \* the component names that contain the needle or the atom
          Ext,            \* component name -> its extension
          Category,       \* type category -> its extensions (type_extensions)
          RegexPaths,     \* the paths the regex matches
          Size, Mtime,    \* layer -> the size and time of its versions of files
          NewerTime,      \* file of -newer -> its time, NoValue if it cannot be read
          PathOrder       \* the paths of the instance in the order of their bytes

Take(s, limit) == IF limit = NoValue THEN s ELSE SubSeq(s, 1, Min({limit, Len(s)}))

(***************************************************************************)
(* scope.rs and filter.rs                                                  *)
(***************************************************************************)
strip_dot(p) == IF Len(p) > 1 /\ p[1] = "." THEN Tail(p) ELSE p
in_scope(p, scope) == scope = NoValue \/ IsPrefix(strip_dot(scope), strip_dot(p))
depth_of(p) == Len(strip_dot(p)) - 1
ext_of(p) == Ext[Last(p)]
gmatch(glob, p) == p \in glob \/ strip_dot(p) \in glob

passes(p, o) ==
    /\ o.extensions # {} => ext_of(p) \in o.extensions
    /\ o.types # {} => \E t \in o.types \cap DOMAIN Category : ext_of(p) \in Category[t]
    /\ \A g \in o.excludes : ~gmatch(g, p)
    /\ o.globs # {} => \E g \in o.globs : gmatch(g, p)
    /\ o.max_depth # NoValue => depth_of(p) <= o.max_depth

\* The needle in the path, or in its last component with path_mode Basename.
NameHit(p, o) == \E i \in DOMAIN p : p[i] \in NeedleIn /\ (o.basename => i = Len(p))

(***************************************************************************)
(* The cold layers.  query_docids and candidates() return the first        *)
(* `limit` of their hits; content_regex_docids limits the candidates and   *)
(* verifies afterwards.                                                    *)
(***************************************************************************)
eff_limit(o) == IF o.scope = NoValue THEN o.limit ELSE NoValue

FilenameHits(db, o) ==
    SelectSeq(Take(SelectSeq(db.files, LAMBDA p : NameHit(p, [o EXCEPT !.basename = FALSE])),
                   eff_limit(o)),
              LAMBDA p : in_scope(p, o.scope) /\ NameHit(p, o))

Hit(d) == d.text = "hit"

content_regex_docids(docs, o) == SelectSeq(Take(SelectSeq(docs, LAMBDA d : d.text \in {"atom", "hit"}), o.limit), Hit)

\* ContentShards::query and query_regex.
ShardHits(db, o) ==
    SelectSeq(FlattenSeq([k \in DOMAIN db.shards |->
                             IF o.regex THEN content_regex_docids(db.shards[k], o)
                             ELSE Take(SelectSeq(db.shards[k], Hit), o.limit)]),
              LAMBDA d : in_scope(d.path, o.scope))

(***************************************************************************)
(* The overlay.                                                            *)
(***************************************************************************)
\* Mutation: only upserted paths shadow the cold layers, deleted ones do not.
suppresses_SlotsOnly(db, p) == \E i \in DOMAIN db.slots : db.slots[i].path = p

suppresses(db, p) == p \in db.dead \/ \E i \in DOMAIN db.slots : db.slots[i].path = p
shadows_anything(db) == db.slots # <<>> \/ db.dead # {}
Live(db, d) == d.path \notin db.dead

filename_query(db, o) == Take(SelectSeq(db.slots, LAMBDA d : Live(db, d) /\ NameHit(d.path, o)), o.limit)

content_regex_hits(db, o) == Take(SelectSeq(db.slots, LAMBDA d : Live(db, d) /\ Hit(d)), o.limit)

\* content_query takes the first `limit` candidates and drops dead ones then.
OverlayHits(db, o) ==
    IF o.regex THEN content_regex_hits(db, o)
    ELSE SelectSeq(Take(SelectSeq(db.slots, Hit), o.limit), LAMBDA d : Live(db, d))

(***************************************************************************)
(* The merge by path.  A map is a function from paths to [kind, meta].     *)
(***************************************************************************)
combine_kind(a, b) == IF a = b THEN b ELSE "Both"

\* Mutation: off by one, the map is full with one entry less.
Full_Early(map, cap) == cap # NoValue /\ Cardinality(DOMAIN map) + 1 >= cap

Full(map, cap) == cap # NoValue /\ Cardinality(DOMAIN map) >= cap
Put(map, p, e) == [q \in DOMAIN map \cup {p} |-> IF q = p THEN e ELSE map[q]]

merge_in(map, p, meta, kind, cap) ==
    IF p \in DOMAIN map THEN [map EXCEPT ![p].kind = combine_kind(@, kind)]
    ELSE IF Full(map, cap) THEN map
    ELSE Put(map, p, [kind |-> kind, meta |-> meta])

\* The entry that comes in wins.
override_in(map, p, meta, kind, cap) ==
    IF p \in DOMAIN map THEN Put(map, p, [kind |-> combine_kind(map[p].kind, kind), meta |-> meta])
    ELSE IF Full(map, cap) THEN map
    ELSE Put(map, p, [kind |-> kind, meta |-> meta])

query_entry(db, o, cap) ==
    LET names == IF o.want_fn
                 THEN FoldLeft(LAMBDA m, p : merge_in(m, p, "cold", "Filename", cap),
                               <<>>, FilenameHits(db, o))
                 ELSE <<>>
        cold  == IF o.want_ct
                 THEN FoldLeft(LAMBDA m, d : merge_in(m, d.path, "cold", "Content", cap),
                               names, ShardHits(db, o))
                 ELSE names
        kept  == IF shadows_anything(db) THEN [p \in {q \in DOMAIN cold : ~suppresses(db, q)} |-> cold[p]]
                 ELSE cold
        add(m, hits, kind) ==
            FoldLeft(LAMBDA n, d : override_in(n, d.path, "hot", kind, cap), m,
                     SelectSeq(hits, LAMBDA d : in_scope(d.path, o.scope)))
        hotNames == IF o.want_fn THEN add(kept, filename_query(db, o), "Filename") ELSE kept
    IN  IF o.want_ct THEN add(hotNames, OverlayHits(db, o), "Content") ELSE hotNames

(***************************************************************************)
(* handle_conn: one database after the other into one map.  The map of a   *)
(* database is iterated in the order of its hashes, so any of its new      *)
(* paths may be the ones that still fit.                                   *)
(***************************************************************************)
MergeEntry(map, per, cap) ==
    LET new  == DOMAIN per \ DOMAIN map
        room == IF cap = NoValue THEN Cardinality(new)
                ELSE Min({Cardinality(new), Max({0, cap - Cardinality(DOMAIN map)})})
    IN  {[p \in DOMAIN map \cup fit |->
            IF p \notin DOMAIN map THEN per[p]
            ELSE IF p \in DOMAIN per THEN [map[p] EXCEPT !.kind = combine_kind(@, per[p].kind)]
            ELSE map[p]] : fit \in kSubset(room, new)}

NoFilters(o) == o.extensions = {} /\ o.types = {} /\ o.excludes = {} /\ o.globs = {} /\ o.max_depth = NoValue

merge_cap(o) == IF NoFilters(o) THEN o.limit ELSE NoValue

select(dbs, name) == SelectSeq(dbs, LAMBDA db : name \in {NoValue, db.name})

MergedMaps(dbs, o) ==
    FoldLeft(LAMBDA maps, db :
                 UNION {MergeEntry(m, query_entry(db, o, merge_cap(o)), merge_cap(o)) : m \in maps},
             {<<>>}, dbs)

\* bfs::eval_prim; the patterns of -name have no wildcards here.
eval_prim(prim, p, meta) ==
    LET arg  == prim[2].kind
        size == parse_size(arg)
    IN  CASE prim[1].kind = "-name" -> Last(p) = arg
          [] prim[1].kind = "-size" -> \/ size.cmp = "Eq" /\ Size[meta] = size.n
                                       \/ size.cmp = "Gt" /\ Size[meta] > size.n
                                       \/ size.cmp = "Lt" /\ Size[meta] < size.n
          [] prim[1].kind = "-newer" -> NewerTime[arg] # NoValue /\ Mtime[meta] > NewerTime[arg]

\* A malformed expression is dropped (`parse(..).ok()`): everything passes.
ExprPasses(p, meta, o) ==
    LET tree == IF o.expr = NoValue THEN NoValue ELSE ExprParse(o.expr)
    IN  tree = NoValue \/ eval(tree, {q \in Prims(tree) : eval_prim(q, p, meta)})

\* The filters behind the merge; the regex is applied to names only.
Delivered(map, o) ==
    {[path |-> p, kind |-> map[p].kind, meta |-> map[p].meta] :
        p \in {q \in DOMAIN map : /\ passes(q, o)
                                  /\ (o.regex /\ map[q].kind = "Filename") => q \in RegexPaths
                                  /\ ExprPasses(q, map[q].meta, o)}}

kind_weight(k) == CASE k = "Both" -> 0 [] k = "Content" -> 1 [] k = "Filename" -> 2
PathRank(p) == CHOOSE i \in DOMAIN PathOrder : PathOrder[i] = p

SortKey(e, mode) ==
    CASE mode = "None" -> 0
      [] mode = "Path" -> PathRank(e.path)
      [] mode = "Kind" -> kind_weight(e.kind)
      [] mode = "Default" -> (kind_weight(e.kind) * 10 + depth_of(e.path)) * 10 + PathRank(e.path)

\* sort_entries is stable over the arbitrary order of a hash map.
sort_entries(entries, mode) ==
    {s \in SetToSeqs(entries) :
        \A i, j \in DOMAIN s : i < j => SortKey(s[i], mode) <= SortKey(s[j], mode)}

\* What a search may answer; NoValue for the error of an unknown database.
Answers(dbs, o) ==
    LET chosen == select(dbs, o.db)
    IN  IF o.db # NoValue /\ chosen = <<>> THEN {NoValue}
        ELSE UNION {{Take(s, o.limit) : s \in sort_entries(Delivered(m, o), o.sort)} :
                        m \in MergedMaps(chosen, o)}

(***************************************************************************)
(* -n and -C: hits are not merged by path.  One hit per matching document  *)
(* stands for its lines (module Filters).                                  *)
(***************************************************************************)
Shown(docs, meta) == [i \in DOMAIN docs |-> [path |-> docs[i].path, meta |-> meta]]

overlay_line_hits(db, o) ==
    Take(SelectSeq(db.slots, LAMBDA d : Live(db, d) /\ in_scope(d.path, o.scope) /\ Hit(d)), o.limit)

LineAnswer(dbs, o) ==
    FoldLeft(LAMBDA all, db :
                 SelectSeq(all \o Shown(ShardHits(db, o), "cold"), LAMBDA h : ~suppresses(db, h.path))
                 \o Shown(overlay_line_hits(db, o), "hot"),
             <<>>, select(dbs, o.db))
=============================================================================
