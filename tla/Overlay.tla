------------------------------ MODULE Overlay -------------------------------
(***************************************************************************)
(* The hot overlay, df-content/src/overlay.rs: the LSM "MemTable" that     *)
(* absorbs per-file changes between compactions.                           *)
(*                                                                         *)
(* Each field of the Rust struct is a variable.  Docids are 1-based here   *)
(* (0-based in the code); by_path[p] = 0 is "no entry"; an empty posting   *)
(* set is an absent try_map key, since remove_doc_postings drops a key     *)
(* whose list became empty.                                                *)
(***************************************************************************)
EXTENDS Trigrams

CONSTANTS Path,      \* file paths
          Meta,      \* LiteMeta values
          Content,   \* texts a content-indexed file may hold
          None,      \* contents[d] = None: a directory, binary or oversized file
          Queries    \* the queries asked of the overlay

ASSUME ContentAssumption == /\ Content \subseteq Text
                            /\ None \notin Content

ASSUME QueriesAssumption == Queries \subseteq Query

VARIABLES by_path,       \* path -> docid
          paths,         \* docid -> path
          metas,         \* docid -> metadata
          contents,      \* docid -> content bytes or None
          try_map,       \* trigram -> docids
          doc_trigrams,  \* docid -> the trigrams it was indexed under
          tombstones     \* deleted paths

vars == <<by_path, paths, metas, contents, try_map, doc_trigrams, tombstones>>

MaybeContent == Content \cup {None}

Docids == 1..Len(paths)

Init == /\ by_path = [p \in Path |-> 0]
        /\ paths = <<>>
        /\ metas = <<>>
        /\ contents = <<>>
        /\ try_map = [t \in Trigram |-> {}]
        /\ doc_trigrams = <<>>
        /\ tombstones = {}

-----------------------------------------------------------------------------
(* Operations *)

\* The docid a new path gets.
NewDocid_Stale == Len(paths)          \* mutation: computed before the push, used after
NewDocid == Len(paths) + 1

\* The trigrams a document with content c is indexed under.
IndexedTrigrams_Unfolded(c) == IF c = None THEN {} ELSE trigrams(c)  \* mutation: no fold
IndexedTrigrams(c) == IF c = None THEN {} ELSE trigrams(fold(c))

\* An upsert revives a deleted path.
Revived_Not(p) == tombstones          \* mutation: tombstones.remove forgotten
Revived(p) == tombstones \ {p}

\* try_map after d's postings are dropped (only from the lists doc_trigrams[d]
\* names) ...
remove_doc_postings_Nothing(d) == try_map  \* mutation: old postings stay
remove_doc_postings(d) ==
    [t \in Trigram |-> IF t \in doc_trigrams[d] THEN try_map[t] \ {d} ELSE try_map[t]]

\* ... and after d is pushed to the list of every trigram in tris.
AddPostings(index, d, tris) ==
    [t \in Trigram |-> IF t \in tris THEN index[t] \cup {d} ELSE index[t]]

\* Upsert of a path that already has a slot: replaced in place.
Replace(p, m, c) ==
    LET d == by_path[p] IN
    /\ d # 0
    /\ metas' = [metas EXCEPT ![d] = m]
    /\ contents' = [contents EXCEPT ![d] = c]
    /\ try_map' = AddPostings(remove_doc_postings(d), d, IndexedTrigrams(c))
    /\ doc_trigrams' = [doc_trigrams EXCEPT ![d] = IndexedTrigrams(c)]
    /\ tombstones' = Revived(p)
    /\ UNCHANGED <<by_path, paths>>

\* Upsert of a new path: a slot is pushed at the end.
Push(p, m, c) ==
    LET d == NewDocid IN
    /\ by_path[p] = 0
    /\ by_path' = [by_path EXCEPT ![p] = d]
    /\ paths' = Append(paths, p)
    /\ metas' = Append(metas, m)
    /\ contents' = Append(contents, c)
    /\ try_map' = AddPostings(try_map, d, IndexedTrigrams(c))
    /\ doc_trigrams' = Append(doc_trigrams, IndexedTrigrams(c))
    /\ tombstones' = Revived(p)

\* apply_record(WalRecord::Upsert)
Upsert(p, m, c) == Replace(p, m, c) \/ Push(p, m, c)

\* Mutation: the slot of a deleted path keeps its content.
DeleteTracked_KeepsContent(p) ==
    /\ by_path[p] # 0
    /\ try_map' = remove_doc_postings(by_path[p])
    /\ doc_trigrams' = [doc_trigrams EXCEPT ![by_path[p]] = {}]
    /\ tombstones' = tombstones \cup {p}
    /\ UNCHANGED <<by_path, paths, metas, contents>>

\* Deleting a path with a slot leaves the slot behind, inert.
DeleteTracked(p) ==
    LET d == by_path[p] IN
    /\ d # 0
    /\ try_map' = remove_doc_postings(d)
    /\ contents' = [contents EXCEPT ![d] = None]
    /\ doc_trigrams' = [doc_trigrams EXCEPT ![d] = {}]
    /\ tombstones' = tombstones \cup {p}
    /\ UNCHANGED <<by_path, paths, metas>>

DeleteUntracked(p) ==
    /\ by_path[p] = 0
    /\ tombstones' = tombstones \cup {p}
    /\ UNCHANGED <<by_path, paths, metas, contents, try_map, doc_trigrams>>

\* apply_record(WalRecord::Delete)
Delete(p) == DeleteTracked(p) \/ DeleteUntracked(p)

\* Mutation: clear leaves the path table behind.
Clear_KeepsPaths == /\ paths' = <<>>
                    /\ metas' = <<>>
                    /\ contents' = <<>>
                    /\ try_map' = [t \in Trigram |-> {}]
                    /\ doc_trigrams' = <<>>
                    /\ tombstones' = {}
                    /\ UNCHANGED by_path

\* OverlayHandle::clear publishes Overlay::default().
Clear == /\ by_path' = [p \in Path |-> 0]
         /\ paths' = <<>>
         /\ metas' = <<>>
         /\ contents' = <<>>
         /\ try_map' = [t \in Trigram |-> {}]
         /\ doc_trigrams' = <<>>
         /\ tombstones' = {}

Next == \/ \E p \in Path, m \in Meta, c \in MaybeContent : Upsert(p, m, c)
        \/ \E p \in Path : Delete(p)
        \/ Clear

Spec == Init /\ [][Next]_vars

-----------------------------------------------------------------------------
(* Readers *)

suppresses_TrackedOnly(p) == by_path[p] # 0  \* mutation: tombstones not consulted
suppresses(p) == by_path[p] # 0 \/ p \in tombstones

shadows_anything == Len(paths) # 0 \/ tombstones # {}

\* The documents candidates() returns for q, before any cap.
Verified(q) ==
    {d \in prefilter(try_map, Len(paths), q) :
        d \in Docids /\ contents[d] # None /\ cs_verify(contents[d], q)}

\* The (path, metadata) pairs content_query returns when no limit is given.
content_query(q) ==
    {<<paths[d], metas[d]>> : d \in {e \in Verified(q) : paths[e] \notin tombstones}}

\* filename_query and content_regex_hits both scan the slots and skip the
\* tombstoned ones; these are the slots they look at.
LiveSlots == {d \in Docids : paths[d] \notin tombstones}

-----------------------------------------------------------------------------
(* Properties *)

\* The overlay as a map, read off its fields the way the daemon's merge reads
\* them: tombstone first, then the slot by_path names, else the cold index.
ViewOf(p) ==
    IF p \in tombstones THEN [state |-> "deleted"]
    ELSE IF by_path[p] # 0
    THEN [state |-> "doc", meta |-> metas[by_path[p]], content |-> contents[by_path[p]]]
    ELSE [state |-> "cold"]

Map == INSTANCE OverlayMap WITH view <- [p \in Path |-> ViewOf(p)]

\* Types of the struct's fields; every docid stored anywhere is in range.
TypeOK == /\ by_path \in [Path -> 0..Len(paths)]
          /\ paths \in Seq(Path)
          /\ metas \in Seq(Meta)
          /\ contents \in Seq(MaybeContent)
          /\ try_map \in [Trigram -> SUBSET Docids]
          /\ doc_trigrams \in Seq(SUBSET Trigram)
          /\ tombstones \in SUBSET Path

\* The five parallel vectors have one element per slot, and by_path and paths
\* are inverse to each other: no path ever owns two slots.
SlotsAgree ==
    /\ Len(metas) = Len(paths)
    /\ Len(contents) = Len(paths)
    /\ Len(doc_trigrams) = Len(paths)
    /\ \A p \in Path : by_path[p] # 0 =>
                         by_path[p] \in Docids /\ paths[by_path[p]] = p
    /\ \A d \in Docids : by_path[paths[d]] = d

\* The inverted index holds exactly the trigrams of the current contents: no
\* posting of an earlier version of a document survives its replacement or
\* deletion, however the path was changed before.
PostingsCurrent ==
    /\ \A d \in Docids : doc_trigrams[d] = IndexedTrigrams(contents[d])
    /\ \A t \in Trigram : try_map[t] = {d \in Docids : t \in doc_trigrams[d]}

\* A tombstoned slot has no content.  candidates() stops at the caller's limit
\* BEFORE content_query drops tombstoned documents, so a dead document that
\* still verified would eat into the limit and hide a live one.
DeadDocsNeverVerify ==
    \A p \in tombstones : by_path[p] # 0 => contents[by_path[p]] = None

\* What a scan of the live documents for q finds.
ScanHits(q) ==
    {<<p, metas[by_path[p]]>> : p \in
        {r \in Path : /\ ViewOf(r).state = "doc"
                      /\ contents[by_path[r]] # None
                      /\ cs_verify(contents[by_path[r]], q)}}

\* The trigram-indexed content query answers what a scan of the live documents
\* would: nothing stale, with current metadata, and nothing missed either, whatever
\* the needle when case is ignored, and when it is not, for a needle whose folded
\* form is fold(original).  For an exact search with a non-ASCII capital the code
\* misses matches, and only the first half is claimed.
ContentQueryExact ==
    \A q \in Queries :
        /\ content_query(q) \subseteq ScanHits(q)
        /\ IndexCovers(q) => content_query(q) = ScanHits(q)

\* Every cold hit the merge drops is for a path the overlay answers for, and
\* the retain pass is skipped only when there is nothing to drop.
ShadowsExact ==
    /\ \A p \in Path : suppresses(p) <=> ViewOf(p).state # "cold"
    /\ shadows_anything <=> \E p \in Path : suppresses(p)

\* Each operation does to the map what its name says, and does not leave it as
\* it was where the map's operation would change it.
StepMapsTo ==
    /\ \A p \in Path, m \in Meta, c \in MaybeContent : Upsert(p, m, c) => Map!Upsert(p, m, c)
    /\ \A p \in Path : Delete(p) => Map!Delete(p)
    /\ Clear => Map!Clear

\* The overlay, with its slots, postings and tombstones, implements the map its
\* readers rely on, operation by operation: whatever happened to a path before,
\* an upsert brings it to life, a delete hides it, a clear forgets it.
ImplementsMap == Map!Spec /\ [][StepMapsTo]_vars
=============================================================================
