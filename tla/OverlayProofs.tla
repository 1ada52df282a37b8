---------------------------- MODULE OverlayProofs ----------------------------
(***************************************************************************)
(* Proofs about the hot overlay (Overlay.tla), for every set of paths,     *)
(* contents and queries.                                                   *)
(***************************************************************************)
EXTENDS Overlay, TLAPS, FiniteSetTheorems, WellFoundedInduction

-----------------------------------------------------------------------------
(* Texts and trigrams *)

\* Folding keeps a byte string a byte string of the same length.
LEMMA FoldType ==
    ASSUME NEW s \in Text
    PROVE  fold(s) \in Text /\ Len(fold(s)) = Len(s)
BY FoldAssumption DEF Text, fold

\* The trigrams of a byte string are trigrams.
LEMMA TrigramsType ==
    ASSUME NEW s \in Text
    PROVE  trigrams(s) \in SUBSET Trigram
BY DEF Text, Trigram, trigrams

\* The trigrams of a text's substring are trigrams of the text: the fact that
\* makes the inverted index a sound prefilter.
LEMMA SubstringTrigrams ==
    ASSUME NEW h \in Text, NEW n \in Text, contains(h, n)
    PROVE  trigrams(n) \subseteq trigrams(h)
<1>1. PICK o \in 0..(Len(h) - Len(n)) : \A j \in 1..Len(n) : h[o + j] = n[j]
  BY DEF contains
<1>2. SUFFICES ASSUME NEW i \in 1..(Len(n) - 2)
               PROVE  <<n[i], n[i + 1], n[i + 2]>> \in trigrams(h)
  BY DEF trigrams
<1>a. Len(h) \in Nat /\ Len(n) \in Nat
  BY DEF Text
<1>3. /\ i \in 1..Len(n) /\ i + 1 \in 1..Len(n) /\ i + 2 \in 1..Len(n)
      /\ o + (i + 1) = (o + i) + 1 /\ o + (i + 2) = (o + i) + 2
      /\ o + i \in 1..(Len(h) - 2)
  BY <1>a
<1>4. h[o + i] = n[i] /\ h[(o + i) + 1] = n[i + 1] /\ h[(o + i) + 2] = n[i + 2]
  BY <1>1, <1>3
<1> QED
  BY <1>3, <1>4 DEF trigrams

\* An exact-case occurrence is also an occurrence after folding both sides.
LEMMA ContainsFold ==
    ASSUME NEW h \in Text, NEW n \in Text, contains(h, n)
    PROVE  contains(fold(h), fold(n))
<1>1. PICK o \in 0..(Len(h) - Len(n)) : \A j \in 1..Len(n) : h[o + j] = n[j]
  BY DEF contains
<1>2. Len(fold(h)) = Len(h) /\ Len(fold(n)) = Len(n) /\ Len(h) \in Nat /\ Len(n) \in Nat
  BY FoldType DEF Text
<1>3. ASSUME NEW j \in 1..Len(n)
      PROVE  fold(h)[o + j] = fold(n)[j]
  <2>1. o + j \in 1..Len(h)
    BY <1>2
  <2>2. h[o + j] = n[j]
    BY <1>1
  <2> QED
    BY <2>1, <2>2 DEF fold
<1> QED
  BY <1>1, <1>2, <1>3 DEF contains

\* A document that verifies has every trigram of the folded needle among its folded
\* trigrams: always when case is ignored, else for a needle the fold covers.
LEMMA VerifiedHasTrigrams ==
    ASSUME NEW c \in Content, NEW q \in Queries, IndexCovers(q), cs_verify(c, q)
    PROVE  trigrams(q.folded) \subseteq trigrams(fold(c))
<1>1. /\ c \in Text /\ fold(c) \in Text
      /\ q.folded \in Text /\ q.original \in Text
  BY ContentAssumption, QueriesAssumption, FoldType DEF Query
<1>2. contains(fold(c), q.folded)
  BY <1>1, ContainsFold DEF cs_verify, IndexCovers
<1> QED
  BY <1>1, <1>2, SubstringTrigrams

\* A non-empty set of finite posting lists has a shortest one.
LEMMA RarestInSet ==
    ASSUME NEW index, NEW tris, tris # {},
           \A t \in tris : IsFiniteSet(index[t])
    PROVE  rarest(index, tris) \in tris
<1> DEFINE sizes == {Cardinality(index[t]) : t \in tris}
<1>1. sizes \subseteq Nat /\ sizes # {}
  BY FS_CardinalityType
<1>2. \E x \in sizes : \A y \in sizes : ~(<<y, x>> \in OpToRel(<, Nat))
  <2> HIDE DEF sizes
  <2> QED BY <1>1, NatLessThanWellFounded, WFMin
<1>3. OpToRel(<, Nat) = {ss \in Nat \X Nat : ss[1] < ss[2]}
  BY Zenon DEF OpToRel
<1>4. \E x \in sizes : \A y \in sizes : ~(<<y, x>> \in {ss \in Nat \X Nat : ss[1] < ss[2]})
  BY <1>2, <1>3, Zenon
<1>a. PICK x \in sizes : \A y \in sizes : ~(<<y, x>> \in {ss \in Nat \X Nat : ss[1] < ss[2]})
  BY <1>4
<1>b. ASSUME NEW y \in sizes
      PROVE  x <= y
  <2>1. x \in Nat /\ y \in Nat
    BY <1>1
  <2>2. y < x => <<y, x>> \in {ss \in Nat \X Nat : ss[1] < ss[2]}
    <3> HIDE DEF sizes
    <3> QED BY <2>1
  <2>3. ~(y < x)
    BY <1>a, <2>2
  <2> QED
    BY <2>1, <2>3
<1>5. \E t \in tris : \A u \in tris : Cardinality(index[t]) <= Cardinality(index[u])
  BY <1>b
<1> QED
  BY <1>5 DEF rarest

-----------------------------------------------------------------------------
(* The inductive invariant *)

\* None of the four parts is preserved on its own: that the postings stay
\* current needs to know that the slot by_path names is the only one of its
\* path and that doc_trigrams still lists what was indexed under it.
IInv == TypeOK /\ SlotsAgree /\ PostingsCurrent /\ DeadDocsNeverVerify

\* What a document is indexed under is a set of trigrams.
LEMMA IndexedType ==
    ASSUME NEW c \in MaybeContent
    PROVE  IndexedTrigrams(c) \in SUBSET Trigram
BY ContentAssumption, FoldType, TrigramsType DEF MaybeContent, IndexedTrigrams

\* Overlay::default() satisfies the inductive invariant.
LEMMA InitIInv == Init => IInv
<1> SUFFICES ASSUME Init PROVE IInv
  OBVIOUS
<1>1. TypeOK
  BY DEF Init, TypeOK, Docids
<1>2. SlotsAgree
  BY DEF Init, SlotsAgree, Docids
<1>3. PostingsCurrent
  BY DEF Init, PostingsCurrent, Docids
<1>4. DeadDocsNeverVerify
  BY DEF Init, DeadDocsNeverVerify
<1> QED
  BY <1>1, <1>2, <1>3, <1>4 DEF IInv

\* An upsert of a tracked path drops the old postings and adds the new ones, so
\* slots and postings stay aligned.
LEMMA ReplaceIInv ==
    ASSUME IInv, NEW p \in Path, NEW m \in Meta, NEW c \in MaybeContent, Replace(p, m, c)
    PROVE  IInv'
<1> DEFINE d == by_path[p]
<1> USE DEF IInv
<1>1. d \in Docids /\ d # 0 /\ paths[d] = p /\ IndexedTrigrams(c) \in SUBSET Trigram
  BY IndexedType DEF TypeOK, SlotsAgree, Replace
<1>2. paths' = paths /\ by_path' = by_path /\ Docids' = Docids
  BY DEF Replace, Docids
<1>3. Len(metas) = Len(paths) /\ Len(contents) = Len(paths) /\ Len(doc_trigrams) = Len(paths)
  BY DEF SlotsAgree
<1>4. /\ metas' \in Seq(Meta) /\ Len(metas') = Len(paths)
      /\ contents' \in Seq(MaybeContent) /\ Len(contents') = Len(paths)
      /\ doc_trigrams' \in Seq(SUBSET Trigram) /\ Len(doc_trigrams') = Len(paths)
  BY <1>1, <1>3 DEF TypeOK, Replace, Docids
<1>5. \A e \in Docids : /\ contents'[e] = IF e = d THEN c ELSE contents[e]
                        /\ doc_trigrams'[e] = IF e = d THEN IndexedTrigrams(c) ELSE doc_trigrams[e]
  BY <1>1, <1>3 DEF TypeOK, Replace, Docids
<1>6. \A t \in Trigram :
         try_map'[t] = IF t \in IndexedTrigrams(c) THEN try_map[t] \cup {d} ELSE try_map[t] \ {d}
  <2> SUFFICES ASSUME NEW t \in Trigram
               PROVE  try_map'[t] = IF t \in IndexedTrigrams(c) THEN try_map[t] \cup {d} ELSE try_map[t] \ {d}
    OBVIOUS
  <2>1. try_map[t] = {e \in Docids : t \in doc_trigrams[e]}
    BY DEF PostingsCurrent
  <2>2. try_map'[t] = IF t \in IndexedTrigrams(c) THEN remove_doc_postings(d)[t] \cup {d} ELSE remove_doc_postings(d)[t]
    BY DEF Replace, AddPostings
  <2>3. remove_doc_postings(d)[t] = try_map[t] \ {d}
    BY <2>1, <1>1 DEF remove_doc_postings
  <2> QED
    BY <2>2, <2>3
<1>7. TypeOK'
  <2>1. try_map' \in [Trigram -> SUBSET Docids]
    <3>1. try_map' = [t \in Trigram |-> try_map'[t]]
      BY DEF Replace, AddPostings
    <3>2. \A t \in Trigram : try_map'[t] \in SUBSET Docids
      BY <1>6, <1>1, ZenonT(60) DEF TypeOK
    <3> QED BY <3>1, <3>2, Zenon
  <2>2. tombstones' \in SUBSET Path
    BY DEF TypeOK, Replace, Revived
  <2> QED BY <1>2, <1>4, <2>1, <2>2 DEF TypeOK
<1>8. SlotsAgree'
  BY <1>2, <1>4 DEF SlotsAgree
<1>9. PostingsCurrent'
  <2>1. \A e \in Docids : doc_trigrams'[e] = IndexedTrigrams(contents'[e])
    BY <1>5 DEF PostingsCurrent
  <2>2. ASSUME NEW t \in Trigram
        PROVE  try_map'[t] = {e \in Docids : t \in doc_trigrams'[e]}
    <3>1. try_map[t] = {e \in Docids : t \in doc_trigrams[e]}
      BY DEF PostingsCurrent
    <3>2. ASSUME NEW e PROVE e \in try_map'[t] <=> e \in Docids /\ t \in doc_trigrams'[e]
      <4>1. CASE e = d
        BY <4>1, <3>1, <1>1, <1>5, <1>6, ZenonT(60)
      <4>2. CASE e # d
        <5>1. e \in try_map'[t] <=> e \in try_map[t]
          BY <4>2, <1>6
        <5>2. e \in try_map[t] <=> e \in Docids /\ t \in doc_trigrams[e]
          BY <3>1
        <5>3. e \in Docids => doc_trigrams'[e] = doc_trigrams[e]
          BY <4>2, <1>5
        <5> QED BY <5>1, <5>2, <5>3
      <4> QED BY <4>1, <4>2
    <3> QED BY <3>2
  <2> QED BY <2>1, <2>2, <1>2 DEF PostingsCurrent, IndexedTrigrams
<1>10. DeadDocsNeverVerify'
  <2> SUFFICES ASSUME NEW r \in tombstones', by_path[r] # 0
               PROVE  contents'[by_path[r]] = None
    BY <1>2 DEF DeadDocsNeverVerify
  <2>1. r \in tombstones /\ r # p /\ r \in Path
    BY DEF Replace, Revived, TypeOK
  <2>2. by_path[r] \in Docids /\ paths[by_path[r]] = r
    BY <2>1 DEF SlotsAgree
  <2>3. by_path[r] # d
    BY <2>1, <2>2, <1>1
  <2>4. contents[by_path[r]] = None
    BY <2>1 DEF DeadDocsNeverVerify
  <2> QED BY <2>2, <2>3, <2>4, <1>5
<1> QED
  BY <1>7, <1>8, <1>9, <1>10

\* An upsert of a new path appends one element to every parallel vector.
LEMMA PushIInv ==
    ASSUME IInv, NEW p \in Path, NEW m \in Meta, NEW c \in MaybeContent, Push(p, m, c)
    PROVE  IInv'
<1> DEFINE d == Len(paths) + 1
<1> USE DEF IInv
<1>1. IndexedTrigrams(c) \in SUBSET Trigram /\ d \in Nat /\ d \notin Docids
  BY IndexedType DEF TypeOK, Docids
<1>2. Len(metas) = Len(paths) /\ Len(contents) = Len(paths) /\ Len(doc_trigrams) = Len(paths)
  BY DEF SlotsAgree
<1>3. /\ paths' \in Seq(Path) /\ Len(paths') = d /\ Docids' = Docids \cup {d}
      /\ metas' \in Seq(Meta) /\ Len(metas') = d
      /\ contents' \in Seq(MaybeContent) /\ Len(contents') = d
      /\ doc_trigrams' \in Seq(SUBSET Trigram) /\ Len(doc_trigrams') = d
  BY <1>1, <1>2, SMTT(60) DEF TypeOK, Push, NewDocid, Docids
<1>4. \A e \in Docids : /\ paths'[e] = paths[e]
                        /\ contents'[e] = contents[e]
                        /\ doc_trigrams'[e] = doc_trigrams[e]
  BY <1>2 DEF TypeOK, Push, Docids
<1>5. paths'[d] = p /\ contents'[d] = c /\ doc_trigrams'[d] = IndexedTrigrams(c)
  BY <1>2 DEF TypeOK, Push, NewDocid, Docids
<1>6. /\ by_path[p] = 0
      /\ by_path'[p] = d
      /\ \A r \in Path : r # p => by_path'[r] = by_path[r]
      /\ by_path' \in [Path -> 0..d]
  BY <1>1, SMTT(60) DEF TypeOK, Push, NewDocid
<1>7. \A t \in Trigram :
         try_map'[t] = IF t \in IndexedTrigrams(c) THEN try_map[t] \cup {d} ELSE try_map[t]
  BY DEF Push, AddPostings, NewDocid
<1>8. TypeOK'
  <2>1. try_map' \in [Trigram -> SUBSET Docids']
    <3>1. try_map' = [t \in Trigram |-> try_map'[t]]
      BY DEF Push, AddPostings
    <3>2. \A t \in Trigram : try_map'[t] \in SUBSET Docids'
      BY <1>3, <1>7 DEF TypeOK
    <3> QED BY <3>1, <3>2, Zenon
  <2>2. tombstones' \in SUBSET Path
    BY DEF TypeOK, Push, Revived
  <2> QED BY <1>3, <1>6, <2>1, <2>2 DEF TypeOK
<1>9. SlotsAgree'
  <2>1. ASSUME NEW r \in Path, by_path'[r] # 0
        PROVE  by_path'[r] \in Docids' /\ paths'[by_path'[r]] = r
    <3>1. CASE r = p
      BY <3>1, <1>3, <1>5, <1>6
    <3>2. CASE r # p
      <4>1. by_path[r] \in Docids /\ paths[by_path[r]] = r
        BY <3>2, <2>1, <1>6 DEF SlotsAgree
      <4> QED BY <4>1, <3>2, <1>3, <1>4, <1>6
    <3> QED BY <3>1, <3>2
  <2>2. ASSUME NEW e \in Docids'
        PROVE  by_path'[paths'[e]] = e
    <3>1. CASE e = d
      BY <3>1, <1>5, <1>6
    <3>2. CASE e # d
      <4>1. e \in Docids
        BY <3>2, <1>3
      <4>2. paths[e] \in Path /\ by_path[paths[e]] = e /\ e # 0
        BY <4>1 DEF SlotsAgree, TypeOK, Docids
      <4>3. paths[e] # p
        BY <4>2, <1>6
      <4> QED BY <4>1, <4>2, <4>3, <1>4, <1>6
    <3> QED BY <3>1, <3>2
  <2> QED BY <1>3, <2>1, <2>2 DEF SlotsAgree
<1>10. PostingsCurrent'
  <2>1. \A e \in Docids' : doc_trigrams'[e] = IndexedTrigrams(contents'[e])
    BY <1>3, <1>4, <1>5 DEF PostingsCurrent
  <2>2. ASSUME NEW t \in Trigram
        PROVE  try_map'[t] = {e \in Docids' : t \in doc_trigrams'[e]}
    <3>1. try_map[t] = {e \in Docids : t \in doc_trigrams[e]}
      BY DEF PostingsCurrent
    <3>2. ASSUME NEW e PROVE e \in try_map'[t] <=> e \in Docids' /\ t \in doc_trigrams'[e]
      <4>1. CASE e = d
        BY <4>1, <3>1, <1>1, <1>3, <1>5, <1>7
      <4>2. CASE e # d
        <5>1. e \in try_map'[t] <=> e \in try_map[t]
          BY <4>2, <1>7
        <5>2. e \in try_map[t] <=> e \in Docids /\ t \in doc_trigrams[e]
          BY <3>1
        <5>3. e \in Docids => doc_trigrams'[e] = doc_trigrams[e]
          BY <1>4
        <5> QED BY <5>1, <5>2, <5>3, <4>2, <1>3
      <4> QED BY <4>1, <4>2
    <3> QED BY <3>2
  <2> QED BY <2>1, <2>2 DEF PostingsCurrent, IndexedTrigrams
<1>11. DeadDocsNeverVerify'
  <2> SUFFICES ASSUME NEW r \in tombstones', by_path'[r] # 0
               PROVE  contents'[by_path'[r]] = None
    BY DEF DeadDocsNeverVerify
  <2>1. r \in tombstones /\ r # p /\ r \in Path
    BY DEF Push, Revived, TypeOK
  <2>2. by_path'[r] = by_path[r] /\ by_path[r] \in Docids
    BY <2>1, <1>6 DEF SlotsAgree
  <2>3. contents[by_path[r]] = None
    BY <2>1, <2>2 DEF DeadDocsNeverVerify
  <2> QED BY <2>2, <2>3, <1>4
<1> QED
  BY <1>8, <1>9, <1>10, <1>11

\* Deleting a tracked path empties its slot, its postings and its content.
LEMMA DeleteTrackedIInv ==
    ASSUME IInv, NEW p \in Path, DeleteTracked(p)
    PROVE  IInv'
<1> DEFINE d == by_path[p]
<1> USE DEF IInv
<1>1. d \in Docids /\ d # 0 /\ paths[d] = p
  BY DEF TypeOK, SlotsAgree, DeleteTracked
<1>2. paths' = paths /\ by_path' = by_path /\ metas' = metas /\ Docids' = Docids
  BY DEF DeleteTracked, Docids
<1>3. Len(contents) = Len(paths) /\ Len(doc_trigrams) = Len(paths)
  BY DEF SlotsAgree
<1>4. /\ contents' \in Seq(MaybeContent) /\ Len(contents') = Len(paths)
      /\ doc_trigrams' \in Seq(SUBSET Trigram) /\ Len(doc_trigrams') = Len(paths)
  BY <1>1, <1>3 DEF TypeOK, DeleteTracked, Docids, MaybeContent
<1>5. \A e \in Docids : /\ contents'[e] = IF e = d THEN None ELSE contents[e]
                        /\ doc_trigrams'[e] = IF e = d THEN {} ELSE doc_trigrams[e]
  BY <1>1, <1>3 DEF TypeOK, DeleteTracked, Docids
<1>6. \A t \in Trigram : try_map'[t] = try_map[t] \ {d}
  <2> SUFFICES ASSUME NEW t \in Trigram PROVE try_map'[t] = try_map[t] \ {d}
    OBVIOUS
  <2>1. try_map[t] = {e \in Docids : t \in doc_trigrams[e]}
    BY DEF PostingsCurrent
  <2> QED
    BY <2>1, <1>1 DEF DeleteTracked, remove_doc_postings
<1>7. TypeOK'
  <2>1. try_map' \in [Trigram -> SUBSET Docids]
    <3>1. try_map' = [t \in Trigram |-> try_map'[t]]
      BY DEF DeleteTracked, remove_doc_postings
    <3>2. \A t \in Trigram : try_map'[t] \in SUBSET Docids
      BY <1>6, <1>1 DEF TypeOK
    <3> QED BY <3>1, <3>2, Zenon
  <2>2. tombstones' \in SUBSET Path
    BY DEF TypeOK, DeleteTracked
  <2> QED BY <1>2, <1>4, <2>1, <2>2 DEF TypeOK
<1>8. SlotsAgree'
  BY <1>2, <1>4 DEF SlotsAgree
<1>9. PostingsCurrent'
  <2>1. \A e \in Docids : doc_trigrams'[e] = IndexedTrigrams(contents'[e])
    BY <1>5 DEF PostingsCurrent, IndexedTrigrams
  <2>2. ASSUME NEW t \in Trigram
        PROVE  try_map'[t] = {e \in Docids : t \in doc_trigrams'[e]}
    <3>1. try_map[t] = {e \in Docids : t \in doc_trigrams[e]}
      BY DEF PostingsCurrent
    <3>2. ASSUME NEW e PROVE e \in try_map'[t] <=> e \in Docids /\ t \in doc_trigrams'[e]
      <4>1. CASE e = d
        BY <4>1, <3>1, <1>1, <1>5, <1>6
      <4>2. CASE e # d
        <5>1. e \in try_map'[t] <=> e \in try_map[t]
          BY <4>2, <1>6
        <5>2. e \in try_map[t] <=> e \in Docids /\ t \in doc_trigrams[e]
          BY <3>1
        <5>3. e \in Docids => doc_trigrams'[e] = doc_trigrams[e]
          BY <4>2, <1>5
        <5> QED BY <5>1, <5>2, <5>3
      <4> QED BY <4>1, <4>2
    <3> QED BY <3>2
  <2> QED BY <2>1, <2>2, <1>2 DEF PostingsCurrent, IndexedTrigrams
<1>10. DeadDocsNeverVerify'
  <2> SUFFICES ASSUME NEW r \in tombstones', by_path[r] # 0
               PROVE  contents'[by_path[r]] = None
    BY <1>2 DEF DeadDocsNeverVerify
  <2>1. r \in Path /\ (r = p \/ r \in tombstones)
    BY DEF DeleteTracked, TypeOK
  <2>2. by_path[r] \in Docids
    BY <2>1 DEF SlotsAgree
  <2>3. r \in tombstones => contents[by_path[r]] = None
    BY DEF DeadDocsNeverVerify
  <2> QED BY <2>1, <2>2, <2>3, <1>5
<1> QED
  BY <1>7, <1>8, <1>9, <1>10

\* Deleting an untracked path adds a tombstone and touches no slot.
LEMMA DeleteUntrackedIInv ==
    ASSUME IInv, NEW p \in Path, DeleteUntracked(p)
    PROVE  IInv'
<1> USE DEF IInv
<1>1. TypeOK'
  BY DEF DeleteUntracked, TypeOK, Docids
<1>2. SlotsAgree' /\ PostingsCurrent'
  BY DEF DeleteUntracked, SlotsAgree, PostingsCurrent, Docids, IndexedTrigrams
<1>3. DeadDocsNeverVerify'
  BY DEF DeleteUntracked, DeadDocsNeverVerify
<1> QED
  BY <1>1, <1>2, <1>3

\* OverlayHandle::clear leaves an overlay like the initial one.
LEMMA ClearIInv == Clear => IInv'
<1> SUFFICES ASSUME Clear PROVE IInv'
  OBVIOUS
<1>1. TypeOK'
  BY DEF Clear, TypeOK, Docids
<1>2. SlotsAgree'
  BY DEF Clear, SlotsAgree, Docids
<1>3. PostingsCurrent'
  BY DEF Clear, PostingsCurrent, Docids
<1>4. DeadDocsNeverVerify'
  BY DEF Clear, DeadDocsNeverVerify
<1> QED
  BY <1>1, <1>2, <1>3, <1>4 DEF IInv

\* One step of the overlay preserves the inductive invariant.
LEMMA NextIInv == IInv /\ [Next]_vars => IInv'
<1> SUFFICES ASSUME IInv, [Next]_vars PROVE IInv'
  OBVIOUS
<1>1. ASSUME NEW p \in Path, NEW m \in Meta, NEW c \in MaybeContent, Upsert(p, m, c)
      PROVE  IInv'
  BY <1>1, ReplaceIInv, PushIInv DEF Upsert
<1>2. ASSUME NEW p \in Path, Delete(p)
      PROVE  IInv'
  BY <1>2, DeleteTrackedIInv, DeleteUntrackedIInv DEF Delete
<1>3. CASE Clear
  BY <1>3, ClearIInv
<1>4. CASE UNCHANGED vars
  BY <1>4 DEF vars, IInv, TypeOK, SlotsAgree, PostingsCurrent, DeadDocsNeverVerify,
              Docids, IndexedTrigrams
<1> QED
  BY <1>1, <1>2, <1>3, <1>4 DEF Next

\* The struct's fields keep their types and every stored docid is in range.
THEOREM TypeCorrect == Spec => []TypeOK
<1>1. IInv => TypeOK
  BY DEF IInv
<1> QED
  BY <1>1, InitIInv, NextIInv, PTL DEF Spec

\* The path table stays one-to-one and the vectors stay parallel.
THEOREM SlotsStayAligned == Spec => []SlotsAgree
<1>1. IInv => SlotsAgree
  BY DEF IInv
<1> QED
  BY <1>1, InitIInv, NextIInv, PTL DEF Spec

\* The inverted index never holds a stale posting and never misses one.
THEOREM PostingsStayCurrent == Spec => []PostingsCurrent
<1>1. IInv => PostingsCurrent
  BY DEF IInv
<1> QED
  BY <1>1, InitIInv, NextIInv, PTL DEF Spec

\* A tombstoned document never takes a place under the caller's limit.
THEOREM DeadDocsStayOut == Spec => []DeadDocsNeverVerify
<1>1. IInv => DeadDocsNeverVerify
  BY DEF IInv
<1> QED
  BY <1>1, InitIInv, NextIInv, PTL DEF Spec

-----------------------------------------------------------------------------
(* What readers get *)

\* The rarest-trigram prefilter loses no document that verifies.
LEMMA PrefilterComplete ==
    ASSUME IInv, NEW q \in Queries, IndexCovers(q)
    PROVE  Verified(q) = {d \in Docids : contents[d] # None /\ cs_verify(contents[d], q)}
<1> USE DEF IInv
<1>1. Len(paths) \in Nat /\ Len(contents) = Len(paths)
  BY DEF TypeOK, SlotsAgree
<1>2. SUFFICES ASSUME NEW d \in Docids, contents[d] # None, cs_verify(contents[d], q)
               PROVE  d \in prefilter(try_map, Len(paths), q)
  BY DEF Verified
<1>3. contents[d] \in Content
  BY <1>1, <1>2 DEF TypeOK, Docids, MaybeContent
<1>4. CASE Len(q.folded) < 3
  BY <1>4 DEF prefilter, Docids
<1>5. CASE ~(Len(q.folded) < 3)
  <2> DEFINE qtris == trigrams(q.folded)
  <2>1. q.folded \in Text /\ Len(q.folded) \in Nat
    BY QueriesAssumption DEF Query, Text
  <2>2. qtris # {} /\ qtris \subseteq Trigram
    <3>1. 1 \in 1..(Len(q.folded) - 2)
      BY <1>5, <2>1
    <3>2. <<q.folded[1], q.folded[1 + 1], q.folded[1 + 2]>> \in qtris
      BY <3>1 DEF trigrams
    <3> QED BY <3>2, <2>1, TrigramsType
  <2>3. qtris \subseteq doc_trigrams[d]
    <3>1. qtris \subseteq trigrams(fold(contents[d]))
      BY <1>2, <1>3, VerifiedHasTrigrams
    <3> QED BY <3>1, <1>2 DEF PostingsCurrent, IndexedTrigrams
  <2>4. \A t \in qtris : d \in try_map[t] /\ IsFiniteSet(try_map[t])
    <3> SUFFICES ASSUME NEW t \in qtris PROVE d \in try_map[t] /\ IsFiniteSet(try_map[t])
      OBVIOUS
    <3>1. try_map[t] = {e \in Docids : t \in doc_trigrams[e]}
      BY <2>2 DEF PostingsCurrent
    <3>2. IsFiniteSet(Docids)
      BY <1>1, FS_Interval DEF Docids
    <3>3. try_map[t] \subseteq Docids
      BY <3>1
    <3>4. d \in try_map[t]
      BY <3>1, <2>3
    <3> QED BY <3>2, <3>3, <3>4, FS_Subset
  <2>5. rarest(try_map, qtris) \in qtris
    BY <2>2, <2>4, RarestInSet
  <2>6. prefilter(try_map, Len(paths), q) = try_map[rarest(try_map, qtris)]
    BY <1>5, <2>4 DEF prefilter
  <2> QED BY <2>4, <2>5, <2>6
<1> QED
  BY <1>4, <1>5

\* The content query answers what a scan of the live documents would, as far as
\* the index covers the needle, and never more than that.
LEMMA IInvQueryExact == IInv => ContentQueryExact
<1> USE DEF IInv
<1> SUFFICES ASSUME IInv, NEW q \in Queries
             PROVE  /\ content_query(q) \subseteq ScanHits(q)
                    /\ IndexCovers(q) => content_query(q) = ScanHits(q)
  BY DEF ContentQueryExact
<1> DEFINE Hit(d) == contents[d] # None /\ cs_verify(contents[d], q)
<1>s. ScanHits(q) = {<<p, metas[by_path[p]]>> : p \in {r \in Path : ViewOf(r).state = "doc" /\ Hit(by_path[r])}}
  BY DEF ScanHits
<1>1. /\ Verified(q) \subseteq {d \in Docids : Hit(d)}
      /\ IndexCovers(q) => Verified(q) = {d \in Docids : Hit(d)}
  BY PrefilterComplete DEF Verified
<1>2. \A r \in Path : ViewOf(r).state = "doc" <=> r \notin tombstones /\ by_path[r] # 0
  BY DEF ViewOf
<1>3. ASSUME NEW d \in Docids, Hit(d), paths[d] \notin tombstones
      PROVE  \E p \in Path : /\ ViewOf(p).state = "doc" /\ Hit(by_path[p])
                            /\ <<paths[d], metas[d]>> = <<p, metas[by_path[p]]>>
  <2>1. paths[d] \in Path /\ by_path[paths[d]] = d /\ d # 0
    BY DEF TypeOK, SlotsAgree, Docids
  <2>2. ViewOf(paths[d]).state = "doc"
    BY <2>1, <1>2, <1>3
  <2> QED BY <2>1, <2>2, <1>3
<1>4. ASSUME NEW p \in Path, ViewOf(p).state = "doc", Hit(by_path[p])
      PROVE  \E d \in Docids : /\ Hit(d) /\ paths[d] \notin tombstones
                              /\ <<p, metas[by_path[p]]>> = <<paths[d], metas[d]>>
  <2>1. p \notin tombstones /\ by_path[p] \in Docids /\ paths[by_path[p]] = p
    BY <1>2, <1>4 DEF SlotsAgree
  <2> QED BY <2>1, <1>4
<1> DEFINE live == {<<paths[d], metas[d]>> : d \in {e \in Docids : Hit(e) /\ paths[e] \notin tombstones}}
<1>5. /\ content_query(q) \subseteq live
      /\ IndexCovers(q) => content_query(q) = live
  BY <1>1 DEF content_query
<1>6. live = ScanHits(q)
  <2> HIDE DEF Hit
  <2> QED BY <1>s, <1>3, <1>4
<1> QED
  BY <1>5, <1>6

\* In every reachable state a content query over the overlay shows live matches
\* only, and all of them, whatever the needle when case is ignored; an exact
\* search has all of them for needles without non-ASCII capitals (content_query).
THEOREM QueryExact == Spec => []ContentQueryExact
BY InitIInv, NextIInv, IInvQueryExact, PTL DEF Spec

\* The merge's suppression test agrees with the map the overlay represents.
LEMMA IInvShadows == IInv => ShadowsExact
<1> USE DEF IInv
<1> SUFFICES ASSUME IInv PROVE ShadowsExact
  OBVIOUS
<1>1. \A p \in Path : suppresses(p) <=> ViewOf(p).state # "cold"
  BY DEF suppresses, ViewOf
<1>2. Len(paths) # 0 => \E p \in Path : by_path[p] # 0
  <2> SUFFICES ASSUME Len(paths) # 0 PROVE \E p \in Path : by_path[p] # 0
    OBVIOUS
  <2>1. 1 \in Docids
    BY DEF TypeOK, Docids
  <2> QED BY <2>1 DEF TypeOK, SlotsAgree, Docids
<1>3. \A p \in Path : by_path[p] # 0 => Len(paths) # 0
  BY DEF TypeOK
<1>4. shadows_anything <=> \E p \in Path : suppresses(p)
  BY <1>2, <1>3 DEF shadows_anything, suppresses, TypeOK
<1> QED
  BY <1>1, <1>4 DEF ShadowsExact

\* Suppression is exact in every reachable state.
THEOREM ShadowingExact == Spec => []ShadowsExact
BY InitIInv, NextIInv, IInvShadows, PTL DEF Spec

-----------------------------------------------------------------------------
(* The overlay implements the map *)

\* An upsert, in place or with a new slot, is the map's upsert.
LEMMA UpsertMaps ==
    ASSUME IInv, NEW p \in Path, NEW m \in Meta, NEW c \in MaybeContent, Upsert(p, m, c)
    PROVE  Map!Upsert(p, m, c)
<1> USE DEF IInv
<1>1. CASE Replace(p, m, c)
  <2>1. \A r \in Path : ViewOf(r)' = IF r = p THEN Map!Doc(m, c) ELSE ViewOf(r)
    <3> SUFFICES ASSUME NEW r \in Path
                 PROVE  ViewOf(r)' = IF r = p THEN Map!Doc(m, c) ELSE ViewOf(r)
      OBVIOUS
    <3>1. /\ by_path[p] # 0 /\ by_path[p] \in Docids
          /\ Len(metas) = Len(paths) /\ Len(contents) = Len(paths)
          /\ by_path' = by_path
      BY <1>1 DEF Replace, SlotsAgree
    <3>2. r # p /\ by_path[r] # 0 => by_path[r] # by_path[p] /\ by_path[r] \in Docids
      BY <3>1 DEF SlotsAgree
    <3>3. metas'[by_path[p]] = m /\ contents'[by_path[p]] = c
      BY <1>1, <3>1 DEF Replace, TypeOK, Docids
    <3>4. r # p /\ by_path[r] # 0 => /\ metas'[by_path[r]] = metas[by_path[r]]
                                     /\ contents'[by_path[r]] = contents[by_path[r]]
      BY <1>1, <3>1, <3>2 DEF Replace, TypeOK, Docids
    <3>5. r \in tombstones' <=> r \in tombstones /\ r # p
      BY <1>1 DEF Replace, Revived
    <3> QED BY <3>1, <3>3, <3>4, <3>5 DEF ViewOf, Map!Doc
  <2> QED BY <2>1 DEF Map!Upsert
<1>2. CASE Push(p, m, c)
  <2>1. \A r \in Path : ViewOf(r)' = IF r = p THEN Map!Doc(m, c) ELSE ViewOf(r)
    <3> SUFFICES ASSUME NEW r \in Path
                 PROVE  ViewOf(r)' = IF r = p THEN Map!Doc(m, c) ELSE ViewOf(r)
      OBVIOUS
    <3>1. /\ Len(metas) = Len(paths) /\ Len(contents) = Len(paths) /\ Len(paths) \in Nat
          /\ by_path'[p] = Len(paths) + 1
          /\ r # p => by_path'[r] = by_path[r]
      BY <1>2 DEF Push, NewDocid, SlotsAgree, TypeOK
    <3>2. r # p /\ by_path[r] # 0 => by_path[r] \in Docids
      BY DEF SlotsAgree
    <3>3. metas'[by_path'[p]] = m /\ contents'[by_path'[p]] = c
      BY <1>2, <3>1 DEF Push, TypeOK
    <3>4. r # p /\ by_path[r] # 0 => /\ metas'[by_path[r]] = metas[by_path[r]]
                                     /\ contents'[by_path[r]] = contents[by_path[r]]
      BY <1>2, <3>1, <3>2 DEF Push, TypeOK, Docids
    <3>5. r \in tombstones' <=> r \in tombstones /\ r # p
      BY <1>2 DEF Push, Revived
    <3> QED BY <3>1, <3>3, <3>4, <3>5 DEF ViewOf, Map!Doc
  <2> QED BY <2>1 DEF Map!Upsert
<1> QED BY <1>1, <1>2 DEF Upsert

\* A delete, of a path with or without a slot, is the map's delete.
LEMMA DeleteMaps ==
    ASSUME IInv, NEW p \in Path, Delete(p)
    PROVE  Map!Delete(p)
<1> USE DEF IInv
<1>1. \A r \in Path : ViewOf(r)' = IF r = p THEN Map!Deleted ELSE ViewOf(r)
  <2> SUFFICES ASSUME NEW r \in Path
               PROVE  ViewOf(r)' = IF r = p THEN Map!Deleted ELSE ViewOf(r)
    OBVIOUS
  <2>1. by_path' = by_path /\ metas' = metas /\ (r \in tombstones' <=> r \in tombstones \/ r = p)
    BY DEF Delete, DeleteTracked, DeleteUntracked
  <2>2. r # p /\ by_path[r] # 0 => contents'[by_path[r]] = contents[by_path[r]]
    <3>1. CASE DeleteTracked(p)
      <4>1. /\ by_path[p] # 0 /\ by_path[p] \in Docids /\ Len(contents) = Len(paths)
        BY <3>1 DEF DeleteTracked, SlotsAgree
      <4>2. r # p /\ by_path[r] # 0 => by_path[r] # by_path[p] /\ by_path[r] \in Docids
        BY <4>1 DEF SlotsAgree
      <4> QED BY <3>1, <4>1, <4>2 DEF DeleteTracked, TypeOK, Docids
    <3>2. CASE DeleteUntracked(p)
      BY <3>2 DEF DeleteUntracked
    <3> QED BY <3>1, <3>2 DEF Delete
  <2> QED BY <2>1, <2>2 DEF ViewOf, Map!Deleted
<1> QED BY <1>1 DEF Map!Delete

\* The empty overlay is the map that leaves everything to the cold index.
LEMMA ClearMaps == Clear => Map!Clear
BY DEF Clear, Map!Clear, Map!Cold, ViewOf

\* The overlay with its postings, slots and tombstones implements the plain
\* path-to-document map of OverlayMap, operation by operation.
THEOREM OverlayImplementsMap == Spec => ImplementsMap
<1> DEFINE v == [p \in Path |-> ViewOf(p)]
<1>1. Init => Map!Init
  BY DEF Init, Map!Init, Map!Cold, ViewOf
<1>2. IInv /\ [Next]_vars => [Map!Next]_v
  <2> SUFFICES ASSUME IInv, [Next]_vars PROVE [Map!Next]_v
    OBVIOUS
  <2>1. CASE UNCHANGED vars
    BY <2>1 DEF vars, ViewOf
  <2> QED BY <2>1, UpsertMaps, DeleteMaps, ClearMaps DEF Next, Map!Next
<1>3. IInv => StepMapsTo
  BY UpsertMaps, DeleteMaps, ClearMaps DEF StepMapsTo
<1> QED
  BY <1>1, <1>2, <1>3, InitIInv, NextIInv, PTL DEF Spec, ImplementsMap, Map!Spec
=============================================================================
