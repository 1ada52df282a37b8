------------------------------ MODULE Trigrams ------------------------------
(***************************************************************************)
(* The byte-level vocabulary every index layer of DeepFind shares: the     *)
(* ASCII case fold (df-content/src/fold.rs), trigram extraction            *)
(* (df-core/src/trigram.rs) and the rarest-trigram candidate generation    *)
(* with per-document verification (df-core/src/candidate.rs).              *)
(*                                                                         *)
(* A text is a sequence of bytes; a posting list is the set of docids in   *)
(* it (the lists hold no duplicates, so their length is a cardinality).    *)
(***************************************************************************)
EXTENDS Integers, Sequences, FiniteSets

CONSTANTS Byte,       \* the bytes texts are made of
          AsciiFold   \* byte -> byte, A-Z to a-z, every other byte unchanged

ASSUME FoldAssumption == AsciiFold \in [Byte -> Byte]

Text    == Seq(Byte)
Trigram == Byte \X Byte \X Byte

\* ASCII lowercase copy of a byte string.
fold(s) == [i \in 1..Len(s) |-> AsciiFold[s[i]]]

\* The set of 3-byte windows of s; empty below three bytes.
trigrams(s) == {<<s[i], s[i + 1], s[i + 2]>> : i \in 1..(Len(s) - 2)}

\* memmem::find(h, n).is_some(): n occurs in h at some offset.
contains(h, n) ==
    \E o \in 0..(Len(h) - Len(n)) : \A j \in 1..Len(n) : h[o + j] = n[j]

(***************************************************************************)
(* A query as handle_conn hands it to a layer: the raw needle, its folded  *)
(* form (which drives the content index) and the resolved case mode.       *)
(* handle_conn lowercases the needle as Unicode before it folds it, so     *)
(* that folded is fold(original) only for a needle without non-ASCII       *)
(* capitals; nothing is assumed about how the two are related.             *)
(***************************************************************************)
Query == [folded : Text, original : Text, case_sensitive : BOOLEAN]

\* The trigrams of the folded needle are among those of every text that matches.
\* candidate.rs calls this so "regardless of case mode"; it is not for an exact
\* search with a non-ASCII capital, whose lowercase form no text was indexed under.
IndexCovers(q) == q.case_sensitive => q.folded = fold(q.original)

\* cs_verify: exact bytes, or folded document bytes against the folded needle.
cs_verify(content, q) ==
    IF q.case_sensitive THEN contains(content, q.original)
                        ELSE contains(fold(content), q.folded)

\* A trigram of tris whose posting list is shortest.
rarest(index, tris) ==
    CHOOSE t \in tris : \A u \in tris : Cardinality(index[t]) <= Cardinality(index[u])

\* The documents candidates() verifies: all of them for a needle too short to
\* have a trigram, none when a trigram of the needle is absent from the index,
\* the rarest posting list otherwise.
prefilter(index, numDocs, q) ==
    LET qtris == trigrams(q.folded)
    IN  IF Len(q.folded) < 3 THEN 1..numDocs
        ELSE IF \E t \in qtris : index[t] = {} THEN {}
        ELSE index[rarest(index, qtris)]
=============================================================================
