----------------------------- MODULE BoolQuery ------------------------------
(***************************************************************************)
(* Boolean filename queries (df-core/src/boolquery.rs) over the filename   *)
(* database of IndexFiles: the docid set of a term, and the set algebra    *)
(* over it.  A formula, the tree of Nodes of the source, is the list of    *)
(* its nodes, each behind the nodes it combines, the root last: a node has *)
(* an op, and a term or the positions of its one or two operands.          *)
(***************************************************************************)
EXTENDS IndexFiles

CONSTANT Formulas   \* the boolean queries asked

IsFormula(f) ==
    /\ Len(f) \in Nat \ {0}
    /\ \A i \in 1..Len(f) :
          \/ f[i].op = "Term" /\ f[i].term \in Queries
          \/ f[i].op = "Not" /\ f[i].left \in 1..(i - 1)
          \/ f[i].op \in {"And", "Or"} /\ f[i].left \in 1..(i - 1) /\ f[i].right \in 1..(i - 1)

ASSUME FormulaAssumption == \A f \in Formulas : IsFormula(f)

term_docids(h, src, r, q) ==
    IF q.original = <<>> THEN {} ELSE ToSet(single_docids(h, src, r, q, NoValue))

\* The docids NOT complements against.
Universe_OneMore(r) == 0..r.num_docs  \* mutation: an inclusive range
Universe(r) == 0..(r.num_docs - 1)

\* The docids of every node, and of the root.
evaluate(h, src, r, f) ==
    LET docids[i \in 1..Len(f)] ==
            IF f[i].op = "Term" THEN term_docids(h, src, r, f[i].term)
            ELSE IF f[i].op = "Not" THEN Universe(r) \ docids[f[i].left]
            ELSE IF f[i].op = "And" THEN docids[f[i].left] \cap docids[f[i].right]
            ELSE docids[f[i].left] \cup docids[f[i].right]
    IN  docids[Len(f)]

boolean_docids(h, src, r, f, limit) == Truncated(Ascending(evaluate(h, src, r, f)), limit)

-----------------------------------------------------------------------------
\* S is the set of the nodes of f that are true of the record r.
IsModel(S, f, r) ==
    \A i \in 1..Len(f) :
        /\ f[i].op = "Term" => (i \in S <=> f[i].term.original # <<>> /\ PathMatches(r.path, f[i].term))
        /\ f[i].op = "Not"  => (i \in S <=> f[i].left \notin S)
        /\ f[i].op = "And"  => (i \in S <=> f[i].left \in S /\ f[i].right \in S)
        /\ f[i].op = "Or"   => (i \in S <=> f[i].left \in S \/ f[i].right \in S)

Satisfies(r, f) == \E S \in SUBSET (1..Len(f)) : IsModel(S, f, r) /\ Len(f) \in S

(***************************************************************************)
(* Boolean queries: the set algebra of evaluate() over the database is the *)
(* truth of the formula for each record, negations and empty terms         *)
(* included, and boolean_docids returns the first `limit` of them.         *)
(***************************************************************************)
BooleanQueryExact ==
    JustBuilt => \A f \in Formulas, limit \in Limits :
        boolean_docids(hash, file, Reader, f, limit)
            = Truncated(Matching(recs, LAMBDA r : Satisfies(r, f)), limit)
=============================================================================
