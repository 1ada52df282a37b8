---------------------------- MODULE MCIndexFiles ----------------------------
(***************************************************************************)
(* Bytes 1 and 2 are letters, 3 is the capital of 1 and 4 a non-ASCII      *)
(* capital of 2, which the fold leaves alone.  The documents share         *)
(* trigrams in part, one path is too short to have any, one has no text;   *)
(* the hash values make chains that collide and that wrap around.          *)
(***************************************************************************)
EXTENDS BoolQuery

MCByte == {1, 2, 3, 4}
MCFold == [b \in MCByte |-> IF b = 3 THEN 1 ELSE b]

A == [path |-> <<1, 1, 2>>,    meta |-> "m1", content |-> <<3, 1, 2, 4>>]
B == [path |-> <<3, 1, 2, 2>>, meta |-> "m2", content |-> <<1, 2, 2>>]
C == [path |-> <<2, 1>>,       meta |-> "m3", content |-> <<2>>]
D == [path |-> <<1, 2, 4>>,    meta |-> "m4", content |-> NoValue]
MCDoc == {A, B, C, D}

MCHashKey   == {<<1, 1, 2>>, <<1, 2, 2>>, <<1, 2, 4>>, <<2, 1, 1>>}
MCHashValue == {0, 7}

\* handle_conn: fold(needle.to_lowercase()).
Lowercase(b) == CASE b = 3 -> 1 [] b = 4 -> 2 [] OTHER -> b
Ask(n, cs) == [folded |-> fold([i \in DOMAIN n |-> Lowercase(n[i])]), original |-> n, case_sensitive |-> cs]
MCBoolTerms == {Ask(<<1, 2, 2>>, FALSE), Ask(<<3, 1, 2>>, TRUE), Ask(<<2, 1>>, FALSE)}
MCQueries   == MCBoolTerms \cup {Ask(<<3, 1, 2>>, FALSE), Ask(<<1, 1, 2, 2>>, FALSE),
                                 Ask(<<2, 1, 1>>, FALSE), Ask(<<>>, FALSE), Ask(<<1, 2, 4>>, FALSE),
                                 Ask(<<1, 2, 4>>, TRUE)}
MCLimits    == {NoValue, 1}

\* p AND NOT q, NOT (p OR q)
Term(q)      == [op |-> "Term", term |-> q]
AndNot(p, q) == <<Term(p), Term(q), [op |-> "Not", left |-> 2], [op |-> "And", left |-> 1, right |-> 3]>>
NotOr(p, q)  == <<Term(p), Term(q), [op |-> "Or", left |-> 1, right |-> 2], [op |-> "Not", left |-> 3]>>
MCFormulas   == {AndNot(p, q) : p, q \in MCBoolTerms} \cup {NotOr(p, Ask(<<>>, FALSE)) : p \in MCBoolTerms}
                  \cup {NotOr(Ask(<<2, 1>>, FALSE), Ask(<<3, 1, 2>>, TRUE))}
ThreadSymmetry == Permutations(Thread)
=============================================================================
