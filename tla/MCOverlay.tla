------------------------------ MODULE MCOverlay ------------------------------
(***************************************************************************)
(* The overlay over an alphabet in which "A" is the uppercase of "a" and   *)
(* "E", "e" stand for a non-ASCII capital and its lowercase letter.  The   *)
(* contents overlap: two share a trigram, one of them by the fold and one  *)
(* ending in the non-ASCII capital, and one is too short for a trigram.    *)
(***************************************************************************)
EXTENDS Overlay

MCByte == {"a", "A", "e", "E"}
MCAsciiFold == [x \in MCByte |-> IF x = "A" THEN "a" ELSE x]
MCContent == {<<"a", "e", "a", "E">>, <<"A", "e", "a">>, <<"e", "a">>}

\* handle_conn: fold(needle.to_lowercase()).
Lowercase(x) == CASE x = "A" -> "a" [] x = "E" -> "e" [] OTHER -> x
Ask(s, sensitive) == [folded |-> fold([i \in DOMAIN s |-> Lowercase(s[i])]),
                      original |-> s, case_sensitive |-> sensitive]

MCQueries ==
    {Ask(s, cs) : s \in {<<>>, <<"e">>, <<"A", "e", "a">>, <<"a", "e", "a", "E">>,
                         <<"a", "E">>, <<"e", "a", "E">>, <<"E", "a">>, <<"e", "e", "e">>},
                  cs \in BOOLEAN}

=============================================================================
