------------------------------ MODULE MCQueries -----------------------------
(***************************************************************************)
(* Small inputs for every task.  The codec's values need 1, 3 and 21 bits; *)
(* one path matches by a directory only, one by its base name, two lie in  *)
(* src.                                                                    *)
(***************************************************************************)
EXTENDS Queries

InDir == <<".", "n", "x.rs">>
Top   == <<".", "n.md">>
InSrc == <<".", "src", "n.rs">>
MCPathOrder  == <<Top, InDir, InSrc>>
MCNeedleIn   == {"n", "n.md", "n.rs"}
MCExt        == [c \in {"x.rs", "n.md", "n.rs"} |-> IF c = "n.md" THEN "md" ELSE "rs"]
MCCategory   == [code |-> {"rs", "go"}, docs |-> {"md"}]
MCRegexPaths == {Top}
MCSize       == [cold |-> 1024, hot |-> 1025]
MCMtime      == [cold |-> 4, hot |-> 5]
MCNewerTime  == [ref |-> 4, gone |-> NoValue]

\* The last eight are of the kinds the atom is not right for.
Part(kind, re, words) == [kind |-> kind, re |-> re, words |-> words]
Parts == {Part("char", <<"a">>, {<<"a">>}), Part("char", <<"b">>, {<<"b">>}),
          Part("char", <<".">>, {<<"c">>, <<"a">>}),
          Part("escape", <<"\\", "d">>, {<<"1">>}),
          Part("class", <<"[", "a", "b", "]">>, {<<"a">>, <<"b">>}),
          Part("group", <<"(", "a", "b", ")">>, {<<"a", "b">>}),
          Part("repeat", <<"b", "+">>, {<<"b">>, <<"b", "b">>}),
          Part("repeat", <<"a", "{", "2", "}">>, {<<"a", "a">>}),
          Part("optional", <<"b", "?">>, {<<>>, <<"b">>}),
          Part("alternative", <<"(", "a", "b", "|", "c", ")">>, {<<"a", "b">>, <<"c">>}),
          Part("prefix", <<"(", "?", ":", "a", "b", ")">>, {<<"a", "b">>}),
          Part("prefix", <<"(", "?", "P", "<", "n", ">", "a", "b", ")">>, {<<"a", "b">>}),
          Part("flags", <<"(", "?", "i", ")", "a">>, {<<"a">>, <<"A">>}),
          Part("code", <<"\\", "x", "4", "1">>, {<<"A">>}),
          Part("code", <<"\\", "p", "L">>, {<<"a">>, <<"A">>}),
          Part("bracket", <<"[", "]", "a", "]">>, {<<"a">>, <<"]">>})}

Versions(n, paths, layer, texts) ==
    {[db |-> n, layer |-> layer, path |-> p, text |-> t] : p \in paths, t \in texts}

Documents ==
    Versions(1, ToSet(MCPathOrder), "cold", {NoValue, "atom", "hit"})
    \cup Versions(1, ToSet(MCPathOrder), "up", {"miss", "hit"})
    \cup Versions(1, ToSet(MCPathOrder), "del", {NoValue})
    \cup Versions(2, {Top, InSrc}, "cold", {NoValue, "hit"})
    \cup Versions(2, {InSrc}, "up", {"hit"})

Plain == [limit |-> NoValue, scope |-> NoValue, db |-> NoValue, want_fn |-> TRUE, want_ct |-> TRUE,
          basename |-> FALSE, regex |-> FALSE, lines |-> FALSE, sort |-> "Default",
          extensions |-> {}, types |-> {}, excludes |-> {}, globs |-> {}, max_depth |-> NoValue,
          expr |-> NoValue]

MCOptions ==
    {Plain,
     [Plain EXCEPT !.limit = 1, !.sort = "Kind"],
     [Plain EXCEPT !.limit = 2],
     [Plain EXCEPT !.limit = 1, !.scope = <<"src">>],
     [Plain EXCEPT !.scope = <<".", "src">>, !.sort = "Path"],
     [Plain EXCEPT !.limit = 1, !.types = {"code"}, !.excludes = {{<<"n", "x.rs">>}}],
     [Plain EXCEPT !.extensions = {"md"}, !.max_depth = 1, !.globs = {{<<"n.md">>}, {InSrc}}],
     [Plain EXCEPT !.basename = TRUE, !.sort = "None",
                   !.expr = <<"!", "-size", "+1k", "-o", "-name", "n.md">>],
     [Plain EXCEPT !.expr = <<"-newer", "ref", "(", "-newer", "gone", "-o", "-size", "-2M", ")">>],
     [Plain EXCEPT !.expr = <<"-name">>, !.db = 2],
     [Plain EXCEPT !.regex = TRUE],
     [Plain EXCEPT !.regex = TRUE, !.limit = 1, !.want_fn = FALSE],
     [Plain EXCEPT !.lines = TRUE, !.db = 1],
     [Plain EXCEPT !.db = 3]}

MCAlphabet ==
    [codec |-> {0, 1, 5, 1048579},
     bool  |-> {"(", ")", "AND", "OR", "NOT", "x"},
     expr  |-> {"(", ")", "!", "-a", "-o", "-name", "-size", "x", "+1k"},
     glob  |-> {"a", "b", "*", "?"},
     regex |-> Parts,
     lines |-> {"a", "b", NL},
     merge |-> Documents]

MCMaxLen == [codec |-> 5, bool |-> 6, expr |-> 5, glob |-> 7, regex |-> 4, lines |-> 7, merge |-> 4]

MCNeedles  == {<<"a">>, <<"a", "a">>, <<"b", "a">>}
MCContexts == {0, 1, 2}
=============================================================================
