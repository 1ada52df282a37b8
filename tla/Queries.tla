------------------------------- MODULE Queries ------------------------------
(***************************************************************************)
(* The sequential parts of a search, each against a definition of what it  *)
(* should compute.  A behaviour picks a task and then grows its input one  *)
(* element at a time, so that the invariants are evaluated for every input *)
(* up to the bound of the task:                                            *)
(*   "codec"  numbers         for the varint and posting codecs            *)
(*   "bool"   tokens          of a boolean query                           *)
(*   "expr"   tokens          of a bfs expression                          *)
(*   "glob"   characters      of a pattern followed by a text              *)
(*   "regex"  parts           of a regex, their kind and the words they    *)
(*                            match                                        *)
(*   "lines"  characters      of a file                                    *)
(*   "merge"  documents       of two databases, their shards and overlays  *)
(***************************************************************************)
EXTENDS Codec, QuerySyntax, Filters, QueryMerge

CONSTANTS Alphabet,      \* task -> the elements of its inputs
          MaxLen,        \* bound: task -> the length of its inputs
          Options,       \* the options of the searches of "merge"
          DocsPerShard,  \* documents per shard of "merge"
          Needles,       \* the needles of "lines"
          Contexts       \* and their contexts, NoValue for -n

VARIABLES task, opts, input
vars == <<task, opts, input>>

Init ==
    /\ task \in DOMAIN Alphabet
    /\ opts \in IF task = "merge" THEN Options ELSE {NoValue}
    /\ input = <<>>

\* Documents are added in docid order: databases, then layers, then paths.
LayerRank(l) == CASE l = "cold" -> 1 [] l = "up" -> 2 [] l = "del" -> 3
Rank(d) == (d.db * 10 + LayerRank(d.layer)) * 10 + PathRank(d.path)

Extend(x) ==
    /\ Len(input) < MaxLen[task]
    /\ (task = "merge" /\ input # <<>>) => Rank(Last(input)) < Rank(x)
    /\ input' = Append(input, x)
    /\ UNCHANGED <<task, opts>>

Next == \E x \in Alphabet[task] : Extend(x)

Spec == Init /\ [][Next]_vars

-----------------------------------------------------------------------------
(***************************************************************************)
(* Posting lists and varints come back as they were written, for every mix *)
(* of widths, across block boundaries and with exceptions anywhere; a      *)
(* varint that is cut short is refused (turbopfor.rs, varint.rs).          *)
(***************************************************************************)
CodecRoundTrip ==
    task = "codec" =>
        LET step(acc, v) == LET d == decode_u32(acc.buf, acc.pos)
                            IN  [acc EXCEPT !.pos = d.pos, !.out = Append(@, d.value)]
            buf == FlattenSeq([i \in DOMAIN input |-> encode_u32(input[i])])
        IN  /\ decode(encode(input), Len(input)) = input
            /\ FoldLeft(step, [buf |-> buf, pos |-> 0, out |-> <<>>], input).out = input
            /\ \A i \in DOMAIN input :
                  decode_u32(SubSeq(encode_u32(input[i]), 1, Septets(input[i]) - 1), 0).value = NoValue

\* A boolean query as it is typed: blanks everywhere, or between words only.
Typed(toks, dense) ==
    FlattenSeq([i \in DOMAIN toks |->
        IF i = 1 \/ (dense /\ {toks[i - 1], toks[i]} \cap {"(", ")"} # {}) THEN <<toks[i]>>
        ELSE <<" ", toks[i]>>])

(***************************************************************************)
(* The recursive-descent parsers accept exactly the queries of the grammar *)
(* in their doc comments and build its tree, which is unique: NOT binds    *)
(* tighter than AND, AND than OR, adjacent factors are a conjunction, and  *)
(* a bfs predicate takes the next token whatever it is.  Blanks around     *)
(* parentheses make no difference (boolquery.rs, bfs.rs).                  *)
(***************************************************************************)
ParsersFollowGrammar ==
    LET agrees(tree, trees) == trees = IF tree = NoValue THEN {} ELSE {tree}
    IN  /\ task = "bool" =>
              LET toks == [i \in DOMAIN input |->
                              IF input[i] \in {"(", ")"} THEN Sign(input[i]) ELSE Word(<<input[i]>>)]
              IN  \A dense \in BOOLEAN :
                     agrees(BoolParse(Typed(input, dense)), OrTrees(BoolSyntax, toks))
        /\ task = "expr" =>
              agrees(ExprParse(input), OrTrees(ExprSyntax, [i \in DOMAIN input |-> Sign(input[i])]))

(***************************************************************************)
(* The backtracking matcher of -g, -E, -name and -path decides what its    *)
(* comment says, `*` any run and `?` one character, although it keeps one  *)
(* backtracking point only.  Texts with a `*` of their own are excluded:   *)
(* the matcher takes a `*` that meets one for a literal (filter.rs).       *)
(***************************************************************************)
GlobExact ==
    task = "glob" => \A k \in 0..Len(input) :
        LET pat  == SubSeq(input, 1, k)
            text == SubSeq(input, k + 1, Len(input))
        IN  "*" \notin ToSet(text) => (glob_matches(pat, text) <=> GlobMeaning(pat, text))

\* The texts a sequence of regex parts stands for.
Texts(parts) ==
    FoldLeft(LAMBDA ws, part : {w \o v : w \in ws, v \in part.words}, {<<>>}, parts)

\* Some text the parts match lacks their literal atom: the prefilter loses it.
LosesMatch(parts) ==
    LET atom == longest_literal_atom(FlattenSeq([i \in DOMAIN parts |-> parts[i].re]))
    IN  \E text \in Texts(parts) : atom # <<>> /\ literal_match_offsets(text, atom) = <<>>

\* The kinds of parts whose literals longest_literal_atom takes for what they are:
\* a character or `.`, a backslash and one character, a class whose first `]` ends
\* it, a group with nothing behind its `(`, a repetition of at least one.  (The
\* characters are ASCII; for non-ASCII capitals see IndexCovers of Trigrams.)
AtomKinds == {"char", "escape", "class", "group", "repeat"}

(***************************************************************************)
(* The literal atom that prefilters a regex search occurs in every text    *)
(* the regex matches, so that no match is lost before the regex is asked,  *)
(* when the regex is made of parts of AtomKinds only.  The doc comments    *)
(* claim it of every regex ("always a superset"), which is wrong: each     *)
(* part of another kind loses a match by itself already.  These are        *)
(* alternatives, optional parts, groups with a prefix ((?:, (?P<n>),       *)
(* inline flags ((?i)), escapes of several characters (\x41, \pL) and      *)
(* classes with a `]` inside (filter.rs, regex_query.rs).                  *)
(***************************************************************************)
AtomRequired ==
    task = "regex" =>
        /\ (\A i \in DOMAIN input : input[i].kind \in AtomKinds) => ~LosesMatch(input)
        /\ Len(input) = 1 /\ input[1].kind \notin AtomKinds => LosesMatch(input)

\* The lines of a file, each with its newline if it has one.
SplitLines(content) ==
    LET step(acc, c) == IF c = NL THEN [done |-> Append(acc.done, Append(acc.cur, c)), cur |-> <<>>]
                        ELSE [acc EXCEPT !.cur = Append(@, c)]
        end == FoldLeft(step, [done |-> <<>>, cur |-> <<>>], content)
    IN  IF end.cur = <<>> THEN end.done ELSE Append(end.done, end.cur)

(***************************************************************************)
(* -n shows every line that contains the needle once, in order, with its   *)
(* number and text.  -C n shows blocks that are the n lines around a       *)
(* matching line as far as the file has them, and every matching line is   *)
(* in one of them, although matches that share a first line are dropped    *)
(* (lines.rs, query_lines and overlay_line_hits).                          *)
(***************************************************************************)
LineHitsExact ==
    task = "lines" => \A needle \in Needles :
        LET lines   == SplitLines(input)
            bare(k) == SelectSeq(lines[k], LAMBDA c : c # NL)
            matched == {k \in DOMAIN lines : literal_match_offsets(lines[k], needle) # <<>>}
            first(k, n) == Max({1, k - n})
            block(k, n) == [line_no |-> first(k, n),
                            text |-> FlattenSeq(SubSeq(lines, first(k, n), Min({k + n, Len(lines)})))]
        IN  /\ LineHits(input, needle, NoValue) =
                  LET ks == SetToSortSeq(matched, <)
                  IN  [i \in DOMAIN ks |-> [line_no |-> ks[i], text |-> bare(ks[i])]]
            /\ \A n \in Contexts :
                  LET hits == LineHits(input, needle, n)
                  IN  /\ \A i \in DOMAIN hits : \E k \in matched : hits[i] = block(k, n)
                      /\ \A k \in matched : \E i \in DOMAIN hits :
                            k \in hits[i].line_no..(hits[i].line_no + Len(SplitLines(hits[i].text)) - 1)
                      /\ \A i, j \in DOMAIN hits : i < j => hits[i].line_no < hits[j].line_no

-----------------------------------------------------------------------------
(***************************************************************************)
(* The databases an input of "merge" stands for.                           *)
(***************************************************************************)
Of(n, layer) == SelectSeq(input, LAMBDA d : d.db = n /\ d.layer = layer)
Dead(n) == {d.path : d \in ToSet(Of(n, "del"))}

Database(n) ==
    LET docs == SelectSeq([i \in DOMAIN Of(n, "cold") |->
                              [path |-> Of(n, "cold")[i].path, text |-> Of(n, "cold")[i].text]],
                          LAMBDA d : d.text # NoValue)
    IN  [name   |-> n,
         files  |-> [i \in DOMAIN Of(n, "cold") |-> Of(n, "cold")[i].path],
         shards |-> [k \in 1..CeilDiv(Len(docs), DocsPerShard) |->
                        SubSeq(docs, DocsPerShard * (k - 1) + 1, Min({DocsPerShard * k, Len(docs)}))],
         slots  |-> [i \in DOMAIN Of(n, "up") |->
                        LET d == Of(n, "up")[i]
                        IN  [path |-> d.path, text |-> IF d.path \in Dead(n) THEN NoValue ELSE d.text]],
         dead   |-> Dead(n)]

Databases == <<Database(1), Database(2)>>

\* The current version of a path in database n: its overlay's, or the cold one.
Current(n, p) ==
    LET named(layer) == {d \in ToSet(Of(n, layer)) : d.path = p}
    IN  IF p \in Dead(n) THEN {} ELSE IF named("up") # {} THEN named("up") ELSE named("cold")

Layer(d) == IF d.layer = "up" THEN "hot" ELSE "cold"

\* How p matches in database n.
MatchKinds(n, p, o) ==
    {"Filename" : d \in {e \in Current(n, p) : o.want_fn /\ NameHit(p, o) /\ (o.regex => p \in RegexPaths)}}
    \cup {"Content" : d \in {e \in Current(n, p) : o.want_ct /\ e.text = "hit"}}

Asked(o) == IF o.db = NoValue THEN {1, 2} ELSE {o.db} \cap {1, 2}
AllKinds(p, o) == UNION {MatchKinds(n, p, o) : n \in Asked(o)}

\* The layer of the version whose metadata is shown: the first database's.
FirstLayer(p, o) ==
    LET n == Min({m \in Asked(o) : MatchKinds(m, p, o) # {}})
    IN  Layer(CHOOSE d \in Current(n, p) : TRUE)

Matches(o) ==
    {p \in ToSet(PathOrder) : /\ AllKinds(p, o) # {} /\ in_scope(p, o.scope) /\ passes(p, o)
                              /\ ExprPasses(p, FirstLayer(p, o), o)}

KindSet(k) == IF k = "Both" THEN {"Filename", "Content"} ELSE {k}

\* -n and -C show the lines of every file whose current text matches, from that
\* version and once, whatever the layers and filters asked for.
LinesCurrent ==
    (opts.lines /\ opts.limit = NoValue /\ Cardinality(Asked(opts)) = 1) =>
        LET n    == CHOOSE m \in Asked(opts) : TRUE
            hits == LineAnswer(Databases, opts)
        IN  /\ {<<hits[i].path, hits[i].meta>> : i \in DOMAIN hits} =
                  UNION {{<<p, Layer(d)>> : d \in {e \in Current(n, p) : e.text = "hit"}} :
                            p \in {q \in ToSet(PathOrder) : in_scope(q, opts.scope)}}
            /\ Len(hits) = Cardinality({hits[i].path : i \in DOMAIN hits})

(***************************************************************************)
(* Whatever the limit, the filters and the order of the hash maps, a       *)
(* search delivers a path at most once, only if its current version        *)
(* matches in a selected database, in scope and past the filters, with     *)
(* metadata of a current version and no more match kinds than it has; and  *)
(* without a limit it delivers all of them with all their kinds.  In regex *)
(* mode kinds are not compared: a name that contains the atom counts as a  *)
(* name match of a file whose content matches.  In line mode one database  *)
(* shows the lines of exactly the files whose current text matches.        *)
(***************************************************************************)
AnswersExact ==
    task = "merge" =>
        /\ ~opts.lines => \A ans \in Answers(Databases, opts) \ {NoValue} :
              LET paths == {ans[i].path : i \in DOMAIN ans}
              IN  /\ Cardinality(paths) = Len(ans)
                  /\ paths \subseteq Matches(opts)
                  /\ IF opts.limit = NoValue THEN paths = Matches(opts) ELSE Len(ans) <= opts.limit
                  /\ \A i \in DOMAIN ans :
                        /\ \E n \in Asked(opts) : \E d \in Current(n, ans[i].path) : ans[i].meta = Layer(d)
                        /\ ~opts.regex => KindSet(ans[i].kind) \subseteq AllKinds(ans[i].path, opts)
                        /\ (~opts.regex /\ opts.limit = NoValue) =>
                              KindSet(ans[i].kind) = AllKinds(ans[i].path, opts)
        /\ LinesCurrent

(***************************************************************************)
(* A limit loses nothing that fits in it as long as nothing is removed     *)
(* behind it: a literal search of full paths without scope and filters     *)
(* over databases whose overlays shadow nothing delivers as many paths as  *)
(* match, up to the limit, although every layer, shard and database is     *)
(* cut at the limit on its own.                                            *)
(***************************************************************************)
LimitFills ==
    (/\ task = "merge" /\ ~opts.lines /\ ~opts.regex /\ opts.limit # NoValue
     /\ opts.scope = NoValue /\ NoFilters(opts) /\ opts.expr = NoValue /\ ~opts.basename
     /\ \A n \in Asked(opts) : ~shadows_anything(Database(n))) =>
        \A ans \in Answers(Databases, opts) \ {NoValue} :
            Len(ans) = Min({opts.limit, Cardinality(Matches(opts))})
=============================================================================
