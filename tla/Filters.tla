------------------------------ MODULE Filters -------------------------------
(***************************************************************************)
(* The pure helpers of the query path: globs and the regex prefilter atom  *)
(* (df-ipc/src/filter.rs), and the line arithmetic of `-n` and `-C`        *)
(* (df-content/src/lines.rs).  Texts are sequences of one-character        *)
(* strings; offsets are zero-based as in the code.  The glob matcher works *)
(* on bytes: a character of it stands for one byte of a UTF-8 text.        *)
(***************************************************************************)
EXTENDS OptionValue, Integers, Sequences, SequencesExt, FiniteSets, FiniteSetsExt

(***************************************************************************)
(* filter.rs: glob_impl, one iteration per step; star is the position of   *)
(* the last `*` taken and the text position it is tried at.                *)
(***************************************************************************)
GlobDone(pat, pi) == \A k \in pi..Len(pat) : pat[k] = "*"

\* Mutation: backtracking does not move the text on.
GlobStep_SameText(pat, text, pi, ti, star) ==
    LET RECURSIVE G(_, _, _)
        G(p, t, s) ==
            IF t > Len(text) THEN GlobDone(pat, p)
            ELSE IF p <= Len(pat) /\ pat[p] \in {"?", text[t]} THEN G(p + 1, t + 1, s)
            ELSE IF p <= Len(pat) /\ pat[p] = "*" THEN G(p + 1, t, [pi |-> p, ti |-> t])
            ELSE IF s # NoValue THEN G(s.pi + 1, t + 1, s)
            ELSE FALSE
    IN  G(pi, ti, star)

RECURSIVE GlobStep(_, _, _, _, _)
GlobStep(pat, text, pi, ti, star) ==
    IF ti > Len(text) THEN GlobDone(pat, pi)
    ELSE IF pi <= Len(pat) /\ pat[pi] \in {"?", text[ti]}
         THEN GlobStep(pat, text, pi + 1, ti + 1, star)
    ELSE IF pi <= Len(pat) /\ pat[pi] = "*"
         THEN GlobStep(pat, text, pi + 1, ti, [pi |-> pi, ti |-> ti])
    ELSE IF star # NoValue
         THEN GlobStep(pat, text, star.pi + 1, star.ti + 1, [star EXCEPT !.ti = @ + 1])
    ELSE FALSE

glob_matches(pat, text) == GlobStep(pat, text, 1, 1, NoValue)

\* What the doc comment says a glob means: `*` is any run, `?` any character.
RECURSIVE GlobMeaning(_, _)
GlobMeaning(pat, text) ==
    IF pat = <<>> THEN text = <<>>
    ELSE IF pat[1] = "*" THEN \E k \in 0..Len(text) : GlobMeaning(Tail(pat), SubSeq(text, k + 1, Len(text)))
    ELSE text # <<>> /\ pat[1] \in {"?", text[1]} /\ GlobMeaning(Tail(pat), Tail(text))

(***************************************************************************)
(* filter.rs: longest_literal_atom.  `mode` is what the next character is: *)
(* ordinary, escaped, inside a class (or escaped there), inside braces.    *)
(***************************************************************************)
Meta == {"(", ")", "|", "*", "+", "?", "^", "$", "."}

flush_run(st) == [st EXCEPT !.best = IF Len(st.cur) > Len(@) THEN st.cur ELSE @, !.cur = <<>>]

\* Mutation: the character behind a backslash is taken as a literal.
AtomStep_Unescaped(st, c) ==
    IF c \in Meta \cup {"\\"} THEN flush_run(st) ELSE [st EXCEPT !.cur = Append(@, c)]

AtomStep(st, c) ==
    CASE st.mode = "escaped" -> [flush_run(st) EXCEPT !.mode = "plain"]
      [] st.mode = "classEscaped" -> [flush_run(st) EXCEPT !.mode = "class"]
      [] st.mode = "class" -> [flush_run(st) EXCEPT !.mode =
             CASE c = "\\" -> "classEscaped" [] c = "]" -> "plain" [] OTHER -> "class"]
      [] st.mode = "braces" -> IF c = "}" THEN [flush_run(st) EXCEPT !.mode = "plain"] ELSE st
      [] c = "\\" -> [st EXCEPT !.mode = "escaped"]
      [] c = "[" -> [flush_run(st) EXCEPT !.mode = "class"]
      [] c = "{" -> [st EXCEPT !.mode = "braces"]
      [] c \in Meta -> flush_run(st)
      [] OTHER -> [st EXCEPT !.cur = Append(@, c)]

\* The longest run of literal characters, the first of the longest; <<>> for none.
longest_literal_atom(re) ==
    flush_run(FoldLeft(AtomStep, [mode |-> "plain", cur |-> <<>>, best |-> <<>>], re)).best

(***************************************************************************)
(* lines.rs.  rposition and position of a newline give the bounds.         *)
(***************************************************************************)
NL == "\n"

Newlines(content, from, to) == {i \in (from + 1)..to : content[i] = NL}

\* One past the last newline before off, 0 if there is none.
LineStart(content, off) == Max({0} \cup Newlines(content, 0, off))

line_number(content, off) == Cardinality(Newlines(content, 0, Min({off, Len(content)}))) + 1

line_text(content, off) ==
    LET up  == Min({off, Len(content)})
        end == Min({Len(content) + 1} \cup Newlines(content, up, Len(content))) - 1
    IN  SubSeq(content, LineStart(content, up) + 1, end)

\* Just past the next newline at or after off, or the end.
LineEnd(content, off) == Min({Len(content)} \cup Newlines(content, off, Len(content)))

\* Mutation: the search for the line before starts on the newline it stands on.
BackOne_OnNewline(content, start) == IF start = 0 THEN 0 ELSE LineStart(content, start)

\* One line back: strictly before the newline that precedes the block.
BackOne(content, start) == IF start = 0 THEN 0 ELSE LineStart(content, start - 1)

RECURSIVE Walk(_, _, _, _)
Walk(content, start, end, n) ==
    IF n = 0 THEN <<start, end>>
    ELSE Walk(content, BackOne(content, start), LineEnd(content, end), n - 1)

\* The block of n lines around the line of off: its first line number and text.
context_block(content, off, n) ==
    LET up    == Min({off, Len(content)})
        block == Walk(content, LineStart(content, up), LineEnd(content, up), n)
    IN  [first |-> Cardinality(Newlines(content, 0, block[1])) + 1,
         text  |-> SubSeq(content, block[1] + 1, block[2])]

\* memmem::find_iter: non-overlapping occurrences from the left.
RECURSIVE FindFrom(_, _, _)
FindFrom(content, needle, at) ==
    LET here == {o \in at..(Len(content) - Len(needle)) :
                    SubSeq(content, o + 1, o + Len(needle)) = needle}
    IN  IF here = {} THEN <<>>
        ELSE <<Min(here)>> \o FindFrom(content, needle, Min(here) + Len(needle))

literal_match_offsets(content, needle) ==
    IF needle = <<>> THEN <<>> ELSE FindFrom(content, needle, 0)

\* query_lines over one document: a hit per line, or with a context of n lines
\* a block per first line; later matches with the same key add nothing.
LineHits(content, needle, context) ==
    LET hit(off) == IF context = NoValue
                    THEN [line_no |-> line_number(content, off), text |-> line_text(content, off)]
                    ELSE LET b == context_block(content, off, context)
                         IN  [line_no |-> b.first, text |-> b.text]
        add(out, off) == IF \E i \in DOMAIN out : out[i].line_no = hit(off).line_no THEN out
                         ELSE Append(out, hit(off))
    IN  FoldLeft(add, <<>>, literal_match_offsets(content, needle))
=============================================================================
