---------------------------- MODULE QuerySyntax -----------------------------
(***************************************************************************)
(* The two query languages: boolean queries (df-core/src/boolquery.rs) and *)
(* bfs-style expressions (df-ipc/src/bfs.rs).  Both parsers are the same   *)
(* recursive descent, precedence NOT > AND > OR with implicit AND, over    *)
(* different tokens; a syntax record says which token is what.  A parser   *)
(* operator takes the position it starts at and returns the tree and the   *)
(* position after it, or NoValue for a malformed query.                    *)
(***************************************************************************)
EXTENDS OptionValue, Integers, Sequences, SequencesExt, FiniteSets

(***************************************************************************)
(* boolquery::tokenize.  A character is a symbol; the three operator words *)
(* are symbols too, so that a word is a sequence of symbols and is an      *)
(* operator only if it is that symbol alone.                               *)
(***************************************************************************)
Word(w) == [kind |-> IF w \in {<<"AND">>, <<"OR">>, <<"NOT">>} THEN w[1] ELSE "Word", word |-> w]
Sign(c) == [kind |-> c, word |-> <<c>>]

\* What one character does to the tokens so far and the word being read.
TokenStep(st, c) ==
    LET flushed == IF st.cur = <<>> THEN st.toks ELSE Append(st.toks, Word(st.cur))
    IN  CASE c \in {"(", ")"} -> [toks |-> Append(flushed, Sign(c)), cur |-> <<>>]
          [] c = " "          -> [toks |-> flushed, cur |-> <<>>]
          [] OTHER            -> [toks |-> st.toks, cur |-> Append(st.cur, c)]

tokenize(s) == TokenStep(FoldLeft(TokenStep, [toks |-> <<>>, cur |-> <<>>], s), " ").toks

(***************************************************************************)
(* The token classes.  args(tok) is the number of tokens a primary takes   *)
(* after its head: none for a word, one for a bfs predicate, which takes   *)
(* the next token whatever it is.                                          *)
(***************************************************************************)
BoolSyntax == [or |-> {"OR"}, and |-> {"AND"}, not |-> {"NOT"}, prim |-> {"Word"},
               known |-> {"Word"}, args |-> 0]

ExprSyntax == [or |-> {"-o", "-or"}, and |-> {"-a", "-and"}, not |-> {"!", "-not"},
               prim |-> {"-name", "-path", "-size", "-newer", "-links"},
               known |-> {"-name", "-path", "-size", "-newer"}, args |-> 1]

\* parse_size on the arguments the runs use: the comparison and the bytes.
parse_size(arg) ==
    CASE arg = "1"   -> [cmp |-> "Eq", n |-> 1]
      [] arg = "+1k" -> [cmp |-> "Gt", n |-> 1024]
      [] arg = "-2M" -> [cmp |-> "Lt", n |-> 2 * 1024 * 1024]
      [] OTHER       -> NoValue

\* A head that parse_prim knows, with an argument it takes.
GoodPrimary(syn, t) == t[1].kind \in syn.known /\ (t[1].kind = "-size" => parse_size(t[2].kind) # NoValue)

\* is_factor_start, and the arm of parse_and that makes AND implicit.
is_factor_start(syn, tok) == tok.kind \in syn.prim \cup syn.not \cup {"("}

TokenAt(toks, pos) == IF pos <= Len(toks) THEN toks[pos] ELSE [kind |-> "end", word |-> <<>>]

Parsed(node, pos) == [node |-> node, pos |-> pos]

RECURSIVE parse_or(_, _, _), parse_and(_, _, _), parse_factor(_, _, _),
          OrRest(_, _, _), AndRest(_, _, _)

parse_or(syn, toks, pos) ==
    LET left == parse_and(syn, toks, pos)
    IN  IF left = NoValue THEN NoValue ELSE OrRest(syn, toks, left)

\* while peek is OR
OrRest(syn, toks, left) ==
    LET right == parse_and(syn, toks, left.pos + 1)
    IN  IF TokenAt(toks, left.pos).kind \notin syn.or THEN left
        ELSE IF right = NoValue THEN NoValue
        ELSE OrRest(syn, toks, Parsed(<<"Or", left.node, right.node>>, right.pos))

parse_and(syn, toks, pos) ==
    LET left == parse_factor(syn, toks, pos)
    IN  IF left = NoValue THEN NoValue ELSE AndRest(syn, toks, left)

\* Mutation: an implicit AND swallows the token that starts its right factor.
AndRest_Bumps(syn, toks, left) ==
    LET RECURSIVE R(_)
        R(l) == LET tok == TokenAt(toks, l.pos)
                    right == parse_factor(syn, toks, l.pos + 1)
                IN  IF tok.kind \notin syn.and /\ ~is_factor_start(syn, tok) THEN l
                    ELSE IF right = NoValue THEN NoValue
                    ELSE R(Parsed(<<"And", l.node, right.node>>, right.pos))
    IN  R(left)

AndRest(syn, toks, left) ==
    LET tok   == TokenAt(toks, left.pos)
        right == parse_factor(syn, toks, IF tok.kind \in syn.and THEN left.pos + 1 ELSE left.pos)
    IN  IF tok.kind \notin syn.and /\ ~is_factor_start(syn, tok) THEN left
        ELSE IF right = NoValue THEN NoValue
        ELSE AndRest(syn, toks, Parsed(<<"And", left.node, right.node>>, right.pos))

\* parse_prim: a head and its arguments; an unknown predicate is an error.
Primary(syn, toks, pos) ==
    IF pos + syn.args > Len(toks) THEN NoValue
    ELSE IF ~GoodPrimary(syn, SubSeq(toks, pos, pos + syn.args)) THEN NoValue
    ELSE Parsed(<<"Prim", SubSeq(toks, pos, pos + syn.args)>>, pos + syn.args + 1)

parse_factor(syn, toks, pos) ==
    LET head  == TokenAt(toks, pos)
        inner == parse_factor(syn, toks, pos + 1)
        group == parse_or(syn, toks, pos + 1)
    IN  CASE head.kind \in syn.not ->
                 IF inner = NoValue THEN NoValue ELSE Parsed(<<"Not", inner.node>>, inner.pos)
          [] head.kind = "(" ->
                 IF group = NoValue THEN NoValue
                 ELSE IF TokenAt(toks, group.pos).kind # ")" THEN NoValue
                 ELSE Parsed(group.node, group.pos + 1)
          [] head.kind \in syn.prim -> Primary(syn, toks, pos)
          [] OTHER -> NoValue

\* The tree of a whole query: trailing tokens make it malformed.
ParseTokens(syn, toks) ==
    LET p == parse_or(syn, toks, 1)
    IN  IF p = NoValue THEN NoValue
        ELSE IF p.pos # Len(toks) + 1 THEN NoValue
        ELSE p.node

\* boolquery::parse and bfs::parse (whose input is split at white space).
BoolParse(s)    == ParseTokens(BoolSyntax, tokenize(s))
ExprParse(toks) == ParseTokens(ExprSyntax, [i \in DOMAIN toks |-> Sign(toks[i])])

(***************************************************************************)
(* The primaries of an expression (collect_newer visits them so), and      *)
(* bfs::eval over a file; `holding` are the primaries that hold of it.     *)
(***************************************************************************)
RECURSIVE Prims(_), eval(_, _)
Prims(node) == IF node[1] = "Prim" THEN {node[2]}
               ELSE UNION {Prims(node[i]) : i \in 2..Len(node)}

eval(node, holding) ==
    CASE node[1] = "Prim" -> node[2] \in holding
      [] node[1] = "Not"  -> ~eval(node[2], holding)
      [] node[1] = "And"  -> eval(node[2], holding) /\ eval(node[3], holding)
      [] node[1] = "Or"   -> eval(node[2], holding) \/ eval(node[3], holding)

(***************************************************************************)
(* The grammar of the doc comments as a definition of its own: the set of  *)
(* trees a token sequence derives.                                         *)
(*   or := and | or OR and     and := factor | and AND? factor             *)
(*   factor := NOT factor | ( or ) | prim                                  *)
(***************************************************************************)
RECURSIVE OrTrees(_, _), AndTrees(_, _), FactorTrees(_, _)

Before(t, k) == SubSeq(t, 1, k - 1)
From(t, k)   == SubSeq(t, k, Len(t))

OrTrees(syn, t) ==
    AndTrees(syn, t) \cup
    UNION {{<<"Or", l, r>> : l \in OrTrees(syn, Before(t, k)), r \in AndTrees(syn, From(t, k + 1))} :
              k \in {i \in 2..(Len(t) - 1) : t[i].kind \in syn.or}}

AndTrees(syn, t) ==
    FactorTrees(syn, t) \cup
    UNION {{<<"And", l, r>> : l \in AndTrees(syn, Before(t, k)), r \in FactorTrees(syn, From(t, k))} :
              k \in 2..Len(t)} \cup
    UNION {{<<"And", l, r>> : l \in AndTrees(syn, Before(t, k)), r \in FactorTrees(syn, From(t, k + 1))} :
              k \in {i \in 2..(Len(t) - 1) : t[i].kind \in syn.and}}

FactorTrees(syn, t) ==
    IF t = <<>> THEN {}
    ELSE CASE t[1].kind \in syn.not -> {<<"Not", n>> : n \in FactorTrees(syn, Tail(t))}
           [] t[1].kind = "(" /\ Last(t).kind = ")" /\ Len(t) > 2 ->
                  OrTrees(syn, SubSeq(t, 2, Len(t) - 1))
           [] Len(t) = 1 + syn.args /\ GoodPrimary(syn, t) -> {<<"Prim", t>>}
           [] OTHER -> {}
=============================================================================
