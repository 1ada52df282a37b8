----------------------------- MODULE MCRegistry -----------------------------
(***************************************************************************)
(* Two command lines and a daemon that may start twice: every pair of      *)
(* commands on two databases and one ignore pattern.                       *)
(***************************************************************************)
EXTENDS Registry, TLC

CONSTANTS home, a, pat, p1, p2

MCDb == {home, a}
MCCli == {p1, p2}
MCCommand ==
    [op : {"add", "remove"}, arg : {a}] \cup {[op |-> "install", arg |-> home]}
    \cup [op : {"ignore", "unignore"}, arg : {pat}]

Symmetry == Permutations(MCCli)
=============================================================================
