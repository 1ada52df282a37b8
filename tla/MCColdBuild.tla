----------------------------- MODULE MCColdBuild -----------------------------
(***************************************************************************)
(* A directory with text files beside a binary one, a subdirectory, and a  *)
(* pruned directory with a text file in it.  Files go and come between     *)
(* builds.                                                                 *)
(***************************************************************************)
EXTENDS ColdBuild, TLC

MCParent == "sub" :> "root" @@ "a" :> "sub" @@ "b" :> "root" @@ "c" :> "root"
            @@ "bin" :> "sub" @@ "target" :> "root" @@ "t" :> "target"
MCKind == "root" :> "dir" @@ "sub" :> "dir" @@ "a" :> "text" @@ "b" :> "text"
          @@ "c" :> "text" @@ "bin" :> "binary" @@ "target" :> "pruned" @@ "t" :> "text"
MCEntry == DOMAIN MCKind

\* Everything (two shards), exactly one full shard, no text at all.
MCTrees == {MCEntry, {"root", "b", "c"}, {"root", "target", "t"}}
==============================================================================
