------------------------------ MODULE MCService -----------------------------
(***************************************************************************)
(* Two daemons, a search with two batches and an index request; a socket   *)
(* holds one frame, so that a stalled client blocks its handler.           *)
(***************************************************************************)
EXTENDS Service

CONSTANTS d1, d2, search, index
MCBatches == [c \in Client |-> IF c = search THEN 2 ELSE 0]
=============================================================================
