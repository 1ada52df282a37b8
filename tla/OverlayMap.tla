----------------------------- MODULE OverlayMap -----------------------------
(***************************************************************************)
(* What the hot overlay promises its readers: a map that says, for every   *)
(* path, whether the cold index may still answer for it ("cold"), whether  *)
(* the path is deleted, or which document it holds now.  An upsert, a      *)
(* delete and a clear each change exactly what their name says.            *)
(***************************************************************************)
CONSTANTS Path, Meta, MaybeContent

VARIABLE view

Cold    == [state |-> "cold"]
Deleted == [state |-> "deleted"]
Doc(m, c) == [state |-> "doc", meta |-> m, content |-> c]

View == [Path -> {Cold, Deleted} \cup {Doc(m, c) : m \in Meta, c \in MaybeContent}]

Init == view = [p \in Path |-> Cold]

Upsert(p, m, c) == view' = [view EXCEPT ![p] = Doc(m, c)]
Delete(p)       == view' = [view EXCEPT ![p] = Deleted]
Clear           == view' = [p \in Path |-> Cold]

Next == \/ \E p \in Path, m \in Meta, c \in MaybeContent : Upsert(p, m, c)
        \/ \E p \in Path : Delete(p)
        \/ Clear

Spec == Init /\ [][Next]_view
=============================================================================
