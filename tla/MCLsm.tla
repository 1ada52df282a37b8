-------------------------------- MODULE MCLsm --------------------------------
(***************************************************************************)
(* Two paths: one is modified and then deleted, one is created.            *)
(***************************************************************************)
EXTENDS Lsm, TLC

MCLife == "p" :> <<"old", "new", Absent>> @@ "q" :> <<Absent, "made">>

\* Shorter lives, for the runs with queries or more handles.
MCShortLife == "p" :> <<"old", "new">> @@ "q" :> <<Absent, "made">>
==============================================================================
