---------------------------- MODULE OptionValue -----------------------------
(***************************************************************************)
(* The value that stands for Option::None, and for an Err that a caller    *)
(* turns into None or reports without looking at it.                       *)
(***************************************************************************)
CONSTANT NoValue
=============================================================================
