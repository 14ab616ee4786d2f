--------------------------- MODULE MCAdscProgram ---------------------------
(***************************************************************************)
(* Two simulations, each with either kind of client, a few failing dials   *)
(* and breaking streams.                                                   *)
(***************************************************************************)
EXTENDS AdscProgram

const_Sims == 1..Count
=============================================================================
