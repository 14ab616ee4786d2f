-------------------------- MODULE MCBatchReporter --------------------------
(***************************************************************************)
(* The reporter by itself: two goroutines report, in calls of one or two   *)
(* entries, while Close may be called at any moment.                       *)
(***************************************************************************)
EXTENDS BatchReporter

CONSTANTS p1, p2

const_Producers == {p1, p2}
=============================================================================
