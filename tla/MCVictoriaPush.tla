--------------------------- MODULE MCVictoriaPush ---------------------------
(***************************************************************************)
(* The program: one pusher, input of a few lines, a signal at any moment.  *)
(***************************************************************************)
EXTENDS VictoriaPush

const_Producers == {Pusher}

const_MaxReports == MaxLines
=============================================================================
