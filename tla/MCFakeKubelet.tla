--------------------------- MODULE MCFakeKubelet ---------------------------
(***************************************************************************)
(* One pod of ours, created and changed by others a few times, two         *)
(* workers, requests that fail.                                            *)
(***************************************************************************)
EXTENDS FakeKubelet

CONSTANTS ours, w1, w2

const_Keys == {ours}

const_Workers == {w1, w2}

const_MaxWrites == [k \in const_Keys |-> 4]
=============================================================================
