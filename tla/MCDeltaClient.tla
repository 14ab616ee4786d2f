--------------------------- MODULE MCDeltaClient ---------------------------
(***************************************************************************)
(* Two listeners that may share a route, and a cluster with its endpoints. *)
(***************************************************************************)
EXTENDS DeltaClient

CONSTANTS LDS, RDS, CDS, EDS, l1, l2, c1, r1, e1

const_InitialWatches == <<CDS, LDS>>

const_Parents == {l1, l2, c1}

const_Leaves == {r1, e1}

const_TypeOf == [p \in const_Parents |-> IF p = c1 THEN CDS ELSE LDS]

const_ChildType == [t \in {CDS, LDS} |-> IF t = CDS THEN EDS ELSE RDS]

const_LeafTypeOf == [l \in const_Leaves |-> IF l = e1 THEN EDS ELSE RDS]
=============================================================================
