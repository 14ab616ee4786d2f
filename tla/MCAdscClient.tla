---------------------------- MODULE MCAdscClient ----------------------------
(***************************************************************************)
(* One cluster and one route, two clusters and a route, or listeners with  *)
(* a secret alone: the configuration changes from one of these to another, *)
(* under Connect or under Fetch.  In the other instance a listener with a  *)
(* second route comes or goes.                                             *)
(***************************************************************************)
EXTENDS AdscClient

CONSTANTS SDS, e1, e2, r1, r2, s1

const_Names == {e1, e2, r1, r2, s1}

const_TypeOf == [n \in const_Names |->
    CASE n \in {e1, e2} -> EDS [] n \in {r1, r2} -> RDS [] OTHER -> SDS]

const_Configs == {{e1, r1}, {e1, e2, r1}, {s1}}

const_RouteConfigs == {{r1}, {r1, r2}}

const_Optional == {SDS}
=============================================================================
