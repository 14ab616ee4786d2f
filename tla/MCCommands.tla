----------------------------- MODULE MCCommands -----------------------------
(***************************************************************************)
(* One command at a time, on a handful of objects: a node with a ztunnel   *)
(* beside a namespace with no pods; a node without either; a namespace     *)
(* with one sidecar pod, refreshed once; one with a template and an        *)
(* application of virtual machines, which may be there before; a pod to    *)
(* impersonate, with two replicas; a dump of six documents; two rounds of  *)
(* the latency benchmark; two start-up workers.  The commands share the    *)
(* names of goroutines and of XDS simulations, since one of them runs.     *)
(***************************************************************************)
EXTENDS Commands

const_AppObjects == [empty |-> {}, sidecar |-> {}, vm |-> {"entry", "workload"}]
const_Configs ==
    { [nodes |-> TRUE, ztunnel |-> TRUE, app |-> "empty", template |-> FALSE, pods |-> 0,
       found |-> {}],
      [nodes |-> TRUE, ztunnel |-> FALSE, app |-> "none", template |-> FALSE, pods |-> 0,
       found |-> {}],
      [nodes |-> FALSE, ztunnel |-> FALSE, app |-> "sidecar", template |-> FALSE, pods |-> 1,
       found |-> {}],
      [nodes |-> FALSE, ztunnel |-> FALSE, app |-> "vm", template |-> TRUE, pods |-> 0,
       found |-> {"ns", "account"}] }
const_Refreshable == {"workload"}
const_Templated == {"config"}
const_PodNames == {"p1", "p2"}
const_Keys == {"k1"}
const_ReplicasOf == [k1 |-> <<"p1", "p2">>]
const_Docs ==
    << [o |-> "p1", kind |-> "Pod", denied |-> FALSE],
       [o |-> "rdeploy", kind |-> "Deployment", denied |-> FALSE],
       [o |-> "rsvc", kind |-> "Service", denied |-> FALSE],
       [o |-> "kubernetes", kind |-> "Service", denied |-> TRUE],
       [o |-> "sidecar", kind |-> "Sidecar", denied |-> TRUE],
       [o |-> "rns", kind |-> "Namespace", denied |-> FALSE] >>
const_Entries == <<"cfg-1", "cfg-2">>
const_Workers == {"p1", "p2"}
const_PodsOf == [p1 |-> <<"s1">>, p2 |-> <<"s2">>]

InNs == {"config", "account", "entry", "workload"} \cup const_PodNames
const_Objects ==
    {"node", "lease", "ns"} \cup InNs \cup {"rns", "sidecar", "rsvc", "cfg-1", "cfg-2"}
    \cup StartupPods
const_Namespaces == {"ns", "rns"}
const_NsOf == [o \in const_Objects |->
                 IF o \in InNs THEN "ns" ELSE IF o = "rsvc" THEN "rns" ELSE None]
const_Procs ==
    {"main", "lease", "scaler", "nodes", "space", "worker", "entry", "workload"}
    \cup const_PodNames
const_Clients == const_PodNames \cup {"ztunnel"}
=============================================================================
