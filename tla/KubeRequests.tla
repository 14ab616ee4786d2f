---------------------------- MODULE KubeRequests ----------------------------
(***************************************************************************)
(* Requests of pkg/kube to the API server: Create, Delete, Apply           *)
(* (internalApply with update and updateStatus) and ApplyRealSSA.          *)
(* A request is one or several calls; each call is one step, in which the  *)
(* server does what it is asked and the caller gets the answer.  A call    *)
(* may fail before it has an effect, or have its effect and lose the       *)
(* answer.  Requests are made under context.TODO(): no interrupt ends one. *)
(*                                                                         *)
(* Abstracted: of an object, its being there and who made it; resource     *)
(* versions, which only decide whether a write meets a conflict.  The Get  *)
(* that precedes a repeated write is part of its step, since what another  *)
(* client writes in between is the next conflict.                          *)
(***************************************************************************)
EXTENDS Naturals, FiniteSets

CONSTANTS
    Procs,       \* the goroutines that make requests
    Objects,     \* the objects they make requests for
    Namespaces,  \* the namespaces among them
    NsOf,        \* the namespace of an object, None when it needs no other
    None,
    HasStatus,   \* objects that are applied with a status: hasStatus
    Contended,   \* objects that controllers of the cluster update as well
    Tries,       \* attempts of RetryOnConflict: Steps of its backoff, 3
    MaxFaults    \* bound: calls that fail

ASSUME KubeAssumption ==
    /\ Namespaces \subseteq Objects
    /\ NsOf \in [Objects -> Namespaces \cup {None}]
    /\ \A n \in Namespaces : NsOf[n] = None
    /\ None \notin Objects
    /\ HasStatus \subseteq Objects /\ Contended \subseteq Objects
    /\ Tries \in Nat \ {0} /\ MaxFaults \in Nat

VARIABLES obj,     \* who made an object that is there: "ours", "others"
          dying,   \* namespaces that are being deleted
          req,     \* the request each goroutine makes, or has the answer of
          faults,  \* number of calls that failed
          unsure   \* objects whose last request failed

kubeVars == <<obj, dying, req, faults, unsure>>

NoRequest == [op |-> "none", o |-> None, at |-> "none", tries |-> 0]
Calls == {"get", "create", "update", "status", "patch", "delete"}
Answers == {"ok", "exists", "failed"}

KubeTypeOK ==
    /\ obj \in [Objects -> {"absent", "ours", "others"}]
    /\ dying \subseteq {n \in Namespaces : obj[n] # "absent"}
    /\ req \in [Procs -> [op : {"none", "apply", "ssa", "create", "delete"},
                          o : Objects \cup {None},
                          at : {"none"} \cup Calls \cup Answers,
                          tries : 0..Tries - 1]]
    /\ faults \in 0..MaxFaults
    /\ unsure \subseteq Objects

KubeInit ==
    /\ dying = {}
    /\ req = [p \in Procs |-> NoRequest]
    /\ faults = 0
    /\ unsure = {}
-----------------------------------------------------------------------------
There(o) == obj[o] # "absent"

\* The server creates nothing in a namespace that is not there or being deleted.
MayCreate(o) ==
    NsOf[o] # None => There(NsOf[o]) /\ NsOf[o] \notin dying

FirstCall == [apply |-> "get", ssa |-> "patch", create |-> "create", delete |-> "delete"]

Calling(p) == req[p].at \in Calls
Answered(p, a) == req[p].at = a
Free(p) == req[p].at = "none"

\* Goroutine p makes a request.
Sends(p, op, o) ==
    req' = [req EXCEPT ![p] = [op |-> op, o |-> o, at |-> FirstCall[op], tries |-> 0]]

Ask(p, op, o) ==
    /\ Sends(p, op, o)
    /\ UNCHANGED <<obj, dying, faults, unsure>>

\* Goroutine p goes on, with the answer or without a request.
Forget(p) ==
    /\ req' = [req EXCEPT ![p] = NoRequest]
    /\ UNCHANGED <<obj, dying, faults, unsure>>

Proceed(p, at) ==
    req' = [req EXCEPT ![p] = [op |-> @.op, o |-> @.o, at |-> at, tries |-> 0]]
-----------------------------------------------------------------------------
\* internalApply: Get decides between Create and Update.
Get(p) ==
    /\ Answered(p, "get")
    /\ Proceed(p, IF There(req[p].o) THEN "update" ELSE "create")
    /\ UNCHANGED <<obj, dying, faults, unsure>>

\* After a call that succeeded: Apply writes the status once the object is there.
\* (What is applied by server-side apply has none.)
AfterCall(p) ==
    IF req[p].op = "apply" /\ req[p].at # "status" /\ req[p].o \in HasStatus
    THEN "status" ELSE "ok"

\* The server can do what the call asks for.
Possible(p) ==
    LET o == req[p].o
    IN  CASE req[p].at = "create" -> ~There(o) /\ MayCreate(o)
          [] req[p].at = "patch" -> There(o) \/ MayCreate(o)
          [] OTHER -> There(o)

\* What the server does.  Deletion has no grace period, but a namespace goes
\* only after what it holds.
Effect(p) ==
    LET o == req[p].o
        at == req[p].at
    IN  /\ obj' = CASE at \in {"create", "patch"} /\ ~There(o) -> [obj EXCEPT ![o] = "ours"]
                    [] at = "delete" /\ o \notin Namespaces -> [obj EXCEPT ![o] = "absent"]
                    [] OTHER -> obj
        /\ dying' = IF at = "delete" /\ o \in Namespaces THEN dying \cup {o} ELSE dying

Accepted(p) ==
    /\ Calling(p) /\ req[p].at # "get"
    /\ Possible(p)
    /\ Effect(p)
    /\ Proceed(p, AfterCall(p))
    /\ unsure' = unsure \ {req[p].o}
    /\ UNCHANGED faults

\* What a caller makes of a refusal: there is nothing to delete; the object
\* exists; an error.
Refusal(p) ==
    CASE req[p].at = "delete" -> "ok"
      [] req[p].at = "create" /\ There(req[p].o) -> "exists"
      [] OTHER -> "failed"

Refused(p) ==
    /\ Calling(p) /\ req[p].at # "get"
    /\ ~Possible(p)
    /\ Proceed(p, Refusal(p))
    /\ unsure' = CASE Refusal(p) = "ok" -> unsure \ {req[p].o}
                  [] Refusal(p) = "failed" -> unsure \cup {req[p].o}
                  [] OTHER -> unsure
    /\ UNCHANGED <<obj, dying, faults>>

\* Create takes an exceeded quota for an object that exists.
QuotaExceeded(p) ==
    /\ req[p].op = "create" /\ Answered(p, "create")
    /\ Proceed(p, "exists")
    /\ UNCHANGED <<obj, dying, faults, unsure>>

\* A slip: retries without a limit
ConflictForEver(p) ==
    /\ req[p].at \in {"update", "status"}
    /\ req[p].o \in Contended /\ There(req[p].o)
    /\ req' = [req EXCEPT ![p].tries = @ + 1]
    /\ UNCHANGED <<obj, dying, faults, unsure>>

\* update, updateStatus: the object changed since it was read; again, or an error
Conflict(p) ==
    /\ req[p].at \in {"update", "status"}
    /\ req[p].o \in Contended /\ There(req[p].o)
    /\ IF req[p].tries + 1 < Tries
       THEN req' = [req EXCEPT ![p].tries = @ + 1] /\ UNCHANGED unsure
       ELSE Proceed(p, "failed") /\ unsure' = unsure \cup {req[p].o}
    /\ UNCHANGED <<obj, dying, faults>>

Fault(p) ==
    /\ faults < MaxFaults
    /\ faults' = faults + 1
    /\ unsure' = unsure \cup {req[p].o}

\* A call fails without an effect.  internalApply takes every error of Get but
\* NotFound for an object that exists, and updates it.
RequestFails(p) ==
    /\ Calling(p)
    /\ Fault(p)
    /\ Proceed(p, IF Answered(p, "get") THEN "update" ELSE "failed")
    /\ UNCHANGED <<obj, dying>>

\* A call has its effect, and its caller an error.
AnswerLost(p) ==
    /\ Calling(p) /\ req[p].at # "get"
    /\ Possible(p)
    /\ Effect(p)
    /\ Fault(p)
    /\ Proceed(p, "failed")

Call(p) ==
    \/ Get(p) \/ Accepted(p) \/ Refused(p) \/ QuotaExceeded(p)
    \/ Conflict(p) \/ RequestFails(p) \/ AnswerLost(p)
-----------------------------------------------------------------------------
(* The cluster *)

\* The namespace controller deletes what a namespace holds, then the namespace.
FinishDeletion(n) ==
    /\ n \in dying
    /\ obj' = [o \in Objects |-> IF n \in {o, NsOf[o]} THEN "absent" ELSE obj[o]]
    /\ dying' = dying \ {n}
    /\ UNCHANGED <<req, faults, unsure>>

\* A call that was under way when the program exited takes effect, or does not.
Lands(p) ==
    /\ Calling(p)
    /\ req' = [req EXCEPT ![p] = NoRequest]
    /\ \/ Answered(p, "get") = FALSE /\ Possible(p) /\ Effect(p)
       \/ UNCHANGED <<obj, dying>>
    /\ UNCHANGED <<faults, unsure>>
=============================================================================
