------------------------------- MODULE Latency -------------------------------
(***************************************************************************)
(* pilot-load xds-latency: apply a configuration, wait for the push of     *)
(* clusters that it causes, delete it, wait for the push again, for ever.  *)
(* Run ends with an error only, and its deferred call deletes the last     *)
(* configuration once more.  The pushes reach Run over a channel, updates, *)
(* that Connect's loop fills, waiting when it is full; a stream that ends  *)
(* is reported there as well.                                              *)
(*                                                                         *)
(* Run and Cleanup have a value receiver: the cancel function and the      *)
(* channel that Run stores are not those that Cleanup looks at, which are  *)
(* nil; Cleanup does nothing.  istiod is external: it owes a push to a     *)
(* client that has connected and after a change of the configuration, and  *)
(* makes one push for several changes.                                     *)
(***************************************************************************)
EXTENDS Execute, Sequences

CONSTANTS
    Entries,     \* the configurations cfg-1, cfg-2..., in order; bound: names come again
    UpdatesCap,  \* capacity of updates, 10
    MaxBreaks    \* bound: streams that end

ASSUME LatencyAssumption ==
    /\ Entries \in Seq(Objects \ Namespaces) /\ Entries # <<>>
    /\ \A i, j \in DOMAIN Entries : Entries[i] = Entries[j] => i = j
    /\ UpdatesCap \in Nat \ {0} /\ MaxBreaks \in Nat

VARIABLES stage,    \* where Run is
          round,    \* i
          updates,  \* the channel
          stream,   \* Connect has a stream
          owed,     \* istiod will push clusters
          breaks    \* streams that ended so far

latencyVars == <<stage, round, updates, stream, owed, breaks>>

LatencyTypeOK ==
    /\ stage \in {"apply", "applied", "await", "awaitDeleted", "deleted", "defer", "over"}
    /\ round \in 1..Len(Entries)
    /\ updates \in Seq({"cds", "eds", "close"}) /\ Len(updates) <= UpdatesCap
    /\ stream \in BOOLEAN /\ owed \in BOOLEAN
    /\ breaks \in 0..MaxBreaks

LatencyInit ==
    /\ stage = "apply"
    /\ round = 1
    /\ updates = <<>>
    /\ stream = FALSE
    /\ owed = FALSE
    /\ breaks = 0

Cfg == Entries[round]
Configured == {i \in DOMAIN Entries : There(Entries[i])}
-----------------------------------------------------------------------------
(* Run *)

\* drain(updates), and cfg.Run
ApplyConfig ==
    /\ phase = "running" /\ stage = "apply"
    /\ updates' = <<>>
    /\ Ask("main", "apply", Cfg)
    /\ stage' = "applied"
    /\ UNCHANGED <<lifeVars, round, stream, owed, breaks>>

\* A slip: the channel is drained after the configuration was applied
AppliedThenDrained ==
    /\ stage = "applied" /\ Answered("main", "ok")
    /\ stage' = "await" /\ Forget("main")
    /\ updates' = <<>>
    /\ UNCHANGED <<lifeVars, round, stream, owed, breaks>>

Applied ==
    /\ stage = "applied" /\ req["main"].at \in Answers
    /\ IF Answered("main", "ok")
       THEN stage' = "await" /\ Forget("main")
       ELSE stage' = "defer" /\ Ask("main", "delete", Cfg)
    /\ UNCHANGED <<lifeVars, round, updates, stream, owed, breaks>>

Waiting == stage \in {"await", "awaitDeleted"}

\* getEvent: what is not "cds" or "close" is ignored.
TakeOther ==
    /\ Waiting /\ updates # <<>> /\ Head(updates) \notin {"cds", "close"}
    /\ updates' = Tail(updates)
    /\ UNCHANGED <<baseVars, stage, round, stream, owed, breaks>>

\* The push of the applied configuration: it is deleted.
TakeFirst ==
    /\ stage = "await" /\ updates # <<>> /\ Head(updates) = "cds"
    /\ updates' = Tail(updates)
    /\ Ask("main", "delete", Cfg)
    /\ stage' = "deleted"
    /\ UNCHANGED <<lifeVars, round, stream, owed, breaks>>

Deleted ==
    /\ stage = "deleted" /\ req["main"].at \in Answers
    /\ IF Answered("main", "ok")
       THEN stage' = "awaitDeleted" /\ Forget("main")
       ELSE stage' = "defer" /\ Ask("main", "delete", Cfg)
    /\ UNCHANGED <<lifeVars, round, updates, stream, owed, breaks>>

\* The push of its deletion: the next round
TakeSecond ==
    /\ stage = "awaitDeleted" /\ updates # <<>> /\ Head(updates) = "cds"
    /\ updates' = Tail(updates)
    /\ round' = (round % Len(Entries)) + 1
    /\ stage' = "apply"
    /\ UNCHANGED <<baseVars, stream, owed, breaks>>

\* "cancel", "close event": Run ends, and deletes the last configuration.
GiveUp ==
    /\ Waiting
    /\ \/ ctxDone /\ UNCHANGED updates
       \/ updates # <<>> /\ Head(updates) = "close" /\ updates' = Tail(updates)
    /\ Ask("main", "delete", Cfg)
    /\ stage' = "defer"
    /\ UNCHANGED <<lifeVars, round, stream, owed, breaks>>

\* The deferred call ignores its error.
Deferred ==
    /\ stage = "defer" /\ req["main"].at \in Answers
    /\ RunFails
    /\ stage' = "over"
    /\ Forget("main")
    /\ UNCHANGED <<ctxDone, client, round, updates, stream, owed, breaks>>

\* Cleanup does nothing.
LatencyExits ==
    /\ stage = "over"
    /\ Exit
    /\ UNCHANGED <<kubeVars, latencyVars>>
-----------------------------------------------------------------------------
(* Connect and istiod *)

Room == Len(updates) < UpdatesCap

\* A connection: istiod answers the first request.
StreamOpens ==
    /\ ~stream /\ ~ctxDone
    /\ stream' = TRUE
    /\ owed' = TRUE
    /\ UNCHANGED <<baseVars, stage, round, updates, breaks>>

\* Connect selects the end of the context, now or later.
StreamStops ==
    /\ stream /\ ctxDone
    /\ stream' = FALSE
    /\ UNCHANGED <<baseVars, stage, round, updates, owed, breaks>>

PushClusters ==
    /\ stream /\ owed /\ Room
    /\ updates' = Append(updates, "cds")
    /\ owed' = FALSE
    /\ UNCHANGED <<baseVars, stage, round, stream, breaks>>

\* A push of another type, at any time
PushOther ==
    /\ stream /\ Room
    /\ updates' = Append(updates, "eds")
    /\ UNCHANGED <<baseVars, stage, round, stream, owed, breaks>>

StreamEnds ==
    /\ stream /\ Room /\ breaks < MaxBreaks
    /\ stream' = FALSE
    /\ updates' = Append(updates, "close")
    /\ breaks' = breaks + 1
    /\ UNCHANGED <<baseVars, stage, round, owed>>
-----------------------------------------------------------------------------
\* What changes the configuration makes istiod owe a push.
LatencyCall(p) ==
    /\ Call(p)
    /\ owed' = (owed \/ obj' # obj)
    /\ UNCHANGED <<lifeVars, stage, round, updates, stream, breaks>>

LatencyStep(p) ==
    /\ p = "main"
    /\ \/ ApplyConfig \/ Applied \/ TakeOther \/ TakeFirst \/ Deleted \/ TakeSecond
       \/ GiveUp \/ Deferred \/ LatencyExits

LatencyConnects == StreamOpens \/ StreamStops
LatencyChance == PushOther \/ StreamEnds
=============================================================================
