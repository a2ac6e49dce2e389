-------------------------------- MODULE Cluster --------------------------------
(***************************************************************************)
(* The primary process and its workers: forked at the start, forked again  *)
(* when one exits, and drained on SIGTERM.                                 *)
(***************************************************************************)
EXTENDS Naturals

CONSTANTS
  Workers,      \* WEB_CONCURRENCY of them
  MaxExits      \* workers that crash (a bound of the model)

VARIABLES
  primary,      \* "running", "draining" (the signal was forwarded), "exited"
  worker,       \* "starting", "up", "draining", or "exited"
  cutOff,       \* history: workers that ended with the primary, requests open
  crashes

clusterVars == <<primary, worker, cutOff, crashes>>

ClusterTypeOK ==
  /\ primary \in {"running", "draining", "exited"}
  /\ worker \in [Workers -> {"starting", "up", "draining", "exited"}]
  /\ cutOff \subseteq Workers
  /\ crashes \in 0..MaxExits

ClusterInit ==
  /\ primary = "running"
  /\ worker = [w \in Workers |-> "starting"]
  /\ cutOff = {} /\ crashes = 0

WorkerStarts(w) ==
  /\ worker[w] = "starting" /\ primary # "exited"
  /\ worker' = [worker EXCEPT ![w] = "up"]
  /\ UNCHANGED <<primary, cutOff, crashes>>

\* An uncaught exception, an unhandled rejection or a failed start.
WorkerCrashes(w) ==
  /\ worker[w] \in {"starting", "up"} /\ crashes < MaxExits
  /\ worker' = [worker EXCEPT ![w] = "exited"]
  /\ crashes' = crashes + 1
  /\ UNCHANGED <<primary, cutOff>>

\* The "exit" listener: a worker that exited is replaced, whatever it exited for.
WorkerReplaced(w) ==
  /\ worker[w] = "exited" /\ primary # "exited"
  /\ worker' = [worker EXCEPT ![w] = "starting"]
  /\ UNCHANGED <<primary, cutOff, crashes>>

\* shutdownAll: a worker that is up drains; one still starting has no handler yet
\* and is ended by the signal.
ForwardSignal ==
  /\ primary = "running"
  /\ primary' = "draining"
  /\ worker' = [w \in Workers |-> IF worker[w] = "up" THEN "draining" ELSE "exited"]
  /\ UNCHANGED <<cutOff, crashes>>

\* gracefulShutdown: the open requests are answered, or ten seconds pass.
WorkerDrained(w) ==
  /\ worker[w] = "draining"
  /\ worker' = [worker EXCEPT ![w] = "exited"]
  /\ UNCHANGED <<primary, cutOff, crashes>>

\* Twelve seconds after the signal, by when the drained workers are gone; the
\* workers that are left lose the primary and exit.
PrimaryExits ==
  /\ primary = "draining"
  /\ \A w \in Workers : worker[w] # "draining"
  /\ primary' = "exited"
  /\ cutOff' = {w \in Workers : worker[w] = "up"}
  /\ worker' = [w \in Workers |-> "exited"]
  /\ UNCHANGED crashes

ClusterNext ==
  \/ \E w \in Workers : WorkerStarts(w) \/ WorkerCrashes(w) \/ WorkerReplaced(w) \/ WorkerDrained(w)
  \/ ForwardSignal \/ PrimaryExits

ClusterFairness ==
  /\ \A w \in Workers : WF_clusterVars(WorkerStarts(w)) /\ WF_clusterVars(WorkerReplaced(w)) /\ WF_clusterVars(WorkerDrained(w))
  /\ WF_clusterVars(PrimaryExits)

-----------------------------------------------------------------------------
(* Properties. *)

\* server.ts:91 "Auto-restart any worker that crashes", at its start as well as
\* later: until the shutdown every worker comes to be up again.
WorkersReturn == <>(primary # "running") \/ \A w \in Workers : []<>(worker[w] = "up")

\* server.ts:99 "so each one shuts down cleanly": no worker that serves requests
\* is ended by the primary's exit.
EachDrained == cutOff = {}
=============================================================================
