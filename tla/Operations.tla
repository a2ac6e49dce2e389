------------------------------ MODULE Operations ------------------------------
(***************************************************************************)
(* The running of the servers: the scheduled jobs, the webhook inbox, a    *)
(* process's connections and the cluster of workers.  The four share no    *)
(* state; a behaviour follows one of them and the others rest.             *)
(***************************************************************************)
EXTENDS Scheduler, WebhookInbox, Connections, Cluster

VARIABLE part       \* the one followed

operationsVars == <<schedulerVars, inboxVars, connectionVars, clusterVars, part>>

OperationsTypeOK ==
  /\ SchedulerTypeOK /\ InboxTypeOK /\ ConnectionsTypeOK /\ ClusterTypeOK
  /\ part \in {"jobs", "events", "connections", "cluster"}

OperationsInit ==
  /\ SchedulerInit /\ InboxInit /\ ConnectionsInit /\ ClusterInit
  /\ part \in {"jobs", "events", "connections", "cluster"}

JobStep == part = "jobs" /\ SchedulerNext /\ UNCHANGED <<inboxVars, connectionVars, clusterVars, part>>
EventStep == part = "events" /\ InboxNext /\ UNCHANGED <<schedulerVars, connectionVars, clusterVars, part>>
ConnectionsStep == part = "connections" /\ ConnectionsNext /\ UNCHANGED <<schedulerVars, inboxVars, clusterVars, part>>
ClusterStep == part = "cluster" /\ ClusterNext /\ UNCHANGED <<schedulerVars, inboxVars, connectionVars, part>>

OperationsNext == JobStep \/ EventStep \/ ConnectionsStep \/ ClusterStep

\* Nothing is owed by the parts that rest.
OperationsSpec ==
  /\ OperationsInit /\ [][OperationsNext]_operationsVars
  /\ part = "jobs" => SchedulerFairness
  /\ part = "connections" => ConnectionsFairness
  /\ part = "cluster" => ClusterFairness

-----------------------------------------------------------------------------
(* The liveness each part promises while it is the one followed. *)

\* A process that lost the database or Redis serves again once both stay back; the
\* exception is a start whose first ping Redis left unanswered on an open connection.
ServesAgain == part = "connections" => HealthReturns

\* The same of every start.
StartsAlwaysRecover == part = "connections" => StartRecovers

\* In an outage that lasts, requests come to be refused with 503.
OutageComesToBeSeen == part = "connections" => OutageIsSeen

\* Until the shutdown each worker that crashed comes back.
CrashedWorkersReturn == part = "cluster" => WorkersReturn
=============================================================================
