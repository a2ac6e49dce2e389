------------------------------ MODULE Connections ------------------------------
(***************************************************************************)
(* One server process and its connections to the database and Redis: the   *)
(* start, the two watchers that keep the flags dbReady and the health      *)
(* check read, and the outages they are for.                               *)
(***************************************************************************)
EXTENDS Naturals

CONSTANT MaxRetries     \* MAX_RETRIES

VARIABLES
  databaseUp, redisUp,  \* whether each can be reached and answers (the environment)
  phase,                \* of the process: "database", "redis", "connect", "ping", "waiting" (starting), "up"
  isConnected,          \* dbWatcher's flag
  ping,                 \* the ping check's attempt (0: none running)
  reconnect,            \* "none", "connecting", or the attempt of its check
  redisStatus,          \* ioredis's status
  redisConnected        \* redisWatcher's flag

connectionVars == <<databaseUp, redisUp, phase, isConnected, ping, reconnect, redisStatus, redisConnected>>

ConnectionsTypeOK ==
  /\ databaseUp \in BOOLEAN /\ redisUp \in BOOLEAN
  /\ phase \in {"database", "redis", "connect", "ping", "waiting", "up"}
  /\ isConnected \in BOOLEAN
  /\ ping \in 0..MaxRetries
  /\ reconnect \in {<<"none", 0>>, <<"connecting", 0>>} \union {<<"check", n>> : n \in 1..MaxRetries}
  /\ redisStatus \in {"wait", "connecting", "reconnecting", "ready", "end"}
  /\ redisConnected \in BOOLEAN

NoReconnect == <<"none", 0>>

ConnectionsInit ==
  /\ databaseUp \in BOOLEAN /\ redisUp \in BOOLEAN
  /\ phase = "database"
  /\ isConnected = FALSE /\ ping = 0 /\ reconnect = NoReconnect
  /\ redisStatus = "wait" /\ redisConnected = FALSE

\* process.exit(1); the primary or the platform starts it again.
Restart ==
  /\ phase' = "database"
  /\ isConnected' = FALSE /\ ping' = 0 /\ reconnect' = NoReconnect
  /\ redisStatus' = "wait" /\ redisConnected' = FALSE

\* $connect opens no connection with a pooled driver, so it may succeed in an outage.
ConnectDatabase ==
  /\ phase = "database"
  /\ \/ /\ isConnected' = TRUE /\ phase' = "redis"
        /\ UNCHANGED <<ping, reconnect, redisStatus, redisConnected>>
     \/ ~databaseUp /\ Restart
  /\ UNCHANGED <<databaseUp, redisUp>>

\* connectRedis of a fresh client: nothing uses Redis before it (startWorker).
StartRedis ==
  /\ phase = "redis"
  /\ phase' = "connect" /\ redisStatus' = "connecting"
  /\ UNCHANGED <<databaseUp, redisUp, isConnected, ping, reconnect, redisConnected>>

PingAnswered ==
  /\ phase = "ping" /\ redisStatus = "ready" /\ redisUp
  /\ phase' = "up" /\ redisConnected' = TRUE
  /\ UNCHANGED <<databaseUp, redisUp, isConnected, ping, reconnect, redisStatus>>

\* Five seconds without an answer, whether or not the connection was lost: the start
\* waits for the client's next "ready" or "end".
PingFails ==
  /\ phase = "ping" /\ ~redisUp
  /\ phase' = "waiting"
  /\ UNCHANGED <<databaseUp, redisUp, isConnected, ping, reconnect, redisStatus, redisConnected>>

\* The "ready", "close" and "end" events of the client, and what waits for them:
\* connect() succeeds with the first and fails with the second, and a start that is
\* waiting goes on with "ready" and gives up with "end".
RedisReady ==
  /\ redisStatus \in {"connecting", "reconnecting"} /\ redisUp
  /\ redisStatus' = "ready" /\ redisConnected' = TRUE
  /\ phase' = CASE phase = "connect" -> "ping" [] phase = "waiting" -> "up" [] OTHER -> phase
  /\ UNCHANGED <<databaseUp, redisUp, isConnected, ping, reconnect>>

RedisCloses ==
  /\ redisStatus \in {"ready", "connecting"} /\ ~redisUp
  /\ redisStatus' = "reconnecting" /\ redisConnected' = FALSE
  /\ phase' = IF phase = "connect" THEN "waiting" ELSE phase
  /\ UNCHANGED <<databaseUp, redisUp, isConnected, ping, reconnect>>

\* retryStrategy: null after 10 attempts.  A ping still open fails then, and starts
\* to wait just after the event.
RedisGivesUp ==
  /\ redisStatus = "reconnecting" /\ ~redisUp
  /\ \/ phase = "waiting" /\ Restart
     \/ /\ phase # "waiting"
        /\ redisStatus' = "end" /\ redisConnected' = FALSE
        /\ phase' = IF phase = "ping" THEN "waiting" ELSE phase
        /\ UNCHANGED <<isConnected, ping, reconnect>>
  /\ UNCHANGED <<databaseUp, redisUp>>

\* Mutant: nobody listens for "end".
ReconnectRedisNever == FALSE /\ UNCHANGED connectionVars

\* Five seconds after "end".
ReconnectRedis ==
  /\ redisStatus = "end"
  /\ redisStatus' = "connecting"
  /\ UNCHANGED <<databaseUp, redisUp, phase, isConnected, ping, reconnect, redisConnected>>

StartPing ==
  /\ phase = "up" /\ ping = 0
  /\ ping' = 1
  /\ UNCHANGED <<databaseUp, redisUp, phase, isConnected, reconnect, redisStatus, redisConnected>>

\* An attempt of the check; the last one decides.
RunPingCheck ==
  /\ ping > 0
  /\ IF databaseUp
       THEN isConnected' = TRUE /\ ping' = 0
       ELSE IF ping < MaxRetries
         THEN ping' = ping + 1 /\ UNCHANGED isConnected
         ELSE isConnected' = FALSE /\ ping' = 0
  /\ UNCHANGED <<databaseUp, redisUp, phase, reconnect, redisStatus, redisConnected>>

\* One attempt at a time, and only while the flag is down.
StartReconnect ==
  /\ phase = "up" /\ ~isConnected /\ reconnect = NoReconnect
  /\ reconnect' = <<"connecting", 0>>
  /\ UNCHANGED <<databaseUp, redisUp, phase, isConnected, ping, redisStatus, redisConnected>>

Reconnected ==
  /\ reconnect = <<"connecting", 0>>
  /\ reconnect' = <<"check", 1>> \/ (~databaseUp /\ reconnect' = NoReconnect)
  /\ UNCHANGED <<databaseUp, redisUp, phase, isConnected, ping, redisStatus, redisConnected>>

CheckReconnected ==
  /\ reconnect[1] = "check"
  /\ isConnected' = (isConnected \/ databaseUp)
  /\ reconnect' = IF databaseUp \/ reconnect[2] = MaxRetries THEN NoReconnect ELSE <<"check", reconnect[2] + 1>>
  /\ UNCHANGED <<databaseUp, redisUp, phase, ping, redisStatus, redisConnected>>

DatabaseChanges == databaseUp' = ~databaseUp /\ UNCHANGED <<redisUp, phase, isConnected, ping, reconnect, redisStatus, redisConnected>>

RedisChanges == redisUp' = ~redisUp /\ UNCHANGED <<databaseUp, phase, isConnected, ping, reconnect, redisStatus, redisConnected>>

ConnectionStep ==
  \/ ConnectDatabase \/ StartRedis \/ PingAnswered \/ PingFails
  \/ RedisReady \/ RedisCloses \/ RedisGivesUp \/ ReconnectRedis

ConnectionsNext ==
  \/ ConnectionStep
  \/ StartPing \/ RunPingCheck
  \/ StartReconnect \/ Reconnected \/ CheckReconnected
  \/ DatabaseChanges \/ RedisChanges

\* The intervals fire and what they started comes to an end; the environment
\* owes nothing.
ConnectionsFairness ==
  /\ WF_connectionVars(ConnectionStep)
  /\ WF_connectionVars(StartPing) /\ WF_connectionVars(RunPingCheck)
  /\ WF_connectionVars(StartReconnect) /\ WF_connectionVars(Reconnected) /\ WF_connectionVars(CheckReconnected)

-----------------------------------------------------------------------------
(* Properties. *)

Serving == phase = "up" /\ isConnected /\ redisConnected

\* A start whose ping was not answered although its connection stayed open waits for
\* events that have been.
Stranded == phase = "waiting" /\ redisStatus = "ready"

\* Once the database and Redis stay reachable the server serves again and goes on
\* serving, however an outage met the start, a ping and a reconnection, unless the
\* one outage its start does not recover from met it.
HealthReturns == <>[](databaseUp /\ redisUp) => <>[]Serving \/ <>[]Stranded

\* redisWatcher.ts:57-58 "Give it a chance to recover before giving up for good": a
\* start that met an outage goes on, or ends so that it is made again.
StartRecovers == <>[](databaseUp /\ redisUp) => <>[]Serving

\* dbReady.ts "blocks any request with 503 when the database is not reachable":
\* in an outage that lasts, the flag comes down and stays down.
OutageIsSeen == <>[]~databaseUp => <>[]~(phase = "up" /\ isConnected)
=============================================================================
