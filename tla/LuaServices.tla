---------------------------- MODULE LuaServices ----------------------------
(***************************************************************************)
(* The functions by which a Lua script uses outside services: Redis,       *)
(* TimescaleDB, InfluxDB, HTTP, Discord, ntfy and mail.                     *)
(*                                                                         *)
(* A script runs inside the engine task, one hook after the other.  A      *)
(* function that answers with a result makes script and engine wait; an    *)
(* asynchronous one starts a task of its own and answers at once.          *)
(*                                                                         *)
(* Commands of one Redis connection take a fair lock and then go down one  *)
(* pipeline, which the connection manager replaces when a command fails on *)
(* it; statements wait for one of the few clients of a TimescaleDB pool;   *)
(* every other request has a connection of its own.  A call that runs out  *)
(* of time is dropped by its caller, but what it has sent may still take   *)
(* effect.                                                                 *)
(***************************************************************************)
EXTENDS Naturals, Sequences, FiniteSets, SequencesExt

CONSTANTS
  Mixes,       \* the sets of services that a script uses together
  Flaws,       \* what can be wrong with the arguments, "none" included
  Limit,       \* the time limits, by name, in ticks
  PoolSize,    \* clients of one pool
  MaxCalls,    \* per mix: bound on the calls that are not refused
  MaxOpened,   \* bound on the connections and pools opened
  MaxBlocked   \* bound up to which the engine's wait is counted

ASSUME ServicesAssumption ==
  /\ Limit \in [{"redis", "redis_del", "connect", "tsdb_connect", "http", "ntfy", "smtp"} -> Nat \ {0}]
  /\ PoolSize \in Nat \ {0} /\ MaxOpened \in Nat /\ MaxBlocked \in Nat

VARIABLES
  mix,         \* the services in use
  calls,       \* the calls, in the order the script made them
  caller,      \* the call that the script and the engine wait for, 0 if none
  outcome,     \* what the script got from its last function
  registry,    \* the live caller's Redis connection and TimescaleDB pool, if any
  opened,      \* connections and pools opened so far
  closed,      \* the pools that are closed
  disconnected,\* the pools that a script has disconnected from
  queue,       \* per connection or pool: who has the lock or a client, and who waits
  wire,        \* requests sent, not yet executed or lost
  severed,     \* requests on their way down a Redis pipeline when it failed
  applied,     \* the calls in the order in which they took effect
  blocked      \* how long the engine has been waiting for the caller's call

servicesVars == <<mix, calls, caller, outcome, registry, opened, closed, disconnected, queue, wire, severed,
                  applied, blocked>>

Calls    == DOMAIN calls
Forever  == {}
Kept     == {"redis", "tsdb"}      \* the services with a connection in the registry
Cap(svc) == IF svc = "redis" THEN 1 ELSE PoolSize

ServicesInit ==
  /\ mix \in Mixes
  /\ calls = <<>> /\ caller = 0 /\ outcome = "none"
  /\ registry = [redis |-> {}, tsdb |-> {}]
  /\ opened = 0 /\ closed = {} /\ disconnected = {} /\ queue = [on \in 1 .. MaxOpened |-> <<>>]
  /\ wire = <<>> /\ severed = {} /\ applied = <<>> /\ blocked = 0
-----------------------------------------------------------------------------
(* What the functions have in common. *)
Answered(r) ==
  /\ outcome' = r
  /\ UNCHANGED <<mix, calls, caller, registry, opened, closed, disconnected, queue, wire, severed, applied, blocked>>

(* A call enters: a synchronous one is polled at once, and takes its place *)
(* in the queue or sends; an asynchronous one waits for its task to start. *)
Enter(svc, mode, limit, refusal) ==
  LET i  == Len(calls) + 1
      on == IF svc \in Kept THEN registry[svc] ELSE {}
      stage == IF mode = "async" THEN "spawned" ELSE IF svc \in Kept THEN "waiting" ELSE "sent"
  IN /\ i <= MaxCalls[mix]
     /\ calls' = Append(calls, [svc |-> svc, mode |-> mode, on |-> on, left |-> limit,
                                limit |-> limit,
                                stage |-> stage, refusal |-> refusal, result |-> "none"])
     /\ queue' = [o \in DOMAIN queue |->
                    IF stage = "waiting" /\ o \in on THEN Append(queue[o], i) ELSE queue[o]]
     /\ wire' = IF stage = "sent" THEN Append(wire, i) ELSE wire
     /\ caller' = IF mode = "sync" THEN i ELSE 0
     /\ outcome' = IF mode = "sync" THEN "none" ELSE "true"
     /\ UNCHANGED <<mix, registry, opened, closed, disconnected, severed, applied, blocked>>

(* The arguments are checked first, then there must be a connection. *)
Refused(svc, checks, flaw) == flaw \in checks \/ (svc \in Kept /\ registry[svc] = {})

Function(svc, mode, checks, flaw, limit, refusal) ==
  /\ caller = 0 /\ svc \in mix
  /\ IF Refused(svc, checks, flaw) THEN Answered(refusal) ELSE Enter(svc, mode, limit, refusal)

Sync(svc, checks, flaw, limit, refusal) == Function(svc, "sync", checks, flaw, limit, refusal)
Async(svc, checks, flaw, limit) == Function(svc, "async", checks, flaw, limit, "false")
-----------------------------------------------------------------------------
(* Redis. *)
RedisGet(flaw)      == Sync("redis", {"key"}, flaw, {Limit["redis"]}, "error")
RedisSet(flaw)      == Sync("redis", {"key"}, flaw, {Limit["redis"]}, "error")
RedisExists(flaw)   == Sync("redis", {"key"}, flaw, {Limit["redis"]}, "error")
RedisDel(flaw)      == Sync("redis", {"key"}, flaw, {Limit["redis_del"]}, "error")
RedisSetAsync(flaw) == Async("redis", {"key"}, flaw, {Limit["redis_del"]})
RedisDelAsync(flaw) == Async("redis", {"key"}, flaw, {Limit["redis"]})

(* TimescaleDB; a failure is raised. *)
TsdbExecute(flaw)          == Sync("tsdb", {"sql", "params"}, flaw, Forever, "raised")
TsdbInsert(flaw)           == Sync("tsdb", {"table", "columns", "rows"}, flaw, Forever, "raised")
TsdbInsertBatch(flaw)      == Sync("tsdb", {"table", "columns", "rows"}, flaw, Forever, "raised")
TsdbExecuteAsync(flaw)     == Async("tsdb", {"sql", "params"}, flaw, Forever)
TsdbInsertAsync(flaw)      == Async("tsdb", {"table", "columns", "rows"}, flaw, Forever)
TsdbInsertBatchAsync(flaw) == Async("tsdb", {"table", "columns", "rows"}, flaw, Forever)

(* InfluxDB; a batch is a table of lines, none of them empty. *)
V2Checks == {"url", "token", "org", "bucket", "rows", "precision"}
V3Checks == {"url", "token", "database", "rows", "precision"}

InfluxdbWriteV2(flaw)           == Sync("influx", V2Checks, flaw, Forever, "raised")
InfluxdbBatchWriteV2(flaw)      == Sync("influx", V2Checks, flaw, Forever, "raised")
InfluxdbWriteV3(flaw)           == Sync("influx", V3Checks, flaw, Forever, "raised")
InfluxdbBatchWriteV3(flaw)      == Sync("influx", V3Checks, flaw, Forever, "raised")
InfluxdbWriteV2Async(flaw)      == Async("influx", V2Checks, flaw, Forever)
InfluxdbBatchWriteV2Async(flaw) == Async("influx", V2Checks, flaw, Forever)
InfluxdbWriteV3Async(flaw)      == Async("influx", V3Checks, flaw, Forever)
InfluxdbBatchWriteV3Async(flaw) == Async("influx", V3Checks, flaw, Forever)

(* HTTP, Discord, ntfy and mail. *)
DiscordChecks == {"url", "content", "username"}
NtfyChecks    == {"topic", "content", "server", "url", "priority"}
SmtpChecks    == {"server", "from", "to", "subject", "tls", "content"}

HttpPost(flaw)         == Async("http", {"url"}, flaw, {Limit["http"]})
DiscordSend(flaw)      == Sync("discord", DiscordChecks, flaw, {Limit["http"]}, "error")
DiscordSendAsync(flaw) == Async("discord", DiscordChecks, flaw, {Limit["http"]})
NtfySend(flaw)         == Sync("ntfy", NtfyChecks, flaw, {Limit["ntfy"]}, "error")
NtfySendAsync(flaw)    == Async("ntfy", NtfyChecks, flaw, {Limit["ntfy"]})
SmtpSend(flaw)         == Sync("smtp", SmtpChecks, flaw, {Limit["smtp"]}, "error")
SmtpSendAsync(flaw)    == Async("smtp", SmtpChecks, flaw, {Limit["smtp"]})

RedisFunctions(flaw) ==
  \/ RedisGet(flaw) \/ RedisSet(flaw) \/ RedisExists(flaw) \/ RedisDel(flaw)
  \/ RedisSetAsync(flaw) \/ RedisDelAsync(flaw)

TsdbFunctions(flaw) ==
  \/ TsdbExecute(flaw) \/ TsdbInsert(flaw) \/ TsdbInsertBatch(flaw)
  \/ TsdbExecuteAsync(flaw) \/ TsdbInsertAsync(flaw) \/ TsdbInsertBatchAsync(flaw)

InfluxFunctions(flaw) ==
  \/ InfluxdbWriteV2(flaw) \/ InfluxdbBatchWriteV2(flaw)
  \/ InfluxdbWriteV3(flaw) \/ InfluxdbBatchWriteV3(flaw)
  \/ InfluxdbWriteV2Async(flaw) \/ InfluxdbBatchWriteV2Async(flaw)
  \/ InfluxdbWriteV3Async(flaw) \/ InfluxdbBatchWriteV3Async(flaw)

Notifications(flaw) ==
  \/ HttpPost(flaw) \/ DiscordSend(flaw) \/ DiscordSendAsync(flaw)
  \/ NtfySend(flaw) \/ NtfySendAsync(flaw) \/ SmtpSend(flaw) \/ SmtpSendAsync(flaw)
-----------------------------------------------------------------------------
(* Connecting: a call without a request of the caller's own.  The new      *)
(* connection replaces the old one only when everything has succeeded; the *)
(* old one is not closed.                                                  *)
Connecting(svc, limit, flaw) ==
  /\ caller = 0 /\ svc \in mix
  /\ IF flaw \in {"url", "pool_size"} THEN Answered("error")
     ELSE /\ opened < MaxOpened /\ Len(calls) < MaxCalls[mix]
          /\ calls' = Append(calls, [svc |-> svc, mode |-> "sync", on |-> {}, left |-> limit,
                                     limit |-> limit, stage |-> "connecting", refusal |-> "error", result |-> "none"])
          /\ caller' = Len(calls) + 1 /\ outcome' = "none"
          /\ UNCHANGED <<mix, registry, opened, closed, disconnected, queue, wire, severed, applied, blocked>>

RedisConnect(flaw) == Connecting("redis", {Limit["connect"]}, flaw)
TsdbConnect(flaw)  == Connecting("tsdb", {Limit["tsdb_connect"]}, flaw)

(* Selecting another database than 0 has no time limit. *)
Selecting(i) ==
  /\ calls[i].svc = "redis" /\ calls[i].stage = "connecting"
  /\ calls' = [calls EXCEPT ![i].stage = "selecting", ![i].left = Forever]
  /\ UNCHANGED <<mix, caller, outcome, registry, opened, closed, disconnected, queue, wire, severed, applied, blocked>>

Connected(i) ==
  /\ calls[i].stage \in {"connecting", "selecting"} /\ opened < MaxOpened
  /\ opened' = opened + 1
  /\ registry' = [registry EXCEPT ![calls[i].svc] = {opened + 1}]
  /\ calls' = [calls EXCEPT ![i].stage = "ended", ![i].result = "ok", ![i].left = Forever]
  /\ caller' = 0 /\ outcome' = "ok" /\ blocked' = 0
  /\ UNCHANGED <<mix, closed, disconnected, queue, wire, severed, applied>>

(* redis_disconnect forgets the connection; tasks that hold it go on.      *)
RedisDisconnect ==
  /\ caller = 0 /\ "redis" \in mix
  /\ IF registry["redis"] = {} THEN Answered("error")
     ELSE /\ registry' = [registry EXCEPT !["redis"] = {}] /\ outcome' = "ok"
          /\ UNCHANGED <<mix, calls, caller, opened, closed, disconnected, queue, wire, severed, applied, blocked>>

(* timescaledb_disconnect closes the pool: whoever waits for a client      *)
(* fails, and who has one keeps it.                                        *)
InUse(on)    == IF Len(queue[on]) < PoolSize THEN Len(queue[on]) ELSE PoolSize
Holders(on)  == {queue[on][k] : k \in 1 .. InUse(on)}
Unserved(on) == ToSet(queue[on]) \ Holders(on)

TsdbForget ==               \* mutant: disconnect only forgets the pool
  /\ caller = 0 /\ "tsdb" \in mix
  /\ IF registry["tsdb"] = {} THEN Answered("error")
     ELSE /\ registry' = [registry EXCEPT !["tsdb"] = {}] /\ outcome' = "ok"
          /\ disconnected' = disconnected \cup registry["tsdb"]
          /\ UNCHANGED <<mix, calls, caller, opened, closed, queue, wire, severed, applied, blocked>>

TsdbDisconnect ==
  /\ caller = 0 /\ "tsdb" \in mix
  /\ IF registry["tsdb"] = {} THEN Answered("error")
     ELSE LET on == CHOOSE o \in registry["tsdb"] : TRUE
          IN /\ registry' = [registry EXCEPT !["tsdb"] = {}] /\ outcome' = "ok"
             /\ closed' = closed \cup {on} /\ disconnected' = disconnected \cup {on}
             /\ calls' = [i \in Calls |-> IF i \in Unserved(on)
                            THEN [calls[i] EXCEPT !.stage = "ended", !.result = "error"]
                            ELSE calls[i]]
             /\ queue' = [queue EXCEPT ![on] = SubSeq(@, 1, InUse(on))]
             /\ UNCHANGED <<mix, caller, opened, wire, severed, applied, blocked>>

(* Another script is loaded; its registry is empty. *)
ReplaceScript ==
  /\ caller = 0
  /\ registry' = [redis |-> {}, tsdb |-> {}] /\ outcome' = "none"
  /\ UNCHANGED <<mix, calls, caller, opened, closed, disconnected, queue, wire, severed, applied, blocked>>
-----------------------------------------------------------------------------
(* How a call goes on. *)
End(i, result) ==
  /\ calls' = [calls EXCEPT ![i].stage = "ended", ![i].result = result, ![i].left = Forever]
  /\ queue' = [o \in DOMAIN queue |-> RemoveFirst(queue[o], i)]
  /\ caller' = IF caller = i THEN 0 ELSE caller
  /\ outcome' = IF caller = i THEN IF result \in {"ok", "status"} THEN result ELSE calls[i].refusal
              ELSE outcome
  /\ blocked' = IF caller = i THEN 0 ELSE blocked
  /\ UNCHANGED <<mix, registry, opened, closed, disconnected, applied>>

(* The task of an asynchronous call is polled for the first time. *)
StartTask(i) ==
  /\ calls[i].stage = "spawned"
  /\ IF calls[i].svc = "tsdb" /\ calls[i].on \subseteq closed
     THEN End(i, "error") /\ UNCHANGED <<wire, severed>>
     ELSE LET kept == calls[i].svc \in Kept
          IN /\ calls' = [calls EXCEPT ![i].stage = IF kept THEN "waiting" ELSE "sent"]
             /\ queue' = [o \in DOMAIN queue |->
                            IF kept /\ o \in calls[i].on THEN Append(queue[o], i) ELSE queue[o]]
             /\ wire' = IF kept THEN wire ELSE Append(wire, i)
             /\ UNCHANGED <<mix, caller, outcome, registry, opened, closed, disconnected, severed, applied, blocked>>

(* It has the lock, or a client, and sends. *)
SendRequest(i) ==
  /\ calls[i].stage = "waiting"
  /\ \E o \in calls[i].on, k \in 1 .. Cap(calls[i].svc) :
       k <= Len(queue[o]) /\ queue[o][k] = i
  /\ calls' = [calls EXCEPT ![i].stage = "sent"] /\ wire' = Append(wire, i)
  /\ UNCHANGED <<mix, caller, outcome, registry, opened, closed, disconnected, queue, severed, applied, blocked>>

AnswerWhenSent(i) ==        \* mutant: success before the service has answered
  /\ calls[i].stage = "sent"
  /\ End(i, "ok") /\ UNCHANGED <<wire, severed>>

AnswerCall(i) ==
  /\ calls[i].stage = "sent" /\ i \in ToSet(applied)
  /\ End(i, "ok") /\ UNCHANGED <<wire, severed>>

(* The service answers that it did not do it.  For InfluxDB a status is    *)
(* as good as another; Discord's explanation is then read without a limit. *)
Decline(i) ==
  /\ calls[i].stage = "sent" /\ i \in ToSet(wire)
  /\ wire' = RemoveFirst(wire, i)
  /\ IF calls[i].svc = "discord"
     THEN /\ calls' = [calls EXCEPT ![i].stage = "reading", ![i].left = Forever]
          /\ UNCHANGED <<mix, caller, outcome, registry, opened, closed, disconnected, queue, severed, applied, blocked>>
     ELSE End(i, IF calls[i].svc = "influx" THEN "status" ELSE "error") /\ UNCHANGED severed

(* An exchange of the mail protocol is over, and the next has its own time.*)
MailExchange(i) ==
  /\ calls[i].svc = "smtp" /\ calls[i].stage = "sent" /\ calls[i].left # {Limit["smtp"]}
  /\ calls' = [calls EXCEPT ![i].left = {Limit["smtp"]}]
  /\ UNCHANGED <<mix, caller, outcome, registry, opened, closed, disconnected, queue, wire, severed, applied, blocked>>

(* The request or its answer is lost with the connection, no connection    *)
(* can be made, or the rest of an explanation is read.  The connection     *)
(* manager replaces a Redis connection on which a command failed: what is  *)
(* still on its way down the old pipeline is severed from what follows.    *)
OnSameWire(i) == {j \in ToSet(wire) : calls[j].svc = "redis" /\ calls[j].on = calls[i].on}

CallFails(i) ==
  /\ \/ calls[i].stage \in {"connecting", "selecting", "reading", "sent"}
     \/ calls[i].stage = "waiting" /\ calls[i].svc = "tsdb"
  /\ severed' = IF calls[i].stage = "sent" /\ calls[i].svc = "redis"
                THEN severed \cup OnSameWire(i) ELSE severed
  /\ End(i, "error") /\ UNCHANGED wire

TimeOut(i) ==
  /\ calls[i].stage \in {"connecting", "waiting", "sent"} /\ calls[i].left = {0}
  /\ End(i, "timed out") /\ UNCHANGED <<wire, severed>>
-----------------------------------------------------------------------------
(* The services' and the clock's part.  A Redis pipeline is executed in    *)
(* order and loses the end of what is on its way.  What was severed may    *)
(* still be executed, in no order, or be lost.                             *)
SamePipeline(i, j) ==
  calls[i].svc = "redis" /\ calls[j].on = calls[i].on /\ i \notin severed

Execute(i) ==
  /\ \E k \in DOMAIN wire : /\ wire[k] = i /\ wire' = RemoveAt(wire, k)
                           /\ \A l \in 1 .. k - 1 : ~SamePipeline(wire[l], i)
  /\ applied' = Append(applied, i)
  /\ UNCHANGED <<mix, calls, caller, outcome, registry, opened, closed, disconnected, queue, severed, blocked>>

LoseRequest(i) ==
  /\ \E k \in DOMAIN wire : /\ wire[k] = i /\ wire' = RemoveAt(wire, k)
                           /\ \A l \in k + 1 .. Len(wire) : ~SamePipeline(i, wire[l])
  /\ UNCHANGED <<mix, calls, caller, outcome, registry, opened, closed, disconnected, queue, severed, applied, blocked>>

(* Time passes; who is out of time is told at once. *)
Started == {i \in Calls : calls[i].stage \in {"connecting", "waiting", "sent"}}

TickLockOutside ==          \* mutant: waiting for the lock does not count
  /\ \A i \in Started : calls[i].left # {0}
  /\ calls' = [i \in Calls |-> IF i \in Started /\ calls[i].stage # "waiting"
                               THEN [calls[i] EXCEPT !.left = {t - 1 : t \in calls[i].left}]
                               ELSE calls[i]]
  /\ blocked' = IF caller # 0 /\ blocked < MaxBlocked THEN blocked + 1 ELSE blocked
  /\ UNCHANGED <<mix, caller, outcome, registry, opened, closed, disconnected, queue, wire, severed, applied>>

ServiceTick ==
  /\ \A i \in Started : calls[i].left # {0}
  /\ calls' = [i \in Calls |-> IF i \in Started
                               THEN [calls[i] EXCEPT !.left = {t - 1 : t \in calls[i].left}]
                               ELSE calls[i]]
  /\ blocked' = IF caller # 0 /\ blocked < MaxBlocked THEN blocked + 1 ELSE blocked
  /\ UNCHANGED <<mix, caller, outcome, registry, opened, closed, disconnected, queue, wire, severed, applied>>

ServicesNext ==
  \/ \E flaw \in Flaws : \/ RedisFunctions(flaw) \/ TsdbFunctions(flaw) \/ InfluxFunctions(flaw)
                         \/ Notifications(flaw) \/ RedisConnect(flaw) \/ TsdbConnect(flaw)
  \/ RedisDisconnect \/ TsdbDisconnect \/ ReplaceScript \/ ServiceTick
  \/ \E i \in Calls : \/ Selecting(i) \/ Connected(i) \/ StartTask(i) \/ SendRequest(i) \/ AnswerCall(i)
                      \/ Decline(i) \/ MailExchange(i) \/ CallFails(i) \/ TimeOut(i)
                      \/ Execute(i) \/ LoseRequest(i)

ServicesSpec == ServicesInit /\ [][ServicesNext]_servicesVars
-----------------------------------------------------------------------------
(* A function that answered with success has taken effect, and before      *)
(* everything that a later call does, whichever service either uses.  On   *)
(* one Redis connection this also holds for a synchronous command that ran *)
(* out of time: what has left before its lock was dropped stays in front,  *)
(* unless the pipeline fails before it is executed and is replaced         *)
(* (redis.rs:8, 127-131, 171-179).  Asynchronous calls overtake each other.*)
Requests == {i \in Calls : calls[i].svc \in Kept => calls[i].on # {}}

SyncInOrder ==
  /\ \A i \in Requests : calls[i].result = "ok" => i \in ToSet(applied)
  /\ \A k, l \in DOMAIN applied :
       k < l /\ applied[l] < applied[k] =>
         LET late == calls[applied[l]] early == calls[applied[k]]
         IN \/ late.mode = "async"
            \/ /\ late.result # "ok"
               /\ late.svc = "redis" /\ late.on = early.on => applied[l] \in severed

(* After timescaledb_disconnect no statement gets a client of that pool    *)
(* any more: what has not started fails, although its task holds a clone   *)
(* of the pool (timescaledb.rs:163-175, 496-511, 415).                     *)
NoClientAfterDisconnect ==
  [][\A on \in disconnected : Holders(on)' \subseteq Holders(on)]_servicesVars

(* The engine waits for a function with a time limit no longer than that,  *)
(* also when others hold the lock or the service never answers.  What can  *)
(* hold it up without end: InfluxDB and TimescaleDB, which have no limit;  *)
(* a SELECT of redis_connect; Discord's explanation of a refusal; and mail *)
(* for as long as every exchange is in time (redis.rs:68, 89, 127,         *)
(* discord.rs:87, 103, smtp.rs:134, influxdb.rs:58, timescaledb.rs:415).   *)
BlockedAtMost ==
  caller # 0 =>
    LET c == calls[caller]
    IN c.svc # "smtp" /\ c.stage \notin {"reading", "selecting"} =>
         \A t \in c.limit : blocked <= t
=============================================================================
