------------------------------- MODULE Engine -------------------------------
(***************************************************************************)
(* The control plane of the engine task (cycbox-engine/tasks/              *)
(* engine_task.rs): Start and Stop of sessions, the live Lua script, the   *)
(* repeating batches, and the state snapshots that callers broadcast.      *)
(*                                                                         *)
(* The engine task serves one command at a time, so a handler is one       *)
(* action, except Stop: it waits for the connection tasks, which end, or   *)
(* are aborted, meanwhile.  Callers reply-and-broadcast concurrently.      *)
(*                                                                         *)
(* A connection task is the pair <<session, index>>.  A Lua script is the  *)
(* number of its instance, 0 being the empty script.  A manifest is its    *)
(* number of connection configs and whether its Lua code compiles.         *)
(***************************************************************************)
EXTENDS Naturals, FiniteSets

CONSTANTS
  Callers,       \* clients holding an Engine handle
  MaxConns,      \* bound on the connection configs of a manifest
  MaxSessions,   \* bound on accepted Starts
  MaxScripts,    \* bound on Lua VMs built
  MaxBatches     \* bound on repeating batches

ASSUME EngineAssumption ==
  /\ MaxConns \in Nat /\ MaxSessions \in Nat
  /\ MaxScripts \in Nat /\ MaxBatches \in Nat

VARIABLES
  pc,         \* "loop", or "drain" while Stop waits for the connections
  running,    \* EngineState.running
  count,      \* EngineState.connection_count
  manifest,   \* EngineState.manifest
  enabled,    \* EngineState.lua_enabled
  session,    \* number of accepted Starts
  senders,    \* connection_senders: the tasks the engine routes to
  handlers,   \* connection_handlers: the tasks the engine can await
  live,       \* connection tasks that run
  cancelled,  \* sessions whose token is cancelled
  dying,      \* connection tasks aborted but not yet dropped
  nextBatch,  \* the batch_id counter
  batches,    \* keys of repeating_handlers
  repeating,  \* repeating tasks that run and were not told to stop
  script,     \* the live Lua script
  made,       \* Lua VMs built with user code so far
  stopped,    \* instances whose on_stop was called
  stale,      \* the last rebuild failed after on_stop: the old script stays
  reply,      \* per caller: the snapshot it has yet to broadcast
  shown       \* the snapshot broadcast last

session_vars == <<running, count, session, senders, handlers, live, cancelled, dying>>
batch_vars   == <<nextBatch, batches, repeating>>
script_vars  == <<enabled, script, made, stopped, stale>>
engine_vars  == <<pc, manifest, session_vars, batch_vars, script_vars>>
vars         == <<engine_vars, reply, shown>>

Manifests == [conns : 0 .. MaxConns, compiles : BOOLEAN]
Tasks     == (1 .. MaxSessions) \X (1 .. MaxConns)
Scripts   == 0 .. MaxScripts
Batches   == 1 .. MaxBatches
Snapshots == {"running", "stopped"}   \* what of the state is told apart
Replies   == Snapshots \cup {"none", "awaited"}

TypeOK ==
  /\ pc \in {"loop", "drain"}
  /\ running \in BOOLEAN
  /\ count \in 0 .. MaxConns
  /\ manifest \in Manifests
  /\ enabled \in BOOLEAN
  /\ session \in 0 .. MaxSessions
  /\ senders \subseteq Tasks /\ handlers \subseteq Tasks
  /\ live \subseteq Tasks /\ dying \subseteq Tasks
  /\ cancelled \subseteq 1 .. MaxSessions
  /\ nextBatch \in 1 .. (MaxBatches + 1)
  /\ batches \subseteq Batches /\ repeating \subseteq Batches
  /\ script \in Scripts /\ made \in Scripts
  /\ stopped \subseteq 1 .. MaxScripts
  /\ stale \in BOOLEAN
  /\ reply \in [Callers -> Replies]
  /\ shown \in Snapshots

Init ==
  /\ pc = "loop" /\ running = FALSE /\ count = 0 /\ session = 0
  /\ manifest \in Manifests
  /\ enabled = TRUE
  /\ senders = {} /\ handlers = {} /\ live = {} /\ cancelled = {} /\ dying = {}
  /\ nextBatch = 1 /\ batches = {} /\ repeating = {}
  /\ script = 0 /\ made = 0 /\ stopped = {} /\ stale = FALSE
  /\ reply = [c \in Callers |-> "none"] /\ shown = "stopped"
-----------------------------------------------------------------------------
(* The engine serves a command of a caller that is not busy with another. *)
Serves(c) == pc = "loop" /\ reply[c] = "none"

Snapshot(on) == IF on THEN "running" ELSE "stopped"

(* The oneshot reply with a snapshot, which the caller will broadcast. *)
Answer(c, on) == reply' = [reply EXCEPT ![c] = Snapshot(on)] /\ UNCHANGED shown

(* An error reply, or one that is not broadcast. *)
AnswerOnly == UNCHANGED <<reply, shown>>

OnStopOfSession ==          \* mutant: on_stop is called only while running
  stopped' = IF running THEN stopped \cup ({script} \ {0}) ELSE stopped

(* on_stop of the live script; the empty script has no hooks. *)
OnStop == stopped' = stopped \cup ({script} \ {0})

(* LuaScript::new and on_start.  The new script is the empty one if Lua is *)
(* disabled or the manifest has no code; it replaces the live one at once. *)
NewScript(flag) ==
  \/ flag /\ made < MaxScripts /\ made' = made + 1 /\ script' = made + 1
  \/ script' = 0 /\ UNCHANGED made

GetState(c) == Serves(c) /\ AnswerOnly /\ UNCHANGED engine_vars

SetManifest(c, m) ==
  /\ Serves(c)
  /\ manifest' = m
  /\ Answer(c, running)
  /\ UNCHANGED <<pc, session_vars, batch_vars, script_vars>>

(* The manifest is stored before running is looked at. *)
StartRejected(c, m) ==
  /\ Serves(c) /\ running
  /\ manifest' = m
  /\ AnswerOnly
  /\ UNCHANGED <<pc, session_vars, batch_vars, script_vars>>

SpawnOneMore(s, n) ==       \* mutant: a task for an index without a config
  {s} \X (0 .. n)

(* start_connection for every config of the manifest. *)
Spawned(s, n) == {s} \X (1 .. n)

(* Start of a new session with the given or the stored manifest m.  The    *)
(* handlers of an earlier session were taken by its Stop, so the defensive *)
(* drain here has nothing to wait for.  A script that does not compile is  *)
(* logged and the Start succeeds without it.                               *)
StartAccepted(c, m) ==
  /\ Serves(c) /\ ~running
  /\ session < MaxSessions /\ session' = session + 1
  /\ manifest' = m
  /\ running' = TRUE
  /\ handlers' = Spawned(session + 1, m.conns)
  /\ senders' = handlers'
  /\ live' = live \cup handlers'
  /\ count' = Cardinality(handlers')
  /\ \/ (enabled => m.compiles) /\ NewScript(enabled) /\ stale' = FALSE
     \/ enabled /\ ~m.compiles /\ UNCHANGED <<script, made, stale>>
  /\ Answer(c, TRUE)
  /\ UNCHANGED <<pc, cancelled, dying, batch_vars, enabled, stopped>>

Start(c) == \E m \in Manifests \cup {manifest} :
              StartRejected(c, m) \/ StartAccepted(c, m)
-----------------------------------------------------------------------------
ClearRegistryOnly ==        \* mutant: the batches are forgotten, not stopped
  batches' = {} /\ UNCHANGED <<repeating, nextBatch>>

(* Every repeating batch is told to stop, by its token and by abort(). *)
ClearBatches == batches' = {} /\ repeating' = {} /\ UNCHANGED nextBatch

StopKeepingScript(c) ==     \* mutant: the stopped script stays live
  /\ Serves(c)
  /\ OnStop /\ stale' = FALSE
  /\ running' = FALSE
  /\ ClearBatches
  /\ cancelled' = cancelled \cup {t[1] : t \in senders}
  /\ pc' = "drain"
  /\ reply' = [reply EXCEPT ![c] = "awaited"] /\ UNCHANGED shown
  /\ UNCHANGED <<script, manifest, enabled, made, count, session, senders,
                 handlers, live, dying>>

(* Stop, up to the await: on_stop first, while the connections are up,     *)
(* then the empty script, the batches, and the connections' token.  It is  *)
(* served whether or not the engine is running.                            *)
Stop(c) ==
  /\ Serves(c)
  /\ OnStop /\ script' = 0 /\ stale' = FALSE
  /\ running' = FALSE
  /\ ClearBatches
  /\ cancelled' = cancelled \cup {t[1] : t \in senders}
  /\ pc' = "drain"
  /\ reply' = [reply EXCEPT ![c] = "awaited"] /\ UNCHANGED shown
  /\ UNCHANGED <<manifest, enabled, made, count, session, senders, handlers,
                 live, dying>>

(* The reply to Stop, once the connections are gone. *)
AnswerStop ==
  /\ reply' = [c \in Callers |-> IF reply[c] = "awaited" THEN "stopped" ELSE reply[c]]
  /\ UNCHANGED shown

DrainForgets ==             \* mutant: the grace period ends without the aborts
  /\ pc = "drain"
  /\ UNCHANGED <<live, dying>>
  /\ pc' = "loop"
  /\ handlers' = {} /\ senders' = {} /\ count' = 0
  /\ AnswerStop
  /\ UNCHANGED <<manifest, running, session, cancelled, batch_vars, script_vars>>

FinishKeepingCount ==       \* mutant: connection_count is not reset
  /\ pc = "drain"
  /\ dying' = dying \cup (live \cap handlers)
  /\ live' = live \ handlers
  /\ pc' = "loop"
  /\ handlers' = {} /\ senders' = {} /\ UNCHANGED count
  /\ AnswerStop
  /\ UNCHANGED <<manifest, running, session, cancelled, batch_vars, script_vars>>

(* The drain is over: all awaited tasks ended, or the grace period did and *)
(* the rest is aborted.  abort() only marks a task, it does not wait.      *)
FinishStop ==
  /\ pc = "drain"
  /\ dying' = dying \cup (live \cap handlers)
  /\ live' = live \ handlers
  /\ pc' = "loop"
  /\ handlers' = {} /\ senders' = {} /\ count' = 0
  /\ AnswerStop
  /\ UNCHANGED <<manifest, running, session, cancelled, batch_vars, script_vars>>
-----------------------------------------------------------------------------
SendRepeatingAnytime(c) ==  \* mutant: the running check is missing
  /\ Serves(c)
  /\ nextBatch \in Batches
  /\ nextBatch' = nextBatch + 1
  /\ batches' = batches \cup {nextBatch}
  /\ repeating' = repeating \cup {nextBatch}
  /\ AnswerOnly
  /\ UNCHANGED <<pc, manifest, session_vars, script_vars>>

(* A batch is started under the next id, unless no session runs. *)
SendRepeating(c) ==
  /\ Serves(c)
  /\ \/ /\ running /\ nextBatch \in Batches
        /\ nextBatch' = nextBatch + 1
        /\ batches' = batches \cup {nextBatch}
        /\ repeating' = repeating \cup {nextBatch}
     \/ ~running /\ UNCHANGED batch_vars
  /\ AnswerOnly
  /\ UNCHANGED <<pc, manifest, session_vars, script_vars>>

(* stop_repeating_messages: all batches, or those of the ids that exist. *)
StopBatches(c, ids) ==
  /\ Serves(c)
  /\ IF ids = {} THEN ClearBatches
     ELSE /\ batches' = batches \ ids
          /\ repeating' = repeating \ (batches \cap ids)
          /\ UNCHANGED nextBatch
  /\ AnswerOnly
  /\ UNCHANGED <<pc, manifest, session_vars, script_vars>>

(* set_lua with a flag that may change and a reload that may be asked for. *)
(* The flag stays changed, and the old script stopped, if the new code     *)
(* does not compile.                                                       *)
SetLua(c, flag, compiles, reload) ==
  /\ Serves(c)
  /\ manifest' = [manifest EXCEPT !.compiles = compiles]
  /\ enabled' = flag
  /\ \/ /\ reload \/ (flag # enabled /\ running)
        /\ OnStop
        /\ \/ (flag => compiles) /\ NewScript(flag) /\ stale' = FALSE /\ Answer(c, running)
           \/ flag /\ ~compiles /\ stale' = TRUE /\ AnswerOnly /\ UNCHANGED <<script, made>>
     \/ /\ ~reload /\ (flag = enabled \/ ~running)
        /\ Answer(c, running)
        /\ UNCHANGED <<script, made, stopped, stale>>
  /\ UNCHANGED <<pc, session_vars, batch_vars>>

Serve(c) ==
  \/ GetState(c)
  \/ \E m \in Manifests : SetManifest(c, m)
  \/ Start(c)
  \/ Stop(c)
  \/ SendRepeating(c)
  \/ \E ids \in SUBSET Batches : StopBatches(c, ids)
  \/ \E flag, compiles, reload \in BOOLEAN : SetLua(c, flag, compiles, reload)
-----------------------------------------------------------------------------
(* A connection task ends: cancelled, or on a configuration error. *)
TaskEnds ==
  /\ \E t \in live : live' = live \ {t}
  /\ UNCHANGED <<pc, manifest, running, count, session, senders, handlers,
                 cancelled, dying, batch_vars, script_vars, reply, shown>>

(* The runtime drops an aborted task when it next yields. *)
TaskDropped ==
  /\ \E t \in dying : dying' = dying \ {t}
  /\ UNCHANGED <<pc, manifest, running, count, session, senders, handlers, live,
                 cancelled, batch_vars, script_vars, reply, shown>>

(* A repeating task without a high-resolution timer returns at once. *)
BatchEnds ==
  /\ \E b \in repeating : repeating' = repeating \ {b}
  /\ UNCHANGED <<pc, manifest, session_vars, nextBatch, batches, script_vars,
                 reply, shown>>

(* The caller received its reply and broadcasts the snapshot. *)
Broadcast(c) ==
  /\ reply[c] \in Snapshots
  /\ shown' = reply[c]
  /\ reply' = [reply EXCEPT ![c] = "none"]
  /\ UNCHANGED engine_vars

Next ==
  \/ \E c \in Callers : Serve(c) \/ Broadcast(c)
  \/ FinishStop \/ TaskEnds \/ TaskDropped \/ BatchEnds

Spec == Init /\ [][Next]_vars
-----------------------------------------------------------------------------
(* Connection tasks belong to the session: a task that runs is one the     *)
(* engine can route to and await, it is uncancelled only while its own     *)
(* session is running, only cancelled tasks are aborted, and once a Stop   *)
(* has been answered none runs.                                            *)
TasksBelongToSession ==
  /\ live \subseteq handlers
  /\ \A t \in dying : t[1] \in cancelled
  /\ \A t \in live : t[1] \notin cancelled => running /\ t[1] = session
  /\ pc = "loop" /\ ~running => senders = {} /\ live = {}

(* A batch that still sends can be stopped by its id, and batches exist    *)
(* only while the engine is running.                                       *)
NoOrphanBatch ==
  /\ repeating \subseteq batches
  /\ batches # {} => running

(* EngineState.connection_count is the number of connections of the        *)
(* running session, whatever is stored as the manifest since.              *)
CountIsOfSession ==
  pc = "loop" => /\ senders = handlers
                 /\ count = Cardinality(senders)
                 /\ \A t \in senders : t[1] = session

(* To the data plane the engine is the control plane of module Control, as *)
(* seen by the messages for connection 0: Stop silences scripts, batches   *)
(* and routing together, and none of them comes back without a Start or,   *)
(* for scripts, a set_lua.                                                 *)
Plane == INSTANCE Control WITH
  draining  <- pc = "drain",
  connected <- \E t \in senders : t[2] = 1,
  hooks     <- script # 0,
  ticking   <- repeating # {}

ControlSpec == Plane!Spec

(* A script whose on_stop was called receives further hooks only after a   *)
(* rebuild that failed; every other path replaces a stopped script.        *)
StoppedScriptIsReplaced == script \in stopped => stale

(* A live script is replaced only after its on_stop was called; the one    *)
(* exception is a Start that replaces a script which set_lua made live     *)
(* while no session ran (lua.rs:250 and MCP_CLAUDE.md:43 name none).       *)
OnStopFirst ==
  [][script # 0 /\ script' # script => script \in stopped' \/ (~running /\ running')]_vars

(* start and stop "broadcast the new state" (engine.rs:167, 188): with no  *)
(* call in flight the state shown last is the engine's.                    *)
BroadcastIsCurrent ==
  (\A c \in Callers : reply[c] = "none") => (shown = "running") = running
=============================================================================
