------------------------------ MODULE MCEngine ------------------------------
(***************************************************************************)
(* Model-checking instance of the engine task, of the CBRT components, of  *)
(* the services that Lua scripts use, and of the serial port.              *)
(* The specifications share no variable: Init chooses which of them runs,  *)
(* and the others keep their initial state.                                *)
(*                                                                         *)
(* Engine: two sessions, so that what one leaves behind meets the next,    *)
(* and two scripts and two batches.                                        *)
(*                                                                         *)
(* CbrtEncoder: one profile of every sample size, with each optional       *)
(* field, buffers that end before, behind and within the last row, packed  *)
(* rows of 3 and 5 bits, and one buffer too small for a header.            *)
(*                                                                         *)
(* CbrtSession: the ts field wraps two ticks after the start; frames of    *)
(* one and two samples; the device boots twice, as itself or as another.   *)
(***************************************************************************)
EXTENDS Engine, CbrtEncoder, CbrtSession, LuaServices, SqlInsert, SerialStream

P(dt, c, f, n) == [datatype |-> dt, channels |-> c, flags |-> f, cap |-> n]

MCProfiles ==
  {P("u8", 2, {}, 11), P("u16", 2, {"seq", "crc"}, 16), P("f16", 1, {"ts"}, 16),
   P("bool", 3, OptionalFields, 20), P("bool", 5, {"crc"}, 13),
   P("u64", 1, {"period", "crc"}, 20), P("i32", 1, {"ts", "crc"}, 13)}

MCSamples == [dt \in Datatypes |->
  CASE dt = "bool" -> {[c \in 1 .. 64 |-> TRUE], [c \in 1 .. 64 |-> c % 2 = 1]}
    [] dt = "f16"  -> {0, 1, 1023, 16385, 64512}
    [] OTHER       -> {1, 2}]

MCFlagSets == [codec |-> {{"ts", "seq"}, {"ts", "period"}, {}},
               transformer |-> {{"ts", "seq"}}]
MCFlight   == [codec |-> 1, transformer |-> 2]
MCSent     == [codec |-> 5, transformer |-> 3]
MCBoots    == [codec |-> 2, transformer |-> 2]

MCMixes    == {{"redis"}, {"tsdb"}, {"influx", "discord"}, {"http", "ntfy", "smtp"}}
MCMaxCalls == [m \in MCMixes |-> CASE m = {"redis"} -> 3 [] m = {"tsdb"} -> 4 [] OTHER -> 2]
MCLimit    == [redis |-> 1, redis_del |-> 2, connect |-> 1, tsdb_connect |-> 1,
               http |-> 1, ntfy |-> 1, smtp |-> 1]

MCIntBits == [INT2 |-> 2, INT4 |-> 3, INT8 |-> 4]
MCValues  == {<<"nil", 0>>, <<"text", "a">>, <<"bool", TRUE>>, <<"table", 0>>}
             \cup {<<"int", n>> : n \in {-4, -3, 1, 2, 3, 4}}
             \cup {<<"float", x>> : x \in {"nan", "inf", "big", "fine", "exact"}}
MCRows    == UNION {[1 .. n -> {<<"int", 0>>, <<"int", 1>>}] : n \in 1 .. 3}
MCInserts ==
  [single : BOOLEAN, types : {<<t>> : t \in Accepted \cup {"JSON"}}, rows : {<<<<v>>>> : v \in MCValues}]
  \cup [single : {FALSE}, types : {<<>>, <<"INT4">>, <<"INT4", "INT2">>},
        rows : UNION {[1 .. n -> MCRows] : n \in 0 .. 3}]
  \cup [single : {TRUE}, types : {<<>>, <<"INT4">>, <<"INT4", "INT2">>}, rows : {<<r>> : r \in MCRows}]

VARIABLE part

MCVars == <<part, vars, encVars, cbrtVars, servicesVars, sqlVars, serialVars>>

MCInit ==
  /\ part \in {"engine", "encoder", "session", "services", "insert", "serial"}
  /\ Init         /\ (part # "engine" => manifest = [conns |-> 0, compiles |-> FALSE])
  /\ EncInit      /\ (part # "encoder" => profile = P("u8", 2, {}, 11))
  /\ CbrtInit     /\ (part # "session" => host = "codec")
  /\ ServicesInit /\ (part # "services" => mix = {"redis"})
  /\ SqlInit      /\ (part # "insert" => insert = [single |-> FALSE, types |-> <<>>, rows |-> <<>>])
  /\ SerialInit   /\ (part # "serial" => os = "posix" /\ arrived = 0)

MCNext ==
  \/ part = "engine" /\ Next /\ UNCHANGED <<part, encVars, cbrtVars, servicesVars, sqlVars, serialVars>>
  \/ part = "encoder" /\ EncNext /\ UNCHANGED <<part, vars, cbrtVars, servicesVars, sqlVars, serialVars>>
  \/ part = "session" /\ CbrtNext /\ UNCHANGED <<part, vars, encVars, servicesVars, sqlVars, serialVars>>
  \/ part = "services" /\ ServicesNext /\ UNCHANGED <<part, vars, encVars, cbrtVars, sqlVars, serialVars>>
  \/ part = "insert" /\ RunInsert /\ UNCHANGED <<part, vars, encVars, cbrtVars, servicesVars, serialVars>>
  \/ part = "serial" /\ SerialNext /\ UNCHANGED <<part, vars, encVars, cbrtVars, servicesVars, sqlVars>>

MCSpec == MCInit /\ [][MCNext]_MCVars
=============================================================================
