----------------------------- MODULE SqlInsert -----------------------------
(***************************************************************************)
(* The statement that timescaledb_insert and timescaledb_insert_batch make *)
(* of a Lua table, and what the database stores of its parameters.         *)
(*                                                                         *)
(* A Lua value is a kind and a value; integers have small widths here, and *)
(* of floating point numbers only the class matters: "nan", "inf", "big"   *)
(* (beyond single precision), "fine" (not exact in single precision) and   *)
(* "exact".  A statement is executed as a whole or not at all.             *)
(***************************************************************************)
EXTENDS Integers, Sequences, SequencesExt

CONSTANTS
  MaxParams,   \* 65,535
  IntBits,     \* per integer type: its width, INT2 < INT4 < INT8
  Inserts      \* the calls: single or batch, column types, rows

(* A Lua value; a table stands for what is not a parameter. *)
LuaValues ==
  ({"nil", "table"} \X {0}) \cup ({"text"} \X STRING) \cup ({"int"} \X Int)
    \cup ({"bool"} \X BOOLEAN) \cup ({"float"} \X {"nan", "inf", "big", "fine", "exact"})

ASSUME SqlAssumption ==
  /\ MaxParams \in Nat /\ IntBits \in [{"INT2", "INT4", "INT8"} -> Nat]
  /\ Inserts \subseteq [single : BOOLEAN, types : Seq(STRING), rows : Seq(Seq(LuaValues))]
  /\ \A i \in Inserts : i.single => Len(i.rows) = 1

VARIABLES
  insert,      \* the call
  table        \* what it has stored, a refusal, or nothing yet

sqlVars == <<insert, table>>

TextTypes == {"TEXT", "VARCHAR", "CHAR", "BPCHAR", "NAME"}
Accepted  == TextTypes \cup {"BOOL", "INT2", "INT4", "INT8", "FLOAT4", "FLOAT8", "NUMERIC"}

InRange(n, type) == n \in -(2 ^ (IntBits[type] - 1)) .. 2 ^ (IntBits[type] - 1) - 1

Refusal   == [ok |-> FALSE]
Stored(v) == [ok |-> TRUE, value |-> v]
Garbled   == <<"garbled", 0>>    \* not the value that was given
-----------------------------------------------------------------------------
(* value_to_sql_param: anything else than these kinds is refused. *)
IsParam(v) == v[1] \in {"nil", "text", "int", "float", "bool"}

(* SqlParam::to_sql, and accepts: the value sent for a column of the type, *)
(* or a failure.  For NUMERIC the bytes of an integer or a double are sent *)
(* as they are, which is not how NUMERIC is encoded.                       *)
SingleOf(x) == IF x = "fine" THEN "exact" ELSE x

ToSql(v, type) ==
  CASE type \notin Accepted -> Refusal
    [] type \in Accepted /\ v[1] = "nil" -> Stored(v)
    [] v[1] = "text" /\ type \in TextTypes -> Stored(v)
    [] v[1] = "int" /\ type \in DOMAIN IntBits /\ InRange(v[2], type) -> Stored(v)
    [] v[1] = "float" /\ type = "FLOAT4" /\ v[2] # "big" -> Stored(<<"float", SingleOf(v[2])>>)
    [] v[1] = "float" /\ type = "FLOAT8" -> Stored(v)
    [] v[1] \in {"int", "float"} /\ type = "NUMERIC" -> Stored(Garbled)
    [] v[1] = "bool" /\ type = "BOOL" -> Stored(v)
    [] OTHER -> Refusal

(* build_single_insert. *)
Places(cols, r) == [c \in 1 .. cols |-> (r - 1) * cols + c]

BuildSingleInsert(cols, values) ==
  IF cols = 0 \/ Len(values) # cols \/ \E i \in DOMAIN values : ~IsParam(values[i])
  THEN Refusal
  ELSE [ok |-> TRUE, places |-> <<Places(cols, 1)>>, params |-> values]

(* build_batch_insert: the placeholders of all rows are numbered through.  *)
RowsUnchecked(cols, rows) ==        \* mutant: only the number of parameters is looked at
  IF cols = 0 \/ rows = <<>> \/ cols * Len(rows) > MaxParams
     \/ Len(FlattenSeq(rows)) # cols * Len(rows)
     \/ \E r \in DOMAIN rows : \E c \in DOMAIN rows[r] : ~IsParam(rows[r][c])
  THEN Refusal
  ELSE [ok |-> TRUE, places |-> [r \in DOMAIN rows |-> Places(cols, r)], params |-> FlattenSeq(rows)]

BuildBatchInsert(cols, rows) ==
  IF cols = 0 \/ rows = <<>> \/ cols * Len(rows) > MaxParams
     \/ \E r \in DOMAIN rows : Len(rows[r]) # cols \/ \E c \in DOMAIN rows[r] : ~IsParam(rows[r][c])
  THEN Refusal
  ELSE [ok |-> TRUE, places |-> [r \in DOMAIN rows |-> Places(cols, r)], params |-> FlattenSeq(rows)]

(* execute_sql, and the database: the placeholder in row r and column c is *)
(* replaced by its parameter, sent for the type of the column.             *)
ExecuteSql(stmt, types) ==
  IF Len(stmt.params) > MaxParams THEN Refusal
  ELSE LET Cell(r, c) == ToSql(stmt.params[stmt.places[r][c]], types[c])
       IN IF \E r \in DOMAIN stmt.places : \E c \in DOMAIN types : ~Cell(r, c).ok
          THEN Refusal
          ELSE [ok |-> TRUE, rows |-> [r \in DOMAIN stmt.places |->
                                         [c \in DOMAIN types |-> Cell(r, c).value]]]

SqlInit == insert \in Inserts /\ table = {}

RunInsert ==
  /\ table = {}
  /\ LET stmt == IF insert.single THEN BuildSingleInsert(Len(insert.types), insert.rows[1])
                 ELSE BuildBatchInsert(Len(insert.types), insert.rows)
     IN table' = {IF stmt.ok THEN ExecuteSql(stmt, insert.types) ELSE Refusal}
  /\ UNCHANGED insert

SqlSpec == SqlInit /\ [][RunInsert]_sqlVars
-----------------------------------------------------------------------------
(* An insert stores the rows it was given, each value in its own row and   *)
(* column, or nothing: never a part of a batch, never a shifted row, never *)
(* an integer cut to its column's width.  A double loses precision in a    *)
(* FLOAT4 column, and a NUMERIC column does not get the number at all      *)
(* (timescaledb.rs:38-127, 306-394).                                       *)
Same(given, stored, type) ==
  \/ stored = given
  \/ type = "FLOAT4" /\ given = <<"float", "fine">> /\ stored = <<"float", "exact">>
  \/ type = "NUMERIC" /\ stored = Garbled

RowsStored ==
  \A t \in table : t.ok =>
    /\ Len(t.rows) = Len(insert.rows)
    /\ \A r \in DOMAIN t.rows :
         /\ Len(insert.rows[r]) = Len(insert.types)
         /\ \A c \in DOMAIN insert.types : Same(insert.rows[r][c], t.rows[r][c], insert.types[c])
=============================================================================
