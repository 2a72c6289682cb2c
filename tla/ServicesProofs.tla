--------------------------- MODULE ServicesProofs ---------------------------
(***************************************************************************)
(* Theorems about the functions by which a script uses outside services,   *)
(* for every mix of services, every limit and any number of calls,         *)
(* connections and pools.                                                  *)
(*                                                                         *)
(* The inductive invariant ServicesInv has five parts: the calls and their *)
(* stages (CallsInv), the requests under way and in which order they went  *)
(* (WireInv), those that took effect (AppliedInv), the caller's time       *)
(* (Punctual), and the connections and pools (PoolsInv).  Each is shown to *)
(* be kept by what a step can do to its part of the state: Evolve and      *)
(* NewCalls, WireStep, NobodyJoins, and Opens, Closes or Forgets.          *)
(*                                                                         *)
(* The last part is about inserts: the numbers that a statement gives its  *)
(* parameters are their places in the flattened rows (JoinedRows).         *)
(***************************************************************************)
EXTENDS LuaServices, SqlInsert, SequenceLemmas

LEMMA AppendedElements ==
  ASSUME NEW S, NEW s \in Seq(S), NEW e
  PROVE  ToSet(Append(s, e)) = ToSet(s) \cup {e}
<1>1. /\ Len(s) \in Nat /\ DOMAIN s = 1 .. Len(s)
      /\ DOMAIN Append(s, e) = 1 .. Len(s) + 1
      /\ \A i \in 1 .. Len(s) : Append(s, e)[i] = s[i]
      /\ Append(s, e)[Len(s) + 1] = e
  OBVIOUS
<1> QED BY <1>1 DEF ToSet

LEMMA RemovedAt ==
  ASSUME NEW S, NEW s \in Seq(S), NEW k \in 1 .. Len(s)
  PROVE  /\ RemoveAt(s, k) \in Seq(S) /\ Len(RemoveAt(s, k)) = Len(s) - 1
         /\ \A p \in 1 .. Len(s) - 1 : RemoveAt(s, k)[p] = IF p < k THEN s[p] ELSE s[p + 1]
<1> DEFINE a == SubSeq(s, 1, k - 1)
           b == SubSeq(s, k + 1, Len(s))
<1>1. Len(s) \in Nat /\ k \in Nat /\ 1 <= k /\ k <= Len(s)
  OBVIOUS
<1>2. a \in Seq(S) /\ Len(a) = k - 1 /\ \A p \in 1 .. k - 1 : a[p] = s[p]
  BY <1>1
<1>3. b \in Seq(S) /\ Len(b) = Len(s) - k /\ \A p \in 1 .. Len(s) - k : b[p] = s[k + p]
  BY <1>1
<1>4. a \o b \in Seq(S) /\ Len(a \o b) = Len(s) - 1
  <2>1. a \o b \in Seq(S) /\ Len(a \o b) = Len(a) + Len(b)
    BY <1>2, <1>3, ConcatProperties, Zenon
  <2> HIDE DEF a, b
  <2> QED BY <1>1, <1>2, <1>3, <2>1
<1>5. ASSUME NEW p \in 1 .. Len(s) - 1 PROVE (a \o b)[p] = IF p < k THEN s[p] ELSE s[p + 1]
  <2> HIDE DEF a, b
  <2>1. CASE p < k
    <3>1. p \in 1 .. Len(a)
      BY <1>1, <1>2, <2>1
    <3>2. (a \o b)[p] = a[p]
      BY <1>2, <1>3, <3>1
    <3> QED BY <1>2, <2>1, <3>1, <3>2
  <2>2. CASE ~(p < k)
    <3>1. p - (k - 1) \in 1 .. Len(s) - k /\ p \in 1 .. Len(a) + Len(b)
      BY <1>1, <1>2, <1>3, <2>2
    <3>2. (a \o b)[p] = b[p - (k - 1)]
      BY <1>1, <1>2, <1>3, <2>2, <3>1
    <3>3. b[p - (k - 1)] = s[p + 1]
      BY <1>1, <1>3, <3>1
    <3> QED BY <2>2, <3>2, <3>3
  <2> QED BY <2>1, <2>2
<1> QED BY <1>4, <1>5 DEF RemoveAt

(* What is left of a sequence is elements of it, and fewer. *)
LEMMA RemovedFirst ==
  ASSUME NEW S, NEW s \in Seq(S), NEW e
  PROVE  \/ e \notin ToSet(s) /\ RemoveFirst(s, e) = s
         \/ \E k \in 1 .. Len(s) : s[k] = e /\ RemoveFirst(s, e) = RemoveAt(s, k)
<1>1. Len(s) \in Nat /\ DOMAIN s = 1 .. Len(s)
  OBVIOUS
<1>2. CASE \E i \in 1 .. Len(s) : s[i] = e
  <2> DEFINE I == {i \in 1 .. Len(s) : s[i] = e}
             k == CHOOSE n \in I : \A m \in I : n <= m
  <2>1. I # {} /\ I \subseteq Nat
    BY <1>1, <1>2
  <2>2. k \in I
    <3>1. \E n \in I : \A m \in I : n <= m
      <4> HIDE DEF I
      <4> QED BY <2>1, LeastNumber, Zenon
    <3> QED BY <3>1
  <2>3. RemoveFirst(s, e) = RemoveAt(s, k)
    BY <1>2, <2>1 DEF RemoveFirst, SelectInSeq, Min
  <2> QED BY <2>2, <2>3
<1>3. CASE ~\E i \in 1 .. Len(s) : s[i] = e
  BY <1>1, <1>3 DEF RemoveFirst, ToSet
<1> QED BY <1>2, <1>3

LEMMA RemainingElements ==
  ASSUME NEW S, NEW s \in Seq(S), NEW k \in 1 .. Len(s)
  PROVE  ToSet(RemoveAt(s, k)) \subseteq ToSet(s)
<1>1. /\ Len(s) \in Nat /\ DOMAIN s = 1 .. Len(s)
      /\ DOMAIN RemoveAt(s, k) = 1 .. Len(s) - 1
      /\ \A p \in 1 .. Len(s) - 1 : RemoveAt(s, k)[p] = IF p < k THEN s[p] ELSE s[p + 1]
  BY RemovedAt
<1>2. ASSUME NEW p \in 1 .. Len(s) - 1 PROVE RemoveAt(s, k)[p] \in ToSet(s)
  <2>1. p \in 1 .. Len(s) /\ p + 1 \in 1 .. Len(s)
    BY <1>1
  <2> QED BY <1>1, <2>1 DEF ToSet
<1> QED BY <1>1, <1>2 DEF ToSet

LEMMA Shorter ==
  ASSUME NEW S, NEW s \in Seq(S), NEW e
  PROVE  /\ RemoveFirst(s, e) \in Seq(S) /\ Len(RemoveFirst(s, e)) <= Len(s)
         /\ ToSet(RemoveFirst(s, e)) \subseteq ToSet(s)
<1>1. CASE RemoveFirst(s, e) = s
  BY <1>1
<1>2. ASSUME NEW k \in 1 .. Len(s), RemoveFirst(s, e) = RemoveAt(s, k)
      PROVE  /\ RemoveFirst(s, e) \in Seq(S) /\ Len(RemoveFirst(s, e)) <= Len(s)
             /\ ToSet(RemoveFirst(s, e)) \subseteq ToSet(s)
  <2>1. Len(s) \in Nat
    OBVIOUS
  <2> QED BY <1>2, <2>1, RemovedAt, RemainingElements
<1> QED BY <1>1, <1>2, RemovedFirst
-----------------------------------------------------------------------------
Stages == {"spawned", "waiting", "sent", "reading", "connecting", "selecting", "ended"}

Times    == {{}} \cup {{t} : t \in Nat}     \* no limit, or one
Services == Kept \cup {"influx", "http", "discord", "ntfy", "smtp"}
Refusals == {"error", "raised", "false"}
Results  == {"none", "ok", "status", "error", "timed out"}

CallRecords ==
  [svc : Services, mode : {"sync", "async"}, on : SUBSET Nat, left : Times,
   limit : Times, stage : Stages, refusal : Refusals, result : Results]

(* What happens to one call: it moves on, and the other calls stay. *)
Moves(i, stage, result, left) ==
  /\ calls' \in Seq(CallRecords) /\ Len(calls') = Len(calls) /\ Calls' = Calls
  /\ \A j \in Calls \ {i} : calls'[j] = calls[j]
  /\ calls'[i].svc = calls[i].svc /\ calls'[i].mode = calls[i].mode
  /\ calls'[i].on = calls[i].on /\ calls'[i].limit = calls[i].limit
  /\ calls'[i].stage = stage /\ calls'[i].result = result /\ calls'[i].left = left

LEMMA Moving ==
  ASSUME calls \in Seq(CallRecords), NEW i \in Calls, NEW stage \in Stages,
         NEW result \in Results, NEW left \in Times,
         \/ calls' = [calls EXCEPT ![i].stage = stage, ![i].result = result, ![i].left = left]
         \/ /\ calls' = [calls EXCEPT ![i].stage = stage, ![i].left = left]
            /\ result = calls[i].result
         \/ /\ calls' = [calls EXCEPT ![i].stage = stage]
            /\ result = calls[i].result /\ left = calls[i].left
         \/ /\ calls' = [calls EXCEPT ![i].left = left]
            /\ result = calls[i].result /\ stage = calls[i].stage
  PROVE  Moves(i, stage, result, left)
<1> DEFINE c == [calls[i] EXCEPT !.stage = stage, !.result = result, !.left = left]
<1>1. Len(calls) \in Nat /\ Calls = 1 .. Len(calls) /\ i \in 1 .. Len(calls)
  BY DEF Calls
<1>2. calls[i] \in CallRecords
  BY <1>1, ElementOfSeq
<1>3. c \in CallRecords /\ c.svc = calls[i].svc /\ c.mode = calls[i].mode /\ c.on = calls[i].on
      /\ c.limit = calls[i].limit /\ c.stage = stage /\ c.result = result /\ c.left = left
  BY <1>2 DEF CallRecords
<1>4. calls' = [calls EXCEPT ![i] = c]
  <2> USE <1>2 DEF CallRecords
  <2>1. CASE calls' = [calls EXCEPT ![i].stage = stage, ![i].result = result, ![i].left = left]
    BY <2>1
  <2>2. CASE /\ calls' = [calls EXCEPT ![i].stage = stage, ![i].left = left]
             /\ result = calls[i].result
    <3>1. [calls[i] EXCEPT !.stage = stage, !.left = left] = c
      BY <2>2
    <3> QED BY <2>2, <3>1
  <2>3. CASE /\ calls' = [calls EXCEPT ![i].stage = stage]
             /\ result = calls[i].result /\ left = calls[i].left
    <3>1. [calls[i] EXCEPT !.stage = stage] = c
      BY <2>3
    <3> QED BY <2>3, <3>1
  <2>4. CASE /\ calls' = [calls EXCEPT ![i].left = left]
             /\ result = calls[i].result /\ stage = calls[i].stage
    <3>1. [calls[i] EXCEPT !.left = left] = c
      BY <2>4
    <3> QED BY <2>4, <3>1
  <2> QED BY <2>1, <2>2, <2>3, <2>4
<1> HIDE DEF c
<1>5. calls' \in Seq(CallRecords) /\ Len(calls') = Len(calls)
  BY <1>1, <1>3, <1>4, ExceptSeq
<1>6. Calls' = Calls /\ calls'[i] = c /\ \A j \in Calls \ {i} : calls'[j] = calls[j]
  BY <1>1, <1>4 DEF Calls
<1> QED BY <1>3, <1>5, <1>6 DEF Moves
LEMMA Entering ==
  ASSUME calls \in Seq(CallRecords), NEW c \in CallRecords, calls' = Append(calls, c)
  PROVE  /\ calls' \in Seq(CallRecords) /\ Len(calls) \in Nat /\ Len(calls') = Len(calls) + 1
         /\ Calls = 1 .. Len(calls) /\ Calls' = Calls \cup {Len(calls) + 1}
         /\ Len(calls) + 1 \notin Calls
         /\ calls'[Len(calls) + 1] = c /\ \A j \in Calls : calls'[j] = calls[j]
<1>1. /\ Len(calls) \in Nat /\ Calls = 1 .. Len(calls)
      /\ Append(calls, c) \in Seq(CallRecords) /\ Len(Append(calls, c)) = Len(calls) + 1
      /\ DOMAIN Append(calls, c) = 1 .. Len(calls) + 1
      /\ Append(calls, c)[Len(calls) + 1] = c
      /\ \A j \in 1 .. Len(calls) : Append(calls, c)[j] = calls[j]
  BY DEF Calls
<1>2. 1 .. Len(calls) + 1 = (1 .. Len(calls)) \cup {Len(calls) + 1}
  BY <1>1
<1> QED BY <1>1, <1>2 DEF Calls
-----------------------------------------------------------------------------
(* The calls and their stages.                                             *)
ServicesTypeOK ==
  /\ calls \in Seq(CallRecords) /\ opened \in 0 .. MaxOpened
  /\ registry \in [Kept -> SUBSET Nat]
  /\ closed \subseteq Nat /\ disconnected \subseteq Nat
  /\ queue \in [1 .. MaxOpened -> Seq(Nat)]
  /\ wire \in Seq(Nat) /\ applied \in Seq(Nat) /\ blocked \in Nat

(* The engine waits for the newest call only, and no synchronous call goes *)
(* on unless the engine waits for it.                                      *)
OneCaller ==
  /\ caller \in {0, Len(calls)} /\ caller \in Calls \cup {0}
  /\ \A i \in Calls : calls[i].mode = "sync" /\ calls[i].stage # "ended" => caller = i
  /\ caller # 0 => calls[caller].mode = "sync" /\ calls[caller].stage \notin {"ended", "spawned"}

OnItsWay(i) == i \in ToSet(wire) \cup ToSet(applied)

(* What the stage of a call says about its connection and its request. *)
Stood(i) ==
  /\ calls[i].stage \in {"connecting", "selecting"} =>
       calls[i].svc \in Kept /\ calls[i].mode = "sync" /\ i \notin Requests
  /\ i \notin Requests => calls[i].stage \in {"connecting", "selecting", "ended"}
  /\ OnItsWay(i) => calls[i].stage \in {"sent", "reading", "ended"}
  /\ calls[i].result = "ok" => calls[i].stage = "ended" /\ (i \in Requests => i \in ToSet(applied))

CallsInv ==
  /\ ServicesTypeOK /\ OneCaller
  /\ \A i : OnItsWay(i) => i \in Requests
  /\ \A i \in Calls : Stood(i)

(* A step leaves what a call is as it was: its service, its connection,    *)
(* its time limit; and what has ended has ended, at most for the worse.    *)
Evolve ==
  \A i \in Calls :
    /\ i \in Calls' /\ calls'[i].svc = calls[i].svc /\ calls'[i].mode = calls[i].mode
    /\ calls'[i].on = calls[i].on /\ calls'[i].limit = calls[i].limit
    /\ calls[i].stage = "ended" =>
         calls'[i].stage = "ended" /\ calls'[i].result \in {calls[i].result, "error"}

(* A new call uses the connection that the registry has. *)
NewCalls ==
  \A i \in Calls' \ Calls :
    \/ calls'[i].on = {}
    \/ calls'[i].svc \in Kept /\ calls'[i].on = registry[calls'[i].svc]

(* The time that the engine has waited and the time that the caller's call *)
(* has left are its limit; mail and calls without a limit are left out.    *)
InTime(c) == \A t \in c.limit : \E l \in c.left : blocked + l <= t

Punctual ==
  /\ caller = 0 => blocked = 0
  /\ /\ caller # 0 /\ calls[caller].svc # "smtp"
     /\ calls[caller].stage \notin {"reading", "selecting"}
     => InTime(calls[caller])

GoodStep == CallsInv' /\ Evolve /\ NewCalls /\ (Punctual => Punctual')

LEMMA TypedCall ==
  ASSUME CallsInv, NEW i \in Calls
  PROVE  /\ calls[i] \in CallRecords /\ calls[i].svc \in Services /\ calls[i].mode \in {"sync", "async"}
         /\ calls[i].on \in SUBSET Nat /\ calls[i].left \in Times /\ calls[i].limit \in Times
         /\ calls[i].stage \in Stages /\ calls[i].result \in Results
         /\ Calls = 1 .. Len(calls) /\ Len(calls) \in Nat /\ i \in Nat /\ i # 0
<1>1. calls \in Seq(CallRecords) /\ Calls = 1 .. Len(calls) /\ Len(calls) \in Nat
  BY DEF CallsInv, ServicesTypeOK, Calls
<1>2. calls[i] \in CallRecords
  BY <1>1, ElementOfSeq
<1> QED BY <1>1, <1>2 DEF CallRecords

LEMMA MoveKeeps ==
  ASSUME CallsInv, ServicesTypeOK', NEW i \in Calls, NEW stage, NEW result, NEW left,
         Moves(i, stage, result, left), calls[i].stage # "ended", stage # "spawned",
         caller' = IF stage = "ended" /\ caller = i THEN 0 ELSE caller,
         stage \in {"connecting", "selecting"} =>
           i \notin Requests /\ calls[i].svc \in Kept /\ calls[i].mode = "sync",
         i \notin Requests => stage \in {"connecting", "selecting", "ended"},
         \A j : OnItsWay(j)' => OnItsWay(j) \/ (j = i /\ i \in Requests),
         OnItsWay(i)' => stage \in {"sent", "reading", "ended"},
         ToSet(applied) \subseteq ToSet(applied'),
         result = "ok" => stage = "ended" /\ (i \in Requests => i \in ToSet(applied')),
         blocked' = IF stage = "ended" /\ caller = i THEN 0 ELSE blocked,
         \/ stage \in {"ended", "reading", "selecting"} \/ calls[i].svc = "smtp"
         \/ left = calls[i].left /\ calls[i].stage \notin {"reading", "selecting"}
  PROVE  GoodStep
<1>1. /\ Calls' = Calls /\ Len(calls') = Len(calls)
      /\ \A j \in Calls \ {i} : calls'[j] = calls[j]
      /\ calls'[i].svc = calls[i].svc /\ calls'[i].mode = calls[i].mode /\ calls'[i].on = calls[i].on
      /\ calls'[i].stage = stage /\ calls'[i].result = result
  BY DEF Moves
<1>2. Requests' = Requests
  BY <1>1 DEF Requests, Kept
<1>3. Len(calls) \in Nat /\ Calls = 1 .. Len(calls) /\ i # 0
  BY DEF CallsInv, ServicesTypeOK, Calls
<1>4. OneCaller'
  <2>1. caller \in {0, Len(calls)} /\ caller \in Calls \cup {0}
    BY DEF CallsInv, OneCaller
  <2>2. ASSUME NEW j \in Calls, calls'[j].mode = "sync", calls'[j].stage # "ended" PROVE caller' = j
    <3>1. calls[j].mode = "sync" /\ calls[j].stage # "ended"
      BY <1>1, <2>2
    <3>2. caller = j
      BY <3>1 DEF CallsInv, OneCaller
    <3> QED BY <1>1, <2>2, <3>2
  <2>3. ASSUME caller' # 0 PROVE calls'[caller'].mode = "sync" /\ calls'[caller'].stage \notin {"ended", "spawned"}
    <3>1. caller' = caller /\ caller # 0 /\ (caller = i => stage # "ended")
      BY <2>3, <1>3
    <3>2. caller \in Calls /\ calls[caller].mode = "sync" /\ calls[caller].stage \notin {"ended", "spawned"}
      BY <3>1 DEF CallsInv, OneCaller
    <3> QED BY <1>1, <3>1, <3>2
  <2> QED BY <1>1, <2>1, <2>2, <2>3 DEF OneCaller
<1>5. \A j : OnItsWay(j)' => j \in Requests'
  BY <1>2 DEF CallsInv
<1>6. ASSUME NEW j \in Calls PROVE Stood(j)'
  <2>1. CASE j = i
    BY <1>1, <1>2, <2>1 DEF Stood
  <2>2. CASE j # i
    <3>1. calls'[j] = calls[j] /\ (OnItsWay(j)' => OnItsWay(j)) /\ Stood(j)
      BY <1>1, <2>2 DEF CallsInv
    <3> QED BY <1>2, <3>1 DEF Stood
  <2> QED BY <2>1, <2>2
<1>7. Evolve
  BY <1>1 DEF Evolve, Moves
<1>8. NewCalls
  BY <1>1 DEF NewCalls
<1>9. ASSUME Punctual PROVE Punctual'
  <2>1. caller \in Calls \cup {0}
    BY DEF CallsInv, OneCaller
  <2>2. CASE caller = 0
    BY <1>3, <1>9, <2>2 DEF Punctual
  <2>3. CASE caller = i
    <3>1. CASE stage = "ended"
      BY <2>3, <3>1 DEF Punctual
    <3>2. CASE stage \in {"reading", "selecting"} \/ calls[i].svc = "smtp"
      BY <1>1, <1>3, <2>3, <3>2 DEF Punctual
    <3>3. CASE /\ left = calls[i].left /\ calls[i].stage \notin {"reading", "selecting"}
               /\ calls[i].svc # "smtp" /\ stage # "ended"
      <4>1. InTime(calls[i])
        BY <1>3, <1>9, <2>3, <3>3 DEF Punctual
      <4>2. calls'[i].limit = calls[i].limit /\ calls'[i].left = calls[i].left /\ blocked' = blocked
        BY <3>3 DEF Moves
      <4> QED BY <1>3, <2>3, <3>3, <4>1, <4>2 DEF Punctual, InTime
    <3> QED BY <3>1, <3>2, <3>3
  <2>4. CASE caller \in Calls \ {i}
    <3>1. calls'[caller] = calls[caller] /\ caller' = caller /\ blocked' = blocked /\ caller # 0
      BY <1>1, <1>3, <2>4
    <3> QED BY <1>9, <3>1 DEF Punctual, InTime
  <2> QED BY <2>1, <2>2, <2>3, <2>4
<1> QED BY <1>1, <1>4, <1>5, <1>6, <1>7, <1>8, <1>9 DEF CallsInv, GoodStep

LEMMA StayKeeps ==
  ASSUME CallsInv, ServicesTypeOK', UNCHANGED <<calls, caller, blocked>>,
         \A j : OnItsWay(j)' => OnItsWay(j), ToSet(applied) \subseteq ToSet(applied')
  PROVE  GoodStep
<1>1. Calls' = Calls /\ Requests' = Requests
  BY DEF Calls, Requests
<1>2. OneCaller'
  BY <1>1 DEF CallsInv, OneCaller
<1>3. ASSUME NEW j \in Calls PROVE Stood(j)'
  <2>1. Stood(j) /\ (OnItsWay(j)' => OnItsWay(j))
    BY DEF CallsInv
  <2> QED BY <1>1, <2>1 DEF Stood
<1>4. Evolve
  BY <1>1 DEF Evolve
<1>5. NewCalls /\ (Punctual => Punctual')
  BY <1>1 DEF NewCalls, Punctual, InTime
<1> QED BY <1>1, <1>2, <1>3, <1>4, <1>5 DEF CallsInv, GoodStep

LEMMA EnterKeeps ==
  ASSUME CallsInv, ServicesTypeOK', NEW c \in CallRecords, calls' = Append(calls, c), caller = 0,
         caller' = IF c.mode = "sync" THEN Len(calls) + 1 ELSE 0,
         c.mode = "sync" => c.stage # "spawned",
         c.stage # "ended", c.result = "none",
         IF c.stage \in {"connecting", "selecting"} THEN c.svc \in Kept /\ c.on = {} /\ c.mode = "sync"
                                                    ELSE c.svc \in Kept => c.on # {},
         c.on = {} \/ (c.svc \in Kept /\ c.on = registry[c.svc]),
         UNCHANGED <<applied, blocked>>, c.left = c.limit,
         \/ UNCHANGED wire
         \/ c.stage = "sent" /\ ToSet(wire') = ToSet(wire) \cup {Len(calls) + 1}
  PROVE  GoodStep
<1> DEFINE n == Len(calls) + 1
<1>1. /\ n \in Nat /\ n # 0 /\ n \notin Calls /\ Calls' = Calls \cup {n} /\ Len(calls') = n
      /\ calls'[n] = c /\ \A j \in Calls : calls'[j] = calls[j]
  BY Entering DEF CallsInv, ServicesTypeOK
<1> HIDE DEF n
<1>2. /\ \A j \in Calls : j \in Requests' <=> j \in Requests
      /\ n \in Requests' <=> (c.svc \in Kept => c.on # {})
  BY <1>1 DEF Requests, Kept
<1>3. \A j : OnItsWay(j) => j \in Requests
  BY DEF CallsInv
<1>4. /\ \A j : OnItsWay(j)' => OnItsWay(j) \/ (j = n /\ c.stage = "sent")
      /\ \A j : OnItsWay(j) => j \in Calls
  BY <1>3 DEF OnItsWay, n, Requests
<1>5. OneCaller'
  <2>1. ASSUME NEW j \in Calls', calls'[j].mode = "sync", calls'[j].stage # "ended" PROVE caller' = j
    <3>1. CASE j = n
      BY <1>1, <2>1, <3>1 DEF n
    <3>2. CASE j \in Calls
      <4>1. calls[j].mode = "sync" /\ calls[j].stage # "ended"
        BY <1>1, <2>1, <3>2
      <4>2. caller = j
        BY <3>2, <4>1 DEF CallsInv, OneCaller
      <4>3. j # 0
        BY <3>2 DEF Calls, CallsInv, ServicesTypeOK
      <4> QED BY <4>2, <4>3
    <3> QED BY <1>1, <3>1, <3>2
  <2>2. caller' \in {0, Len(calls')} /\ caller' \in Calls' \cup {0}
    BY <1>1 DEF n
  <2>3. caller' # 0 => calls'[caller'].mode = "sync" /\ calls'[caller'].stage \notin {"ended", "spawned"}
    BY <1>1 DEF n
  <2> QED BY <2>1, <2>2, <2>3 DEF OneCaller
<1>6. \A j : OnItsWay(j)' => j \in Requests'
  <2>1. c.stage = "sent" => n \in Requests'
    BY <1>2
  <2> QED BY <1>2, <1>3, <1>4, <2>1
<1>7. ASSUME NEW j \in Calls' PROVE Stood(j)'
  <2>1. CASE j = n
    <3>1. c.result # "ok"
      OBVIOUS
    <3>2. OnItsWay(j)' => c.stage = "sent"
      BY <1>1, <1>4, <2>1
    <3>3. calls'[j] = c /\ (j \in Requests' <=> (c.svc \in Kept => c.on # {}))
      BY <1>1, <1>2, <2>1
    <3> QED BY <3>1, <3>2, <3>3 DEF Stood
  <2>2. CASE j \in Calls
    <3>1. calls'[j] = calls[j] /\ (OnItsWay(j)' => OnItsWay(j)) /\ Stood(j)
      BY <1>1, <1>4, <2>2 DEF CallsInv
    <3> QED BY <1>2, <2>2, <3>1 DEF Stood
  <2> QED BY <1>1, <2>1, <2>2
<1>8. Evolve
  BY <1>1 DEF Evolve
<1>9. NewCalls
  BY <1>1 DEF NewCalls
<1>10. ASSUME Punctual PROVE Punctual'
  <2>1. blocked' = 0
    BY <1>10 DEF Punctual
  <2>2. ASSUME NEW t \in c.limit PROVE \E l \in c.left : 0 + l <= t
    <3>1. t \in Nat
      BY DEF CallRecords, Times
    <3> QED BY <3>1
  <2>3. caller' # 0 => calls'[caller'] = c
    BY <1>1 DEF n
  <2> QED BY <2>1, <2>2, <2>3 DEF Punctual, InTime
<1> QED BY <1>5, <1>6, <1>7, <1>8, <1>9, <1>10 DEF CallsInv, GoodStep
-----------------------------------------------------------------------------
(* All functions but connecting and disconnecting do the same, with        *)
(* another service, mode and time limit.                                   *)
FunctionOf(svc, flaw) ==
  \E mode \in {"sync", "async"}, limit \in Times, refusal \in Refusals :
    \E checks : Function(svc, mode, checks, flaw, limit, refusal)

LEMMA EveryFunction ==
  ASSUME NEW flaw
  PROVE  /\ RedisFunctions(flaw) => FunctionOf("redis", flaw)
         /\ TsdbFunctions(flaw) => FunctionOf("tsdb", flaw)
         /\ InfluxFunctions(flaw) => FunctionOf("influx", flaw)
         /\ Notifications(flaw) => \E svc \in {"http", "discord", "ntfy", "smtp"} : FunctionOf(svc, flaw)
<1>1. /\ Forever \in Times
      /\ {Limit["redis"]} \in Times /\ {Limit["redis_del"]} \in Times
      /\ {Limit["http"]} \in Times /\ {Limit["ntfy"]} \in Times
      /\ {Limit["smtp"]} \in Times
      /\ "false" \in Refusals /\ "error" \in Refusals /\ "raised" \in Refusals
  BY ServicesAssumption DEF Forever, Refusals, Times
<1>2. ASSUME NEW svc, NEW mode \in {"sync", "async"}, NEW limit \in Times, NEW refusal \in Refusals,
             NEW checks, Function(svc, mode, checks, flaw, limit, refusal)
      PROVE  FunctionOf(svc, flaw)
  BY <1>2 DEF FunctionOf
<1>3. RedisFunctions(flaw) => FunctionOf("redis", flaw)
  BY <1>1, <1>2 DEF RedisFunctions, RedisGet, RedisSet, RedisExists, RedisDel, RedisSetAsync,
    RedisDelAsync, Sync, Async
<1>4. TsdbFunctions(flaw) => FunctionOf("tsdb", flaw)
  BY <1>1, <1>2 DEF TsdbFunctions, TsdbExecute, TsdbInsert, TsdbInsertBatch, TsdbExecuteAsync,
    TsdbInsertAsync, TsdbInsertBatchAsync, Sync, Async
<1>5. InfluxFunctions(flaw) => FunctionOf("influx", flaw)
  BY <1>1, <1>2 DEF InfluxFunctions, InfluxdbWriteV2, InfluxdbBatchWriteV2, InfluxdbWriteV3,
    InfluxdbBatchWriteV3, InfluxdbWriteV2Async, InfluxdbBatchWriteV2Async, InfluxdbWriteV3Async,
    InfluxdbBatchWriteV3Async, Sync, Async
<1>6. Notifications(flaw) => \E svc \in {"http", "discord", "ntfy", "smtp"} : FunctionOf(svc, flaw)
  BY <1>1, <1>2 DEF Notifications, HttpPost, DiscordSend, DiscordSendAsync, NtfySend, NtfySendAsync,
    SmtpSend, SmtpSendAsync, Sync, Async
<1> QED BY <1>3, <1>4, <1>5, <1>6
-----------------------------------------------------------------------------
(* Every step keeps CallsInv. *)
LEMMA QueuesJoined ==
  ASSUME queue \in [1 .. MaxOpened -> Seq(Nat)], NEW i \in Nat, NEW On,
         queue' = [o \in DOMAIN queue |-> IF o \in On THEN Append(queue[o], i) ELSE queue[o]]
  PROVE  queue' \in [1 .. MaxOpened -> Seq(Nat)]
<1>1. ASSUME NEW o \in 1 .. MaxOpened
      PROVE (IF o \in On THEN Append(queue[o], i) ELSE queue[o]) \in Seq(Nat)
  <2>1. queue[o] \in Seq(Nat)
    OBVIOUS
  <2>2. Append(queue[o], i) \in Seq(Nat)
    BY <2>1, AppendProperties
  <2> QED BY <2>1, <2>2
<1>2. DOMAIN queue = 1 .. MaxOpened
  OBVIOUS
<1> QED BY <1>1, <1>2

LEMMA QueuesLeft ==
  ASSUME queue \in [1 .. MaxOpened -> Seq(Nat)], NEW i,
         queue' = [o \in DOMAIN queue |-> RemoveFirst(queue[o], i)]
  PROVE  queue' \in [1 .. MaxOpened -> Seq(Nat)]
<1>1. ASSUME NEW o \in 1 .. MaxOpened PROVE RemoveFirst(queue[o], i) \in Seq(Nat)
  BY Shorter
<1>2. DOMAIN queue = 1 .. MaxOpened
  OBVIOUS
<1> QED BY <1>1, <1>2

LEMMA IdleKeepsCalls ==
  ASSUME CallsInv,
         UNCHANGED <<calls, caller, opened, registry, closed, disconnected, queue, wire, applied, blocked>>
  PROVE  GoodStep
<1>1. ServicesTypeOK'
  BY DEF CallsInv, ServicesTypeOK, Calls
<1>2. \A j : OnItsWay(j)' => OnItsWay(j)
  BY DEF OnItsWay
<1> QED BY <1>1, <1>2, StayKeeps

LEMMA EnterKeepsCalls ==
  ASSUME CallsInv, NEW svc \in Services, NEW mode \in {"sync", "async"}, NEW limit \in Times,
         NEW refusal \in Refusals, Enter(svc, mode, limit, refusal), caller = 0,
         svc \in Kept => registry[svc] # {}
  PROVE  GoodStep
<1> DEFINE n == Len(calls) + 1
           on == IF svc \in Kept THEN registry[svc] ELSE {}
           stage == IF mode = "async" THEN "spawned" ELSE IF svc \in Kept THEN "waiting" ELSE "sent"
           c == [svc |-> svc, mode |-> mode, on |-> on, left |-> limit, limit |-> limit,
                 stage |-> stage, refusal |-> refusal, result |-> "none"]
           On == IF stage = "waiting" THEN on ELSE {}
<1>1. /\ calls' = Append(calls, c)
      /\ queue' = [o \in DOMAIN queue |->
                     IF stage = "waiting" /\ o \in on THEN Append(queue[o], n) ELSE queue[o]]
      /\ wire' = IF stage = "sent" THEN Append(wire, n) ELSE wire
      /\ caller' = IF mode = "sync" THEN n ELSE 0
      /\ UNCHANGED <<registry, opened, closed, disconnected, applied, blocked>>
  BY DEF Enter
<1>2. on \in SUBSET Nat /\ stage \in Stages
  BY DEF CallsInv, ServicesTypeOK, Stages, Kept
<1>3. c \in CallRecords
  BY <1>2 DEF CallRecords, Results
<1>4. n \in Nat
  BY DEF CallsInv, ServicesTypeOK
<1>5. queue' \in [1 .. MaxOpened -> Seq(Nat)]
  <2>1. queue' = [o \in DOMAIN queue |-> IF o \in On THEN Append(queue[o], n) ELSE queue[o]]
    <3> HIDE DEF on, n, stage
    <3> QED BY <1>1
  <2>2. queue \in [1 .. MaxOpened -> Seq(Nat)]
    BY DEF CallsInv, ServicesTypeOK
  <2> HIDE DEF On, n
  <2> QED BY <1>4, <2>1, <2>2, QueuesJoined
<1>6. /\ wire' \in Seq(Nat)
      /\ \/ UNCHANGED wire
         \/ stage = "sent" /\ ToSet(wire') = ToSet(wire) \cup {n}
  <2>1. wire \in Seq(Nat)
    BY DEF CallsInv, ServicesTypeOK
  <2>2. Append(wire, n) \in Seq(Nat) /\ ToSet(Append(wire, n)) = ToSet(wire) \cup {n}
    <3> HIDE DEF n
    <3> QED BY <1>4, <2>1, AppendProperties, AppendedElements
  <2> HIDE DEF n, stage
  <2> QED BY <1>1, <2>1, <2>2
<1>7. ServicesTypeOK'
  <2>1. calls' \in Seq(CallRecords)
    <3> HIDE DEF c
    <3> QED BY <1>1, <1>3, AppendProperties DEF CallsInv, ServicesTypeOK
  <2> HIDE DEF c, n, on, stage
  <2> QED BY <1>1, <1>5, <1>6, <2>1 DEF CallsInv, ServicesTypeOK
<1>8. /\ c.svc = svc /\ c.mode = mode /\ c.on = on /\ c.stage = stage /\ c.result = "none"
      /\ c.stage \notin {"connecting", "selecting", "ended"}
      /\ (c.mode = "sync" => c.stage # "spawned") /\ (svc \in Kept => on # {})
      /\ c.left = c.limit /\ (c.on = {} \/ (c.svc \in Kept /\ c.on = registry[c.svc]))
  BY DEF Kept
<1> HIDE DEF c, n, on, stage
<1>9. /\ caller' = IF c.mode = "sync" THEN Len(calls) + 1 ELSE 0
      /\ \/ UNCHANGED wire
         \/ c.stage = "sent" /\ ToSet(wire') = ToSet(wire) \cup {Len(calls) + 1}
      /\ IF c.stage \in {"connecting", "selecting"} THEN c.svc \in Kept /\ c.on = {} /\ c.mode = "sync"
                                                    ELSE c.svc \in Kept => c.on # {}
  BY <1>1, <1>6, <1>8 DEF n
<1> QED BY <1>1, <1>3, <1>7, <1>8, <1>9, EnterKeeps

LEMMA FunctionKeepsCalls ==
  ASSUME CallsInv, NEW svc \in Services, NEW flaw, FunctionOf(svc, flaw)
  PROVE  GoodStep
<1>1. PICK mode \in {"sync", "async"}, limit \in Times, refusal \in Refusals :
        \E checks : Function(svc, mode, checks, flaw, limit, refusal)
  BY DEF FunctionOf
<1>2. PICK checks : Function(svc, mode, checks, flaw, limit, refusal)
  BY <1>1
<1>3. CASE Answered(refusal)
  BY <1>3, IdleKeepsCalls DEF Answered
<1>4. CASE Enter(svc, mode, limit, refusal) /\ ~Refused(svc, checks, flaw)
  <2>1. caller = 0 /\ (svc \in Kept => registry[svc] # {})
    BY <1>2, <1>4 DEF Function, Refused
  <2> QED BY <1>4, <2>1, EnterKeepsCalls
<1> QED BY <1>2, <1>3, <1>4 DEF Function

LEMMA ConnectingKeepsCalls ==
  ASSUME CallsInv, NEW svc \in Kept, NEW limit \in Times, NEW flaw, Connecting(svc, limit, flaw)
  PROVE  GoodStep
<1>1. CASE Answered("error")
  BY <1>1, IdleKeepsCalls DEF Answered
<1>2. CASE ~(flaw \in {"url", "pool_size"})
  <2> DEFINE c == [svc |-> svc, mode |-> "sync", on |-> {}, left |-> limit, limit |-> limit,
                   stage |-> "connecting", refusal |-> "error", result |-> "none"]
  <2>1. /\ calls' = Append(calls, c) /\ caller = 0 /\ caller' = Len(calls) + 1
        /\ UNCHANGED <<registry, opened, closed, disconnected, queue, wire, applied, blocked>>
    BY <1>2 DEF Connecting
  <2>2. c \in CallRecords
    BY DEF CallRecords, Stages, Services, Refusals, Results
  <2>3. c.svc \in Kept /\ c.mode = "sync" /\ c.on = {} /\ c.stage = "connecting" /\ c.result = "none"
        /\ c.left = c.limit
    OBVIOUS
  <2> HIDE DEF c
  <2>4. ServicesTypeOK'
    BY <2>1, <2>2, AppendProperties DEF CallsInv, ServicesTypeOK
  <2> QED BY <2>1, <2>2, <2>3, <2>4, EnterKeeps
<1> QED BY <1>1, <1>2 DEF Connecting

LEMMA EndKeepsCalls ==
  ASSUME CallsInv, NEW i \in Calls, NEW result \in Results, End(i, result),
         calls[i].stage # "ended", wire' \in Seq(Nat), ToSet(wire') \subseteq ToSet(wire),
         result = "ok" => i \in ToSet(applied)
  PROVE  GoodStep
<1>1. /\ calls' = [calls EXCEPT ![i].stage = "ended", ![i].result = result, ![i].left = Forever]
      /\ queue' = [o \in DOMAIN queue |-> RemoveFirst(queue[o], i)]
      /\ caller' = IF caller = i THEN 0 ELSE caller
      /\ blocked' = IF caller = i THEN 0 ELSE blocked
      /\ UNCHANGED <<registry, opened, closed, disconnected, applied>>
  BY DEF End
<1>2. Moves(i, "ended", result, {})
  BY <1>1, Moving DEF CallsInv, ServicesTypeOK, Stages, Forever, Times
<1>3. ServicesTypeOK'
  BY <1>1, <1>2, QueuesLeft DEF CallsInv, ServicesTypeOK, Moves
<1>4. \A j : OnItsWay(j)' => OnItsWay(j)
  BY <1>1 DEF OnItsWay
<1> QED BY <1>1, <1>2, <1>3, <1>4, MoveKeeps

LEMMA SelectingKeepsCalls ==
  ASSUME CallsInv, NEW i \in Calls, Selecting(i)
  PROVE  GoodStep
<1>1. Moves(i, "selecting", calls[i].result, Forever)
  <2>1. calls[i].result \in Results
    BY TypedCall
  <2>2. calls' = [calls EXCEPT ![i].stage = "selecting", ![i].left = Forever]
    BY DEF Selecting
  <2>3. "selecting" \in Stages /\ Forever \in Times /\ calls \in Seq(CallRecords)
    BY DEF Stages, Forever, Times, CallsInv, ServicesTypeOK
  <2> QED BY <2>1, <2>2, <2>3, Moving
<1>2. ServicesTypeOK'
  BY <1>1 DEF Selecting, CallsInv, ServicesTypeOK, Moves
<1>3. /\ \A j : OnItsWay(j)' => OnItsWay(j)
      /\ UNCHANGED <<caller, applied, blocked>> /\ calls[i].stage = "connecting"
  BY DEF Selecting, OnItsWay
<1>4. Stood(i)
  BY DEF CallsInv
<1> QED BY <1>1, <1>2, <1>3, <1>4, MoveKeeps DEF Stood

LEMMA ConnectedKeepsCalls ==
  ASSUME CallsInv, NEW i \in Calls, Connected(i)
  PROVE  GoodStep
<1>1. Moves(i, "ended", "ok", {})
  BY Moving DEF Connected, Stages, Results, Forever, Times, CallsInv, ServicesTypeOK
<1>2. Stood(i) /\ calls[i].stage \in {"connecting", "selecting"}
  BY DEF CallsInv, Connected
<1>3. calls[i].svc \in Kept /\ i \notin Requests
  BY <1>2 DEF Stood
<1>4. opened \in Nat /\ opened + 1 \in 0 .. MaxOpened
  BY ServicesAssumption DEF CallsInv, ServicesTypeOK, Connected
<1>5. ServicesTypeOK'
  <2>1. registry' \in [Kept -> SUBSET Nat]
    BY <1>3, <1>4 DEF CallsInv, ServicesTypeOK, Connected
  <2> QED BY <1>1, <1>4, <2>1 DEF Connected, CallsInv, ServicesTypeOK, Moves
<1>6. /\ \A j : OnItsWay(j)' => OnItsWay(j)
      /\ UNCHANGED applied /\ caller' = 0 /\ blocked' = 0
  BY DEF Connected, OnItsWay
<1>7. caller = i
  BY <1>2 DEF Stood, CallsInv, OneCaller
<1> QED BY <1>1, <1>2, <1>3, <1>5, <1>6, <1>7, MoveKeeps

LEMMA TsdbDisconnectKeepsCalls ==
  ASSUME CallsInv, TsdbDisconnect
  PROVE  GoodStep
<1>1. CASE registry["tsdb"] = {}
  BY <1>1, IdleKeepsCalls DEF TsdbDisconnect, Answered
<1>2. CASE registry["tsdb"] # {}
  <2> DEFINE on == CHOOSE o \in registry["tsdb"] : TRUE
  <2>1. /\ registry' = [registry EXCEPT !["tsdb"] = {}]
        /\ closed' = closed \cup {on} /\ disconnected' = disconnected \cup {on}
        /\ calls' = [i \in Calls |-> IF i \in Unserved(on)
                       THEN [calls[i] EXCEPT !.stage = "ended", !.result = "error"]
                       ELSE calls[i]]
        /\ queue' = [queue EXCEPT ![on] = SubSeq(@, 1, InUse(on))]
        /\ caller = 0 /\ UNCHANGED <<caller, opened, wire, applied, blocked>>
    BY <1>2 DEF TsdbDisconnect
  <2>2. on \in registry["tsdb"] /\ registry["tsdb"] \subseteq Nat
    BY <1>2 DEF CallsInv, ServicesTypeOK, Kept
  <2> HIDE DEF on
  <2>3. ASSUME NEW i \in Calls
        PROVE  /\ calls'[i] \in CallRecords /\ calls'[i].svc = calls[i].svc
               /\ calls'[i].mode = calls[i].mode /\ calls'[i].on = calls[i].on
               /\ calls'[i].limit = calls[i].limit
               /\ \/ calls'[i] = calls[i]
                  \/ calls'[i].stage = "ended" /\ calls'[i].result = "error"
    <3>1. calls[i] \in CallRecords
      BY TypedCall
    <3> DEFINE c == [calls[i] EXCEPT !.stage = "ended", !.result = "error"]
    <3>2. c \in CallRecords /\ c.svc = calls[i].svc /\ c.mode = calls[i].mode /\ c.on = calls[i].on
          /\ c.limit = calls[i].limit /\ c.stage = "ended" /\ c.result = "error"
      BY <3>1 DEF CallRecords, Stages, Results
    <3>3. calls'[i] = c \/ calls'[i] = calls[i]
      BY <2>1
    <3> HIDE DEF c
    <3> QED BY <3>1, <3>2, <3>3
  <2>4. Calls' = Calls /\ Calls = 1 .. Len(calls) /\ Len(calls) \in Nat
    <3>1. DOMAIN calls' = Calls
      BY <2>1
    <3>2. Calls = 1 .. Len(calls) /\ Len(calls) \in Nat
      BY DEF Calls, CallsInv, ServicesTypeOK
    <3>3. Calls' = DOMAIN calls'
      BY DEF Calls
    <3> QED BY <3>1, <3>2, <3>3
  <2>5. calls' \in Seq(CallRecords) /\ Len(calls') = Len(calls)
    <3>1. calls' \in [1 .. Len(calls) -> CallRecords]
      BY <2>1, <2>3, <2>4
    <3> QED BY <2>4, <3>1
  <2>6. queue' \in [1 .. MaxOpened -> Seq(Nat)]
    <3>1. queue \in [1 .. MaxOpened -> Seq(Nat)]
      BY DEF CallsInv, ServicesTypeOK
    <3>2. ASSUME on \in 1 .. MaxOpened PROVE SubSeq(queue[on], 1, InUse(on)) \in Seq(Nat)
      <4>1. queue[on] \in Seq(Nat) /\ Len(queue[on]) \in Nat
        BY <3>1, <3>2
      <4>2. InUse(on) \in Nat /\ InUse(on) <= Len(queue[on])
        BY <4>1, ServicesAssumption DEF InUse
      <4> QED BY <4>1, <4>2
    <3> QED BY <2>1, <3>1, <3>2
  <2>7. ServicesTypeOK'
    BY <2>1, <2>2, <2>5, <2>6 DEF CallsInv, ServicesTypeOK, Kept
  <2>8. Requests' = Requests /\ \A j : OnItsWay(j)' => OnItsWay(j)
    BY <2>1, <2>3, <2>4 DEF Requests, OnItsWay
  <2>9. OneCaller'
    <3>1. ASSUME NEW i \in Calls, calls'[i].mode = "sync", calls'[i].stage # "ended" PROVE FALSE
      <4>1. calls[i].mode = "sync" /\ calls[i].stage # "ended" /\ i # 0
        BY <2>3, <2>4, <3>1
      <4> QED BY <2>1, <4>1 DEF CallsInv, OneCaller
    <3> QED BY <2>1, <2>4, <3>1 DEF OneCaller
  <2>10. ASSUME NEW i \in Calls PROVE Stood(i)'
    <3>1. Stood(i)
      BY DEF CallsInv
    <3> QED BY <2>1, <2>3, <2>8, <3>1 DEF Stood
  <2>11. Evolve
    BY <2>3, <2>4 DEF Evolve
  <2>12. NewCalls /\ (Punctual => Punctual')
    BY <2>1, <2>4 DEF NewCalls, Punctual
  <2> QED BY <2>4, <2>7, <2>8, <2>9, <2>10, <2>11, <2>12 DEF CallsInv, GoodStep
<1> QED BY <1>1, <1>2

LEMMA ForgetKeepsCalls ==
  ASSUME CallsInv, RedisDisconnect \/ ReplaceScript
  PROVE  GoodStep
<1>1. CASE Answered("error")
  BY <1>1, IdleKeepsCalls DEF Answered
<1>2. CASE /\ registry' \in [Kept -> SUBSET Nat]
           /\ UNCHANGED <<calls, caller, opened, closed, disconnected, queue, wire, applied, blocked>>
  <2>1. ServicesTypeOK' /\ \A j : OnItsWay(j)' => OnItsWay(j)
    BY <1>2 DEF CallsInv, ServicesTypeOK, OnItsWay
  <2> QED BY <1>2, <2>1, StayKeeps
<1>3. registry \in [Kept -> SUBSET Nat]
  BY DEF CallsInv, ServicesTypeOK
<1>4. CASE RedisDisconnect
  <2>1. [registry EXCEPT !["redis"] = {}] \in [Kept -> SUBSET Nat]
    BY <1>3 DEF Kept
  <2> QED BY <1>1, <1>2, <1>4, <2>1 DEF RedisDisconnect
<1>5. CASE ReplaceScript
  <2>1. [redis |-> {}, tsdb |-> {}] \in [Kept -> SUBSET Nat]
    BY DEF Kept
  <2> QED BY <1>2, <1>5, <2>1 DEF ReplaceScript
<1> QED BY <1>4, <1>5

LEMMA StartTaskKeepsCalls ==
  ASSUME CallsInv, NEW i \in Calls, StartTask(i)
  PROVE  GoodStep
<1>1. calls[i].stage = "spawned" /\ Stood(i) /\ i \in Requests
  BY DEF StartTask, CallsInv, Stood
<1>2. CASE End(i, "error") /\ UNCHANGED wire
  <2>1. "error" \in Results /\ wire \in Seq(Nat)
    BY DEF Results, CallsInv, ServicesTypeOK
  <2> QED BY <1>1, <1>2, <2>1, EndKeepsCalls
<1>3. CASE ~(calls[i].svc = "tsdb" /\ calls[i].on \subseteq closed)
  <2> DEFINE kept == calls[i].svc \in Kept
             stage == IF kept THEN "waiting" ELSE "sent"
             On == IF kept THEN calls[i].on ELSE {}
  <2>1. /\ calls' = [calls EXCEPT ![i].stage = stage]
        /\ queue' = [o \in DOMAIN queue |->
                       IF kept /\ o \in calls[i].on THEN Append(queue[o], i) ELSE queue[o]]
        /\ wire' = IF kept THEN wire ELSE Append(wire, i)
        /\ UNCHANGED <<caller, registry, opened, closed, disconnected, applied, blocked>>
    BY <1>3 DEF StartTask
  <2>2. calls[i].result \in Results /\ calls[i].left \in Times /\ i \in Nat
    BY TypedCall
  <2>3. stage \in Stages /\ stage \in {"waiting", "sent"} /\ calls \in Seq(CallRecords)
    BY DEF Stages, CallsInv, ServicesTypeOK
  <2>4. queue' = [o \in DOMAIN queue |-> IF o \in On THEN Append(queue[o], i) ELSE queue[o]]
    BY <2>1
  <2>5. queue' \in [1 .. MaxOpened -> Seq(Nat)]
    <3> HIDE DEF On
    <3> QED BY <2>2, <2>4, QueuesJoined DEF CallsInv, ServicesTypeOK
  <2>6. ~kept => stage = "sent"
    OBVIOUS
  <2> HIDE DEF kept, On, stage
  <2>7. Moves(i, stage, calls[i].result, calls[i].left)
    BY <2>1, <2>2, <2>3, Moving
  <2>8. Append(wire, i) \in Seq(Nat) /\ ToSet(Append(wire, i)) = ToSet(wire) \cup {i}
    BY <2>2, AppendProperties, AppendedElements DEF CallsInv, ServicesTypeOK
  <2>9. ServicesTypeOK'
    BY <2>1, <2>5, <2>7, <2>8 DEF CallsInv, ServicesTypeOK, Moves
  <2>10. /\ \A j : OnItsWay(j)' => OnItsWay(j) \/ (j = i /\ stage = "sent")
         /\ OnItsWay(i) => calls[i].stage # "spawned"
    BY <1>1, <2>1, <2>6, <2>8 DEF OnItsWay, Stood
  <2>11. calls[i].result # "ok"
    BY <1>1 DEF Stood
  <2> QED BY <1>1, <2>1, <2>3, <2>7, <2>9, <2>10, <2>11, MoveKeeps
<1> QED BY <1>2, <1>3 DEF StartTask

LEMMA SendRequestKeepsCalls ==
  ASSUME CallsInv, NEW i \in Calls, SendRequest(i)
  PROVE  GoodStep
<1>1. calls[i].stage = "waiting" /\ Stood(i) /\ i \in Requests
  BY DEF SendRequest, CallsInv, Stood
<1>2. calls[i].result \in Results /\ calls[i].left \in Times /\ i \in Nat
  BY TypedCall
<1>3. "sent" \in Stages /\ calls \in Seq(CallRecords)
  BY DEF Stages, CallsInv, ServicesTypeOK
<1>4. /\ calls' = [calls EXCEPT ![i].stage = "sent"] /\ wire' = Append(wire, i)
      /\ UNCHANGED <<caller, outcome, registry, opened, closed, disconnected, queue, applied, blocked>>
  BY DEF SendRequest
<1>5. Moves(i, "sent", calls[i].result, calls[i].left)
  BY <1>2, <1>3, <1>4, Moving
<1>6. Append(wire, i) \in Seq(Nat) /\ ToSet(Append(wire, i)) = ToSet(wire) \cup {i}
  BY <1>2, AppendProperties, AppendedElements DEF CallsInv, ServicesTypeOK
<1>7. ServicesTypeOK'
  BY <1>4, <1>5, <1>6 DEF CallsInv, ServicesTypeOK, Moves
<1>8. \A j : OnItsWay(j)' => OnItsWay(j) \/ j = i
  BY <1>4, <1>6 DEF OnItsWay
<1>9. calls[i].result # "ok"
  BY <1>1 DEF Stood
<1> QED BY <1>1, <1>4, <1>5, <1>7, <1>8, <1>9, MoveKeeps

LEMMA DeclineKeepsCalls ==
  ASSUME CallsInv, NEW i \in Calls, Decline(i)
  PROVE  GoodStep
<1>1. calls[i].stage = "sent" /\ Stood(i) /\ i \in Requests
  BY DEF Decline, CallsInv, Stood
<1>2. wire' = RemoveFirst(wire, i) /\ wire \in Seq(Nat)
  BY DEF Decline, CallsInv, ServicesTypeOK
<1>3. wire' \in Seq(Nat) /\ ToSet(wire') \subseteq ToSet(wire)
  BY <1>2, Shorter
<1>4. CASE calls[i].svc = "discord"
  <2>1. /\ calls' = [calls EXCEPT ![i].stage = "reading", ![i].left = Forever]
        /\ UNCHANGED <<caller, outcome, registry, opened, closed, disconnected, queue, applied, blocked>>
    BY <1>4 DEF Decline
  <2>2. calls[i].result \in Results /\ "reading" \in Stages /\ Forever \in Times
        /\ calls \in Seq(CallRecords)
    BY TypedCall DEF Stages, Forever, Times, CallsInv, ServicesTypeOK
  <2>3. Moves(i, "reading", calls[i].result, Forever)
    BY <2>1, <2>2, Moving
  <2>4. ServicesTypeOK'
    BY <1>3, <2>1, <2>3 DEF CallsInv, ServicesTypeOK, Moves
  <2>5. (\A j : OnItsWay(j)' => OnItsWay(j)) /\ calls[i].result # "ok"
    BY <1>1, <1>3, <2>1 DEF OnItsWay, Stood
  <2> QED BY <1>1, <2>1, <2>3, <2>4, <2>5, MoveKeeps
<1>5. CASE calls[i].svc # "discord"
  <2> DEFINE result == IF calls[i].svc = "influx" THEN "status" ELSE "error"
  <2>1. End(i, result) /\ result \in Results /\ result # "ok"
    BY <1>5 DEF Decline, Results
  <2> HIDE DEF result
  <2> QED BY <1>1, <1>3, <2>1, EndKeepsCalls
<1> QED BY <1>4, <1>5

LEMMA MailExchangeKeepsCalls ==
  ASSUME CallsInv, NEW i \in Calls, MailExchange(i)
  PROVE  GoodStep
<1>1. calls[i].stage = "sent" /\ Stood(i) /\ i \in Requests
  BY DEF MailExchange, CallsInv, Stood
<1>2. calls[i].result \in Results /\ "sent" \in Stages /\ {Limit["smtp"]} \in Times
      /\ calls \in Seq(CallRecords)
  <2>1. {Limit["smtp"]} \in Times
    BY ServicesAssumption DEF Times
  <2> QED BY <2>1, TypedCall DEF Stages, CallsInv, ServicesTypeOK
<1>3. /\ calls' = [calls EXCEPT ![i].left = {Limit["smtp"]}]
      /\ UNCHANGED <<caller, registry, opened, closed, disconnected, queue, wire, applied, blocked>>
  BY DEF MailExchange
<1>0. calls[i].svc = "smtp"
  BY DEF MailExchange
<1>4. Moves(i, "sent", calls[i].result, {Limit["smtp"]})
  BY <1>1, <1>2, <1>3, Moving
<1>5. ServicesTypeOK'
  BY <1>3, <1>4 DEF CallsInv, ServicesTypeOK, Moves
<1>6. (\A j : OnItsWay(j)' => OnItsWay(j)) /\ calls[i].result # "ok"
  BY <1>1, <1>3 DEF OnItsWay, Stood
<1> QED BY <1>0, <1>1, <1>3, <1>4, <1>5, <1>6, MoveKeeps

LEMMA EndingsKeepCalls ==
  ASSUME CallsInv, NEW i \in Calls, AnswerCall(i) \/ CallFails(i) \/ TimeOut(i)
  PROVE  GoodStep
<1>1. wire \in Seq(Nat) /\ {"ok", "error", "timed out"} \subseteq Results
  BY DEF CallsInv, ServicesTypeOK, Results
<1>2. UNCHANGED wire /\ calls[i].stage # "ended"
  BY DEF AnswerCall, CallFails, TimeOut
<1>3. \/ End(i, "ok") /\ i \in ToSet(applied)
      \/ End(i, "error")
      \/ End(i, "timed out")
  BY DEF AnswerCall, CallFails, TimeOut
<1> QED BY <1>1, <1>2, <1>3, EndKeepsCalls

LEMMA WireKeepsCalls ==
  ASSUME CallsInv, NEW i \in Calls, Execute(i) \/ LoseRequest(i)
  PROVE  GoodStep
<1>1. PICK k \in DOMAIN wire : wire[k] = i /\ wire' = RemoveAt(wire, k)
  BY DEF Execute, LoseRequest
<1>2. wire \in Seq(Nat) /\ applied \in Seq(Nat) /\ i \in Nat /\ k \in 1 .. Len(wire)
  BY TypedCall DEF CallsInv, ServicesTypeOK
<1>3. wire' \in Seq(Nat) /\ ToSet(wire') \subseteq ToSet(wire) /\ i \in ToSet(wire)
  <2>1. wire' \in Seq(Nat) /\ ToSet(wire') \subseteq ToSet(wire)
    BY <1>1, <1>2, RemovedAt, RemainingElements
  <2>2. i \in ToSet(wire)
    BY <1>1 DEF ToSet
  <2> QED BY <2>1, <2>2
<1>4. /\ UNCHANGED <<calls, caller, registry, opened, closed, disconnected, queue, blocked>>
      /\ UNCHANGED applied \/ applied' = Append(applied, i)
  BY DEF Execute, LoseRequest
<1>5. /\ applied' \in Seq(Nat) /\ ToSet(applied) \subseteq ToSet(applied')
      /\ ToSet(applied') \subseteq ToSet(applied) \cup {i}
  <2>1. Append(applied, i) \in Seq(Nat) /\ ToSet(Append(applied, i)) = ToSet(applied) \cup {i}
    BY <1>2, AppendProperties, AppendedElements
  <2> QED BY <1>2, <1>4, <2>1
<1>6. ServicesTypeOK' /\ \A j : OnItsWay(j)' => OnItsWay(j)
  BY <1>3, <1>4, <1>5 DEF CallsInv, ServicesTypeOK, OnItsWay
<1> QED BY <1>4, <1>5, <1>6, StayKeeps

LEMMA ServiceTickKeepsCalls ==
  ASSUME CallsInv, ServiceTick
  PROVE  GoodStep
<1>1. /\ calls' = [i \in Calls |-> IF i \in Started
                     THEN [calls[i] EXCEPT !.left = {t - 1 : t \in calls[i].left}]
                     ELSE calls[i]]
      /\ \A i \in Started : calls[i].left # {0}
      /\ blocked' = IF caller # 0 /\ blocked < MaxBlocked THEN blocked + 1 ELSE blocked
      /\ UNCHANGED <<caller, registry, opened, closed, disconnected, queue, wire, applied>>
  BY DEF ServiceTick
<1>2. ASSUME NEW i \in Calls
      PROVE  /\ calls'[i] \in CallRecords /\ calls'[i].svc = calls[i].svc
             /\ calls'[i].mode = calls[i].mode /\ calls'[i].on = calls[i].on
             /\ calls'[i].limit = calls[i].limit
             /\ calls'[i].stage = calls[i].stage /\ calls'[i].result = calls[i].result
  <2>1. calls[i] \in CallRecords
    BY TypedCall
  <2>2. CASE i \in Started
    <3> DEFINE left == {t - 1 : t \in calls[i].left}
               c    == [calls[i] EXCEPT !.left = left]
    <3>1. calls'[i] = c
      BY <1>1, <2>2
    <3>2. left \in Times
      <4>1. calls[i].left \in Times /\ calls[i].left # {0}
        BY <1>1, <2>2, TypedCall
      <4>2. CASE calls[i].left = {}
        BY <4>2 DEF Times
      <4>3. ASSUME NEW t \in Nat, calls[i].left = {t} PROVE left \in Times
        <5>1. t - 1 \in Nat /\ left = {t - 1}
          BY <4>1, <4>3
        <5> QED BY <5>1 DEF Times
      <4> QED BY <4>1, <4>2, <4>3 DEF Times
    <3> HIDE DEF left
    <3>3. /\ c \in CallRecords /\ c.svc = calls[i].svc /\ c.mode = calls[i].mode /\ c.on = calls[i].on
          /\ c.limit = calls[i].limit /\ c.stage = calls[i].stage /\ c.result = calls[i].result
      BY <2>1, <3>2 DEF CallRecords
    <3> HIDE DEF c
    <3> QED BY <3>1, <3>3
  <2>3. CASE i \notin Started
    BY <1>1, <2>1, <2>3
  <2> QED BY <2>2, <2>3
<1>3. Calls' = Calls /\ Calls = 1 .. Len(calls) /\ Len(calls) \in Nat
  <2>1. DOMAIN calls' = Calls
    BY <1>1
  <2>2. Calls = 1 .. Len(calls) /\ Len(calls) \in Nat
    BY DEF Calls, CallsInv, ServicesTypeOK
  <2>3. Calls' = DOMAIN calls'
    BY DEF Calls
  <2> QED BY <2>1, <2>2, <2>3
<1>4. calls' \in Seq(CallRecords) /\ Len(calls') = Len(calls)
  <2>1. calls' \in [1 .. Len(calls) -> CallRecords]
    BY <1>1, <1>2, <1>3
  <2> QED BY <1>3, <2>1
<1>5. blocked' \in Nat
  BY <1>1 DEF CallsInv, ServicesTypeOK
<1>6. ServicesTypeOK'
  <2>1. /\ ServicesTypeOK
        /\ UNCHANGED <<caller, registry, opened, closed, disconnected, queue, wire, applied>>
    BY <1>1 DEF CallsInv
  <2> QED BY <1>4, <1>5, <2>1 DEF ServicesTypeOK
<1>7. UNCHANGED <<caller, wire, applied>>
  BY <1>1
<1>8. Requests' = Requests /\ \A j : OnItsWay(j)' <=> OnItsWay(j)
  BY <1>2, <1>3, <1>7 DEF Requests, OnItsWay
<1>9. OneCaller'
  BY <1>2, <1>3, <1>4, <1>7 DEF OneCaller, CallsInv
<1>10. ASSUME NEW i \in Calls PROVE Stood(i)'
  <2>1. Stood(i)
    BY DEF CallsInv
  <2> QED BY <1>2, <1>7, <1>8, <2>1 DEF Stood
<1>11. Evolve
  BY <1>2, <1>3 DEF Evolve
<1>12. ASSUME Punctual PROVE Punctual'
  <2>1. CASE caller = 0
    BY <1>1, <1>12, <2>1 DEF Punctual
  <2>2. CASE caller # 0 /\ calls[caller].svc # "smtp" /\ calls[caller].stage \notin {"reading", "selecting"}
    <3>1. InTime(calls[caller]) /\ caller \in Calls /\ calls[caller].stage \in Stages
          /\ calls[caller].stage \notin {"ended", "spawned"}
      BY <1>12, <2>2, TypedCall DEF Punctual, CallsInv, OneCaller
    <3>2. caller \in Started
      BY <2>2, <3>1 DEF Stages, Started
    <3>3. calls[caller] \in CallRecords /\ blocked \in Nat
      BY <3>1, TypedCall DEF CallsInv, ServicesTypeOK
    <3>4. calls'[caller] = [calls[caller] EXCEPT !.left = {t - 1 : t \in calls[caller].left}]
      BY <1>1, <3>1, <3>2
    <3>5. calls'[caller].left = {t - 1 : t \in calls[caller].left} /\ calls'[caller].limit = calls[caller].limit
      BY <3>3, <3>4 DEF CallRecords
    <3>6. ASSUME NEW t \in calls[caller].limit PROVE \E l \in calls'[caller].left : blocked' + l <= t
      <4>1. PICK l \in calls[caller].left : blocked + l <= t
        BY <3>1 DEF InTime
      <4>2. l \in Nat /\ t \in Nat
        BY <3>3 DEF CallRecords, Times
      <4>3. blocked' <= blocked + 1 /\ blocked' \in Nat
        <5>1. blocked' \in {blocked, blocked + 1}
          BY <1>1
        <5> QED BY <3>3, <5>1
      <4>4. blocked' + (l - 1) <= t
        <5>1. \A a, b, m, n \in Nat : a <= b + 1 /\ b + m <= n => a + (m - 1) <= n
          OBVIOUS
        <5>2. blocked \in Nat
          BY <3>3
        <5> QED BY <4>1, <4>2, <4>3, <5>1, <5>2
      <4>5. l - 1 \in calls'[caller].left
        BY <3>5
      <4> QED BY <4>4, <4>5
    <3> QED BY <1>1, <2>2, <3>5, <3>6 DEF Punctual, InTime
  <2>3. CASE caller # 0 /\ (calls[caller].svc = "smtp" \/ calls[caller].stage \in {"reading", "selecting"})
    <3>1. caller \in Calls
      BY <2>3 DEF CallsInv, OneCaller
    <3> QED BY <1>1, <1>2, <2>3, <3>1 DEF Punctual
  <2> QED BY <2>1, <2>2, <2>3
<1>13. NewCalls
  BY <1>3 DEF NewCalls
<1> QED BY <1>3, <1>6, <1>8, <1>9, <1>10, <1>11, <1>12, <1>13 DEF CallsInv, GoodStep

LEMMA EveryStepKeepsCalls ==
  ASSUME CallsInv, [ServicesNext]_servicesVars
  PROVE  GoodStep
<1>1. CASE UNCHANGED servicesVars
  BY <1>1, IdleKeepsCalls DEF servicesVars
<1>2. ASSUME NEW flaw,
             \/ RedisFunctions(flaw) \/ TsdbFunctions(flaw) \/ InfluxFunctions(flaw)
             \/ Notifications(flaw)
      PROVE  GoodStep
  BY <1>2, EveryFunction, FunctionKeepsCalls DEF Services, Kept
<1>3. ASSUME NEW flaw, RedisConnect(flaw) \/ TsdbConnect(flaw) PROVE GoodStep
  <2>1. {Limit["connect"]} \in Times /\ {Limit["tsdb_connect"]} \in Times
    BY ServicesAssumption DEF Times
  <2> QED BY <1>3, <2>1, ConnectingKeepsCalls DEF RedisConnect, TsdbConnect, Kept
<1>4. CASE RedisDisconnect \/ TsdbDisconnect \/ ReplaceScript \/ ServiceTick
  BY <1>4, ForgetKeepsCalls, TsdbDisconnectKeepsCalls, ServiceTickKeepsCalls
<1>5. ASSUME NEW i \in Calls, \/ Selecting(i) \/ Connected(i) \/ StartTask(i) \/ SendRequest(i)
                              \/ AnswerCall(i) \/ Decline(i) \/ MailExchange(i) \/ CallFails(i)
                              \/ TimeOut(i) \/ Execute(i) \/ LoseRequest(i)
      PROVE  GoodStep
  BY <1>5, SelectingKeepsCalls, ConnectedKeepsCalls, StartTaskKeepsCalls, SendRequestKeepsCalls,
    DeclineKeepsCalls, MailExchangeKeepsCalls, EndingsKeepCalls, WireKeepsCalls
<1> QED BY <1>1, <1>2, <1>3, <1>4, <1>5 DEF ServicesNext

-----------------------------------------------------------------------------
(* The requests that are on their way, and those that took effect.         *)

(* A step leaves them as they are, sends one request more, loses one, or   *)
(* one is executed.                                                        *)
WireStep ==
  /\ severed \subseteq severed'
  /\ \/ UNCHANGED <<wire, applied>>
     \/ /\ \E i \in Calls' : ~OnItsWay(i) /\ calls'[i].stage = "sent" /\ wire' = Append(wire, i)
        /\ UNCHANGED applied
     \/ \E k \in 1 .. Len(wire) : wire' = RemoveAt(wire, k) /\ UNCHANGED applied
     \/ \E i \in Calls : Execute(i)

LEMMA FunctionWire ==
  ASSUME CallsInv, NEW svc \in Services, NEW flaw, FunctionOf(svc, flaw)
  PROVE  WireStep
<1>1. PICK mode \in {"sync", "async"}, limit \in Times, refusal \in Refusals :
        \E checks : Function(svc, mode, checks, flaw, limit, refusal)
  BY DEF FunctionOf
<1>2. CASE Answered(refusal)
  BY <1>2 DEF Answered, WireStep
<1>3. CASE Enter(svc, mode, limit, refusal)
  <2> DEFINE n == Len(calls) + 1
             on == IF svc \in Kept THEN registry[svc] ELSE {}
             stage == IF mode = "async" THEN "spawned" ELSE IF svc \in Kept THEN "waiting" ELSE "sent"
             c == [svc |-> svc, mode |-> mode, on |-> on, left |-> limit, limit |-> limit,
                   stage |-> stage, refusal |-> refusal, result |-> "none"]
  <2>1. /\ calls' = Append(calls, c) /\ UNCHANGED <<applied, severed>>
        /\ wire' = IF stage = "sent" THEN Append(wire, n) ELSE wire
    BY <1>3 DEF Enter
  <2>2. c.stage = stage
    OBVIOUS
  <2>3. /\ Len(calls) \in Nat /\ n \notin Calls /\ \A j : OnItsWay(j) => j \in Calls
        /\ calls \in Seq(CallRecords)
    BY DEF CallsInv, ServicesTypeOK, Calls, Requests
  <2>4. n \in 1 .. Len(calls) + 1 /\ Append(calls, c)[n] = c /\ DOMAIN Append(calls, c) = 1 .. Len(calls) + 1
    BY <2>3
  <2> HIDE DEF stage, c, n
  <2>5. n \in Calls' /\ calls'[n] = c
    BY <2>1, <2>4 DEF Calls
  <2> QED BY <2>1, <2>2, <2>3, <2>5 DEF WireStep
<1> QED BY <1>1, <1>2, <1>3 DEF Function

LEMMA StartTaskWire ==
  ASSUME CallsInv, NEW i \in Calls, StartTask(i), Evolve
  PROVE  WireStep
<1>1. calls[i].stage = "spawned" /\ ~OnItsWay(i)
  BY DEF StartTask, CallsInv, Stood
<1>2. CASE calls[i].svc = "tsdb" /\ calls[i].on \subseteq closed
  BY <1>2 DEF StartTask, End, WireStep
<1>3. CASE ~(calls[i].svc = "tsdb" /\ calls[i].on \subseteq closed)
  <2>1. CASE calls[i].svc \in Kept
    BY <1>3, <2>1 DEF StartTask, WireStep
  <2>2. CASE calls[i].svc \notin Kept
    <3>1. /\ calls' = [calls EXCEPT ![i].stage = "sent"]
          /\ wire' = Append(wire, i) /\ UNCHANGED <<applied, severed>>
      BY <1>3, <2>2 DEF StartTask
    <3>2. calls[i].result \in Results /\ calls[i].left \in Times /\ calls \in Seq(CallRecords)
          /\ "sent" \in Stages
      BY TypedCall DEF CallsInv, ServicesTypeOK, Stages
    <3>3. Moves(i, "sent", calls[i].result, calls[i].left)
      BY <3>1, <3>2, Moving
    <3> QED BY <1>1, <3>1, <3>3 DEF WireStep, Moves
  <2> QED BY <2>1, <2>2
<1> QED BY <1>2, <1>3

LEMMA SendRequestWire ==
  ASSUME CallsInv, NEW i \in Calls, SendRequest(i)
  PROVE  WireStep
<1>1. ~OnItsWay(i)
  BY DEF SendRequest, CallsInv, Stood
<1>2. /\ calls' = [calls EXCEPT ![i].stage = "sent"]
      /\ wire' = Append(wire, i) /\ UNCHANGED <<applied, severed>>
  BY DEF SendRequest
<1>3. calls[i].result \in Results /\ calls[i].left \in Times /\ calls \in Seq(CallRecords)
      /\ "sent" \in Stages
  BY TypedCall DEF CallsInv, ServicesTypeOK, Stages
<1>4. Moves(i, "sent", calls[i].result, calls[i].left)
  BY <1>2, <1>3, Moving
<1> QED BY <1>1, <1>2, <1>4 DEF WireStep, Moves

LEMMA DeclineWire ==
  ASSUME CallsInv, NEW i \in Calls, Decline(i)
  PROVE  WireStep
<1>1. wire' = RemoveFirst(wire, i) /\ UNCHANGED <<applied, severed>> /\ wire \in Seq(Nat)
  BY DEF Decline, End, CallsInv, ServicesTypeOK
<1>2. wire' = wire \/ \E k \in 1 .. Len(wire) : wire' = RemoveAt(wire, k)
  BY <1>1, RemovedFirst
<1> QED BY <1>1, <1>2 DEF WireStep

LEMMA EveryWireStep ==
  ASSUME CallsInv, [ServicesNext]_servicesVars
  PROVE  WireStep
<1>1. CASE UNCHANGED servicesVars
  BY <1>1 DEF servicesVars, WireStep
<1>2. ASSUME NEW flaw,
             \/ RedisFunctions(flaw) \/ TsdbFunctions(flaw) \/ InfluxFunctions(flaw)
             \/ Notifications(flaw)
      PROVE  WireStep
  BY <1>2, EveryFunction, FunctionWire DEF Services, Kept
<1>3. ASSUME NEW flaw, RedisConnect(flaw) \/ TsdbConnect(flaw) PROVE WireStep
  BY <1>3 DEF RedisConnect, TsdbConnect, Connecting, Answered, WireStep
<1>4. CASE RedisDisconnect \/ TsdbDisconnect \/ ReplaceScript \/ ServiceTick
  <2>1. UNCHANGED <<wire, severed, applied>>
    BY <1>4 DEF RedisDisconnect, TsdbDisconnect, ReplaceScript, ServiceTick, Answered
  <2> QED BY <2>1 DEF WireStep
<1>5. ASSUME NEW i \in Calls, \/ Selecting(i) \/ Connected(i) \/ StartTask(i) \/ SendRequest(i)
                              \/ AnswerCall(i) \/ Decline(i) \/ MailExchange(i) \/ CallFails(i)
                              \/ TimeOut(i) \/ Execute(i) \/ LoseRequest(i)
      PROVE  WireStep
  <2>1. CASE Selecting(i) \/ Connected(i) \/ AnswerCall(i) \/ MailExchange(i) \/ CallFails(i) \/ TimeOut(i)
    <3>1. UNCHANGED <<wire, applied>> /\ severed \subseteq severed'
      BY <2>1 DEF Selecting, Connected, AnswerCall, MailExchange, CallFails, TimeOut, End
    <3> QED BY <3>1 DEF WireStep
  <2>2. CASE StartTask(i)
    BY <2>2, StartTaskWire, EveryStepKeepsCalls DEF GoodStep
  <2>3. CASE LoseRequest(i)
    <3>1. DOMAIN wire = 1 .. Len(wire)
      BY DEF CallsInv, ServicesTypeOK
    <3> QED BY <2>3, <3>1 DEF LoseRequest, WireStep
  <2>4. CASE Execute(i)
    BY <2>4 DEF Execute, WireStep
  <2> QED BY <1>5, <2>1, <2>2, <2>3, <2>4, SendRequestWire, DeclineWire
<1> QED BY <1>1, <1>2, <1>3, <1>4, <1>5 DEF ServicesNext
-----------------------------------------------------------------------------
(* Call j is newer than the synchronous Redis command i and goes down the  *)
(* same pipeline, which has not failed since: it must never be in front.   *)
Overtakes(j, i) ==
  /\ j > i /\ calls[i].mode = "sync" /\ calls[i].svc = "redis" /\ calls[j].on = calls[i].on
  /\ i \notin severed

WireInv ==
  /\ \A p, q \in 1 .. Len(wire) : wire[p] = wire[q] => p = q
  /\ \A p \in 1 .. Len(wire) : wire[p] \notin ToSet(applied)
  /\ \A p \in 1 .. Len(wire) : \A q \in 1 .. p - 1 : ~Overtakes(wire[q], wire[p])
  /\ \A p \in 1 .. Len(wire) : \A j \in ToSet(applied) : ~Overtakes(j, wire[p])

InOrder(i, j) ==
  i < j => \/ calls[i].mode = "async"
           \/ /\ calls[i].result # "ok"
              /\ calls[i].svc = "redis" /\ calls[i].on = calls[j].on => i \in severed

AppliedInv == \A l \in 1 .. Len(applied) : \A k \in 1 .. l - 1 : InOrder(applied[l], applied[k])

LEMMA WireFacts ==
  ASSUME CallsInv
  PROVE  /\ wire \in Seq(Nat) /\ Len(wire) \in Nat /\ DOMAIN wire = 1 .. Len(wire)
         /\ applied \in Seq(Nat) /\ Len(applied) \in Nat /\ DOMAIN applied = 1 .. Len(applied)
         /\ \A p \in 1 .. Len(wire) : wire[p] \in ToSet(wire) /\ wire[p] \in Calls
         /\ \A p \in 1 .. Len(applied) : applied[p] \in ToSet(applied) /\ applied[p] \in Calls
         /\ Calls = 1 .. Len(calls) /\ Len(calls) \in Nat
<1>1. wire \in Seq(Nat) /\ applied \in Seq(Nat) /\ Calls = 1 .. Len(calls) /\ Len(calls) \in Nat
  BY DEF CallsInv, ServicesTypeOK, Calls
<1>2. ASSUME NEW p \in 1 .. Len(wire) PROVE wire[p] \in ToSet(wire)
  BY <1>1 DEF ToSet
<1>3. ASSUME NEW p \in 1 .. Len(applied) PROVE applied[p] \in ToSet(applied)
  BY <1>1 DEF ToSet
<1>4. \A i : OnItsWay(i) => i \in Calls
  BY DEF CallsInv, Requests
<1> QED BY <1>1, <1>2, <1>3, <1>4 DEF OnItsWay

(* A new request cannot be overtaken by what is there already. *)
LEMMA NewestIsLast ==
  ASSUME CallsInv', CallsInv, Evolve, NEW i \in Calls', calls'[i].stage = "sent", NEW j \in Calls
  PROVE  ~Overtakes(j, i)'
<1>1. Calls = 1 .. Len(calls) /\ Len(calls) \in Nat /\ Calls' = 1 .. Len(calls') /\ Len(calls') \in Nat
  BY WireFacts, WireFacts DEF CallsInv, ServicesTypeOK, Calls
<1>2. calls'[i].mode = "sync" => caller' = i /\ i # 0
  BY <1>1 DEF CallsInv, OneCaller
<1>3. calls'[i].mode = "sync" => i = Len(calls')
  BY <1>2 DEF CallsInv, OneCaller
<1>4. j \in Calls'
  BY DEF Evolve
<1> QED BY <1>1, <1>3, <1>4 DEF Overtakes

LEMMA WireInvStays ==
  ASSUME CallsInv, CallsInv', Evolve, WireStep, WireInv
  PROVE  WireInv'
<1>s. severed \subseteq severed'
  BY DEF WireStep
<1>1. CASE UNCHANGED <<wire, applied>>
  <2>1. ASSUME NEW p \in 1 .. Len(wire), NEW q \in 1 .. p - 1 PROVE ~Overtakes(wire[q], wire[p])'
    <3>1. q \in 1 .. Len(wire)
      BY WireFacts
    <3>2. wire[p] \in Calls /\ wire[q] \in Calls /\ ~Overtakes(wire[q], wire[p])
      BY <3>1, WireFacts DEF WireInv
    <3> QED BY <1>s, <1>1, <3>2 DEF Overtakes, Evolve
  <2>2. ASSUME NEW p \in 1 .. Len(wire), NEW j \in ToSet(applied) PROVE ~Overtakes(j, wire[p])'
    <3>1. wire[p] \in Calls /\ j \in Calls /\ ~Overtakes(j, wire[p])
      BY WireFacts DEF WireInv, CallsInv, OnItsWay, Requests
    <3> QED BY <1>s, <1>1, <3>1 DEF Overtakes, Evolve
  <2> QED BY <1>1, <2>1, <2>2 DEF WireInv
<1>2. ASSUME NEW i \in Calls', ~OnItsWay(i), calls'[i].stage = "sent", wire' = Append(wire, i),
             UNCHANGED applied
      PROVE  WireInv'
  <2>1. /\ Len(wire') = Len(wire) + 1 /\ wire'[Len(wire) + 1] = i
        /\ \A p \in 1 .. Len(wire) : wire'[p] = wire[p]
    BY <1>2, WireFacts
  <2>2. \A p \in 1 .. Len(wire) : wire[p] # i
    BY <1>2, WireFacts DEF OnItsWay
  <2>3. i \notin ToSet(applied)
    BY <1>2 DEF OnItsWay
  <2>4. \A j \in Calls : ~Overtakes(j, i)'
    BY <1>2, NewestIsLast
  <2>5. \A p \in 1 .. Len(wire) + 1 : p \in 1 .. Len(wire) \/ p = Len(wire) + 1
    BY WireFacts
  <2>6. ASSUME NEW p \in 1 .. Len(wire')
        PROVE  /\ wire'[p] \notin ToSet(applied')
               /\ \A q \in 1 .. Len(wire') : wire'[p] = wire'[q] => p = q
    BY <1>2, <2>1, <2>2, <2>3, <2>5 DEF WireInv
  <2>7. ASSUME NEW p \in 1 .. Len(wire'), NEW q \in 1 .. p - 1 PROVE ~Overtakes(wire[q], wire[p])'
    <3>1. q \in 1 .. Len(wire) /\ wire'[q] = wire[q] /\ wire[q] \in Calls
      BY <2>1, <2>7, WireFacts
    <3>2. CASE p = Len(wire) + 1
      BY <2>1, <2>4, <3>1, <3>2 DEF Overtakes
    <3>3. CASE p \in 1 .. Len(wire)
      <4>1. wire'[p] = wire[p] /\ wire[p] \in Calls /\ ~Overtakes(wire[q], wire[p])
        BY <2>1, <3>3, WireFacts DEF WireInv
      <4> QED BY <1>s, <3>1, <4>1 DEF Overtakes, Evolve
    <3> QED BY <2>1, <2>5, <3>2, <3>3
  <2>8. ASSUME NEW p \in 1 .. Len(wire'), NEW j \in ToSet(applied') PROVE ~Overtakes(j, wire[p])'
    <3>1. j \in ToSet(applied) /\ j \in Calls
      BY <1>2 DEF CallsInv, OnItsWay, Requests
    <3>2. CASE p = Len(wire) + 1
      BY <2>1, <2>4, <3>1, <3>2 DEF Overtakes
    <3>3. CASE p \in 1 .. Len(wire)
      <4>1. wire'[p] = wire[p] /\ wire[p] \in Calls /\ ~Overtakes(j, wire[p])
        BY <2>1, <3>1, <3>3, WireFacts DEF WireInv
      <4> QED BY <1>s, <3>1, <4>1 DEF Overtakes, Evolve
    <3> QED BY <2>1, <2>5, <3>2, <3>3
  <2> QED BY <2>6, <2>7, <2>8 DEF WireInv
<1>3. ASSUME NEW k \in 1 .. Len(wire), wire' = RemoveAt(wire, k),
             ToSet(applied') \subseteq ToSet(applied) \cup {wire[k]},
             \/ UNCHANGED applied
             \/ \A l \in 1 .. k - 1 : ~SamePipeline(wire[l], wire[k])
      PROVE  WireInv'
  <2> DEFINE At(p) == IF p < k THEN p ELSE p + 1
  <2>0. wire \in Seq(Nat) /\ \A p \in 1 .. Len(wire) : wire[p] \in Calls
    BY WireFacts
  <2>1. /\ Len(wire') = Len(wire) - 1 /\ Len(wire) \in Nat /\ k \in Nat
        /\ \A p \in 1 .. Len(wire) - 1 : wire'[p] = IF p < k THEN wire[p] ELSE wire[p + 1]
    <3>1. /\ Len(RemoveAt(wire, k)) = Len(wire) - 1
          /\ \A p \in 1 .. Len(wire) - 1 : RemoveAt(wire, k)[p] = IF p < k THEN wire[p] ELSE wire[p + 1]
      BY <2>0, RemovedAt
    <3>2. Len(wire) \in Nat /\ k \in Nat
      BY <2>0
    <3> QED BY <1>3, <3>1, <3>2
  <2>2. ASSUME NEW p \in 1 .. Len(wire')
        PROVE  At(p) \in 1 .. Len(wire) /\ At(p) # k /\ wire'[p] = wire[At(p)] /\ wire'[p] \in Calls
    <3>1. At(p) \in 1 .. Len(wire) /\ At(p) # k
      BY <2>1
    <3>2. wire'[p] = wire[At(p)]
      BY <2>1
    <3> HIDE DEF At
    <3> QED BY <2>0, <3>1, <3>2
  <2>3. ASSUME NEW p \in 1 .. Len(wire'), NEW q \in 1 .. Len(wire')
        PROVE  (At(p) = At(q) => p = q) /\ (q < p => At(q) \in 1 .. At(p) - 1)
    BY <2>1
  <2> HIDE DEF At
  <2>4. ASSUME NEW p \in 1 .. Len(wire')
        PROVE  wire'[p] \notin ToSet(applied')
    BY <1>3, <2>2 DEF WireInv
  <2>5. ASSUME NEW p \in 1 .. Len(wire'), NEW q \in 1 .. Len(wire'), wire'[p] = wire'[q]
        PROVE  p = q
    BY <2>2, <2>3, <2>5 DEF WireInv
  <2>6. ASSUME NEW p \in 1 .. Len(wire'), NEW q \in 1 .. p - 1 PROVE ~Overtakes(wire[q], wire[p])'
    <3>1. q \in 1 .. Len(wire') /\ q < p
      BY <2>1
    <3>2. ~Overtakes(wire[At(q)], wire[At(p)])
      BY <2>2, <2>3, <3>1 DEF WireInv
    <3> QED BY <1>s, <2>2, <3>1, <3>2 DEF Overtakes, Evolve
  <2>7. ASSUME NEW p \in 1 .. Len(wire'), NEW j \in ToSet(applied') PROVE ~Overtakes(j, wire[p])'
    <3>1. wire'[p] = wire[At(p)] /\ wire'[p] \in Calls /\ At(p) \in 1 .. Len(wire) /\ At(p) # k
      BY <2>2
    <3>2. ~Overtakes(j, wire[At(p)]) /\ j \in Calls
      <4>1. CASE j \in ToSet(applied)
        BY <3>1, <4>1 DEF WireInv, CallsInv, OnItsWay, Requests
      <4>2. CASE j = wire[k] /\ ~(j \in ToSet(applied))
        <5>1. wire[k] \in Calls
          BY WireFacts
        <5>2. CASE At(p) < k
          <6>1. At(p) \in 1 .. k - 1
            BY <2>1, <3>1, <5>2
          <6>2. ~SamePipeline(wire[At(p)], wire[k])
            BY <1>3, <2>7, <4>2, <6>1
          <6> QED BY <4>2, <5>1, <6>2 DEF SamePipeline, Overtakes
        <5>3. CASE ~(At(p) < k)
          <6>1. k \in 1 .. At(p) - 1
            BY <2>1, <3>1, <5>3
          <6> QED BY <3>1, <4>2, <5>1, <6>1 DEF WireInv
        <5> QED BY <5>2, <5>3
      <4> QED BY <1>3, <2>7, <4>1, <4>2
    <3> QED BY <1>s, <3>1, <3>2 DEF Overtakes, Evolve
  <2> QED BY <2>4, <2>5, <2>6, <2>7 DEF WireInv
<1>4. ASSUME NEW i \in Calls, Execute(i) PROVE WireInv'
  <2>1. PICK k \in DOMAIN wire : /\ wire[k] = i /\ wire' = RemoveAt(wire, k)
                                 /\ \A l \in 1 .. k - 1 : ~SamePipeline(wire[l], i)
    BY <1>4 DEF Execute
  <2>2. applied' = Append(applied, i)
    BY <1>4 DEF Execute
  <2>3. ToSet(applied') = ToSet(applied) \cup {i}
    BY <2>2, AppendedElements, WireFacts
  <2> QED BY <1>3, <2>1, <2>3, WireFacts
<1>5. ASSUME NEW k \in 1 .. Len(wire), wire' = RemoveAt(wire, k), UNCHANGED applied PROVE WireInv'
  BY <1>3, <1>5
<1> QED BY <1>1, <1>2, <1>4, <1>5 DEF WireStep

LEMMA AppliedInvStays ==
  ASSUME CallsInv, Evolve, WireStep, WireInv, AppliedInv
  PROVE  AppliedInv'
<1>s. severed \subseteq severed'
  BY DEF WireStep
<1>1. ASSUME NEW i \in Calls, NEW j \in Calls, InOrder(i, j) PROVE InOrder(i, j)'
  <2>1. ASSUME i < j, calls[i].mode = "sync" PROVE calls[i].stage = "ended"
    <3>1. i # Len(calls)
      BY <2>1, WireFacts
    <3>2. i # 0 /\ caller \in {0, Len(calls)}
      BY WireFacts DEF CallsInv, OneCaller
    <3> QED BY <2>1, <3>1, <3>2 DEF CallsInv, OneCaller
  <2>2. calls[i].mode \in {"sync", "async"}
    BY TypedCall
  <2> QED BY <1>s, <1>1, <2>1, <2>2 DEF InOrder, Evolve
<1>2. CASE UNCHANGED applied
  <2>1. ASSUME NEW l \in 1 .. Len(applied), NEW k \in 1 .. l - 1 PROVE InOrder(applied[l], applied[k])'
    <3>1. k \in 1 .. Len(applied)
      BY WireFacts
    <3>2. applied[l] \in Calls /\ applied[k] \in Calls /\ InOrder(applied[l], applied[k])
      BY <3>1, WireFacts DEF AppliedInv
    <3>3. \A i, j \in Calls : InOrder(i, j) => InOrder(i, j)'
      BY <1>1
    <3> QED BY <1>2, <3>2, <3>3
  <2> QED BY <1>2, <2>1 DEF AppliedInv
<1>3. ASSUME NEW i \in Calls, Execute(i) PROVE AppliedInv'
  <2>1. PICK p \in 1 .. Len(wire) : wire[p] = i
    BY <1>3, WireFacts DEF Execute
  <2>2. applied' = Append(applied, i) /\ UNCHANGED <<calls, severed>>
    BY <1>3 DEF Execute
  <2>3. /\ Len(applied') = Len(applied) + 1 /\ applied'[Len(applied) + 1] = i
        /\ \A q \in 1 .. Len(applied) : applied'[q] = applied[q]
        /\ Len(applied) \in Nat
    BY <2>2, WireFacts
  <2>4. i \notin ToSet(applied) /\ calls[i].result # "ok"
    <3>1. i \notin ToSet(applied)
      BY <2>1 DEF WireInv
    <3>2. i \in Requests /\ Stood(i)
      BY <2>1, WireFacts DEF CallsInv, OnItsWay
    <3> QED BY <3>1, <3>2 DEF Stood
  <2>5. ASSUME NEW j \in ToSet(applied), j \in Calls PROVE InOrder(i, j)
    <3>1. ~Overtakes(j, i)
      BY <2>1 DEF WireInv
    <3>2. calls[i].mode \in {"sync", "async"}
      BY TypedCall
    <3> QED BY <2>4, <2>5, <3>1, <3>2, WireFacts DEF Overtakes, InOrder
  <2>6. ASSUME NEW l \in 1 .. Len(applied'), NEW k \in 1 .. l - 1 PROVE InOrder(applied[l], applied[k])'
    <3>1. k \in 1 .. Len(applied) /\ applied'[k] = applied[k] /\ applied[k] \in Calls /\ applied[k] \in ToSet(applied)
      BY <2>3, WireFacts
    <3>2. CASE l = Len(applied) + 1
      BY <2>2, <2>3, <2>5, <3>1, <3>2 DEF InOrder
    <3>3. CASE l # Len(applied) + 1
      <4>1. l \in 1 .. Len(applied)
        BY <2>3, <3>1, <3>3
      <4>2. applied'[l] = applied[l]
        BY <2>3, <4>1
      <4> QED BY <2>2, <3>1, <4>1, <4>2 DEF AppliedInv, InOrder
    <3> QED BY <3>2, <3>3
  <2> QED BY <2>6 DEF AppliedInv
<1> QED BY <1>2, <1>3 DEF WireStep
-----------------------------------------------------------------------------
(* The connections and pools.                                              *)

(* Every connection and every pool has a number of its own: one that a     *)
(* Redis command uses is no pool that is or can be closed.                 *)
NoPool(on) == on \cap (closed \cup registry["tsdb"]) = {}

PoolsInv ==
  /\ closed \subseteq 1 .. opened /\ disconnected \subseteq closed
  /\ \A svc \in Kept : registry[svc] \subseteq 1 .. opened
  /\ registry["tsdb"] \cap closed = {} /\ \E o : registry["tsdb"] \subseteq {o}
  /\ NoPool(registry["redis"])
  /\ \A i \in Calls : /\ calls[i].on \subseteq 1 .. opened
                      /\ \E o : calls[i].on \subseteq {o}
                      /\ calls[i].svc = "redis" => NoPool(calls[i].on)
  /\ \E o : registry["redis"] \subseteq {o}
  /\ \A o \in disconnected : Len(queue[o]) <= PoolSize

(* Nobody joins the queue of a pool that is disconnected. *)
NobodyJoins ==
  \A o \in disconnected : queue'[o] = queue[o] \/ \E e : queue'[o] = RemoveFirst(queue[o], e)

LEMMA DisconnectedQueue ==
  ASSUME CallsInv, PoolsInv, NEW o \in disconnected
  PROVE  o \in 1 .. MaxOpened /\ queue[o] \in Seq(Nat) /\ Len(queue[o]) \in Nat /\ Len(queue[o]) <= PoolSize
<1>1. opened \in 0 .. MaxOpened /\ queue \in [1 .. MaxOpened -> Seq(Nat)]
  BY DEF CallsInv, ServicesTypeOK
<1>2. o \in 1 .. opened /\ Len(queue[o]) <= PoolSize
  BY DEF PoolsInv
<1>3. o \in 1 .. MaxOpened
  BY <1>1, <1>2, ServicesAssumption
<1>4. queue[o] \in Seq(Nat)
  BY <1>1, <1>3
<1> QED BY <1>2, <1>3, <1>4

LEMMA HoldersAreAll ==
  ASSUME NEW o, queue[o] \in Seq(Nat), Len(queue[o]) <= PoolSize
  PROVE  Holders(o) = ToSet(queue[o])
<1>1. Len(queue[o]) \in Nat /\ DOMAIN queue[o] = 1 .. Len(queue[o])
  OBVIOUS
<1>2. InUse(o) = Len(queue[o])
  BY <1>1, ServicesAssumption DEF InUse
<1> QED BY <1>1, <1>2 DEF Holders, ToSet

LEMMA NobodyServed ==
  ASSUME CallsInv, PoolsInv, NobodyJoins, NEW o \in disconnected
  PROVE  /\ queue'[o] \in Seq(Nat) /\ Len(queue'[o]) <= Len(queue[o])
         /\ Holders(o)' \subseteq Holders(o)
<1>1. queue[o] \in Seq(Nat) /\ Len(queue[o]) \in Nat /\ Len(queue[o]) <= PoolSize
  BY DisconnectedQueue
<1>2. queue'[o] \in Seq(Nat) /\ Len(queue'[o]) <= Len(queue[o]) /\ ToSet(queue'[o]) \subseteq ToSet(queue[o])
  BY <1>1, Shorter DEF NobodyJoins
<1>3. Holders(o) = ToSet(queue[o])
  BY <1>1, HoldersAreAll
<1>4. Holders(o)' = ToSet(queue'[o])
  <2>1. Len(queue'[o]) \in Nat /\ DOMAIN queue'[o] = 1 .. Len(queue'[o])
    BY <1>2
  <2>2. InUse(o)' = Len(queue'[o])
    BY <1>1, <1>2, <2>1, ServicesAssumption DEF InUse
  <2> QED BY <2>1, <2>2 DEF Holders, ToSet
<1> QED BY <1>2, <1>3, <1>4
-----------------------------------------------------------------------------
LEMMA EndJoinsNobody ==
  ASSUME CallsInv, PoolsInv, NEW i, NEW result, End(i, result)
  PROVE  NobodyJoins
<1>1. queue' = [o \in DOMAIN queue |-> RemoveFirst(queue[o], i)] /\ DOMAIN queue = 1 .. MaxOpened
  BY DEF End, CallsInv, ServicesTypeOK
<1>2. ASSUME NEW o \in disconnected PROVE queue'[o] = RemoveFirst(queue[o], i)
  BY <1>1, DisconnectedQueue
<1> QED BY <1>2 DEF NobodyJoins

LEMMA FunctionJoinsNobody ==
  ASSUME CallsInv, PoolsInv, NEW svc \in Services, NEW flaw, FunctionOf(svc, flaw)
  PROVE  NobodyJoins /\ UNCHANGED <<registry, opened, closed, disconnected>>
<1>1. PICK mode \in {"sync", "async"}, limit \in Times, refusal \in Refusals :
        \E checks : Function(svc, mode, checks, flaw, limit, refusal)
  BY DEF FunctionOf
<1>2. CASE Answered(refusal)
  BY <1>2 DEF Answered, NobodyJoins
<1>3. CASE Enter(svc, mode, limit, refusal)
  <2> DEFINE n == Len(calls) + 1
             on == IF svc \in Kept THEN registry[svc] ELSE {}
             stage == IF mode = "async" THEN "spawned" ELSE IF svc \in Kept THEN "waiting" ELSE "sent"
  <2>1. /\ queue' = [o \in DOMAIN queue |->
                       IF stage = "waiting" /\ o \in on THEN Append(queue[o], n) ELSE queue[o]]
        /\ UNCHANGED <<registry, opened, closed, disconnected>>
    BY <1>3 DEF Enter
  <2>2. on \cap disconnected = {}
    BY DEF PoolsInv, NoPool, Kept
  <2>3. DOMAIN queue = 1 .. MaxOpened
    BY DEF CallsInv, ServicesTypeOK
  <2> HIDE DEF on, stage, n
  <2>4. ASSUME NEW o \in disconnected PROVE queue'[o] = queue[o]
    BY <2>1, <2>2, <2>3, DisconnectedQueue
  <2> QED BY <2>1, <2>4 DEF NobodyJoins
<1> QED BY <1>1, <1>2, <1>3 DEF Function

LEMMA StartTaskJoinsNobody ==
  ASSUME CallsInv, PoolsInv, NEW i \in Calls, StartTask(i)
  PROVE  NobodyJoins
<1>1. CASE calls[i].svc = "tsdb" /\ calls[i].on \subseteq closed
  BY <1>1, EndJoinsNobody DEF StartTask
<1>2. CASE ~(calls[i].svc = "tsdb" /\ calls[i].on \subseteq closed)
  <2> DEFINE kept == calls[i].svc \in Kept
  <2>1. queue' = [o \in DOMAIN queue |->
                    IF kept /\ o \in calls[i].on THEN Append(queue[o], i) ELSE queue[o]]
    BY <1>2 DEF StartTask
  <2>2. kept => calls[i].on \cap closed = {}
    <3>1. CASE calls[i].svc = "redis"
      BY <3>1 DEF PoolsInv, NoPool
    <3>2. CASE calls[i].svc = "tsdb"
      <4>1. PICK o : calls[i].on \subseteq {o}
        BY DEF PoolsInv
      <4> QED BY <1>2, <3>2, <4>1
    <3> QED BY <3>1, <3>2 DEF Kept
  <2>3. DOMAIN queue = 1 .. MaxOpened /\ disconnected \subseteq closed
    BY DEF CallsInv, ServicesTypeOK, PoolsInv
  <2> HIDE DEF kept
  <2>4. ASSUME NEW o \in disconnected PROVE queue'[o] = queue[o]
    BY <2>1, <2>2, <2>3, DisconnectedQueue
  <2> QED BY <2>4 DEF NobodyJoins
<1> QED BY <1>1, <1>2

LEMMA TsdbDisconnectJoinsNobody ==
  ASSUME CallsInv, PoolsInv, TsdbDisconnect
  PROVE  NobodyJoins
<1>1. CASE registry["tsdb"] = {}
  BY <1>1 DEF TsdbDisconnect, Answered, NobodyJoins
<1>2. CASE registry["tsdb"] # {}
  <2> DEFINE on == CHOOSE o \in registry["tsdb"] : TRUE
  <2>1. queue' = [queue EXCEPT ![on] = SubSeq(@, 1, InUse(on))]
    BY <1>2 DEF TsdbDisconnect
  <2>2. on \in registry["tsdb"]
    BY <1>2
  <2> HIDE DEF on
  <2>3. on \notin disconnected
    BY <2>2 DEF PoolsInv
  <2>4. ASSUME NEW o \in disconnected PROVE queue'[o] = queue[o]
    BY <2>1, <2>3, DisconnectedQueue DEF CallsInv, ServicesTypeOK
  <2> QED BY <2>4 DEF NobodyJoins
<1> QED BY <1>1, <1>2

LEMMA NobodyJoinsEver ==
  ASSUME CallsInv, PoolsInv, [ServicesNext]_servicesVars
  PROVE  NobodyJoins
<1>1. CASE UNCHANGED queue
  BY <1>1 DEF NobodyJoins
<1>2. CASE UNCHANGED servicesVars
  BY <1>1, <1>2 DEF servicesVars
<1>3. ASSUME NEW flaw,
             \/ RedisFunctions(flaw) \/ TsdbFunctions(flaw) \/ InfluxFunctions(flaw)
             \/ Notifications(flaw)
      PROVE  NobodyJoins
  BY <1>3, EveryFunction, FunctionJoinsNobody DEF Services, Kept
<1>4. ASSUME NEW flaw, RedisConnect(flaw) \/ TsdbConnect(flaw) PROVE NobodyJoins
  BY <1>1, <1>4 DEF RedisConnect, TsdbConnect, Connecting, Answered
<1>5. CASE RedisDisconnect \/ ReplaceScript \/ ServiceTick
  BY <1>1, <1>5 DEF RedisDisconnect, ReplaceScript, ServiceTick, Answered
<1>6. ASSUME NEW i \in Calls, \/ Selecting(i) \/ Connected(i) \/ StartTask(i) \/ SendRequest(i)
                              \/ AnswerCall(i) \/ Decline(i) \/ MailExchange(i) \/ CallFails(i)
                              \/ TimeOut(i) \/ Execute(i) \/ LoseRequest(i)
      PROVE  NobodyJoins
  <2>1. CASE Selecting(i) \/ Connected(i) \/ SendRequest(i) \/ MailExchange(i) \/ Execute(i) \/ LoseRequest(i)
    BY <1>1, <2>1 DEF Selecting, Connected, SendRequest, MailExchange, Execute, LoseRequest
  <2>2. CASE AnswerCall(i) \/ Decline(i) \/ CallFails(i) \/ TimeOut(i)
    BY <1>1, <2>2, EndJoinsNobody DEF AnswerCall, Decline, CallFails, TimeOut
  <2> QED BY <1>6, <2>1, <2>2, StartTaskJoinsNobody
<1> QED BY <1>2, <1>3, <1>4, <1>5, <1>6, TsdbDisconnectJoinsNobody DEF ServicesNext
-----------------------------------------------------------------------------
(* What a step does to the connections and pools: nothing, it opens one,   *)
(* closes one, or forgets some.                                            *)
Opens ==
  /\ \E svc \in Kept : registry' = [registry EXCEPT ![svc] = {opened + 1}]
  /\ opened' = opened + 1 /\ Calls' = Calls /\ UNCHANGED <<closed, disconnected>>

Closes ==
  /\ \E o \in registry["tsdb"] : /\ closed' = closed \cup {o} /\ disconnected' = disconnected \cup {o}
                                 /\ queue' = [queue EXCEPT ![o] = SubSeq(@, 1, InUse(o))]
  /\ registry' = [registry EXCEPT !["tsdb"] = {}]
  /\ Calls' = Calls /\ UNCHANGED opened

Forgets ==
  /\ registry' \in [Kept -> SUBSET Nat] /\ \A svc \in Kept : registry'[svc] \subseteq registry[svc]
  /\ UNCHANGED <<opened, closed, disconnected>>

LEMMA EveryPoolStep ==
  ASSUME CallsInv, PoolsInv, [ServicesNext]_servicesVars
  PROVE  Opens \/ Closes \/ Forgets
<1>1. CASE UNCHANGED <<registry, opened, closed, disconnected>>
  BY <1>1 DEF Forgets, CallsInv, ServicesTypeOK
<1>2. CASE UNCHANGED servicesVars
  BY <1>1, <1>2 DEF servicesVars
<1>3. ASSUME NEW flaw,
             \/ RedisFunctions(flaw) \/ TsdbFunctions(flaw) \/ InfluxFunctions(flaw)
             \/ Notifications(flaw)
      PROVE  UNCHANGED <<registry, opened, closed, disconnected>>
  BY <1>3, EveryFunction, FunctionJoinsNobody DEF Services, Kept
<1>4. ASSUME NEW flaw, RedisConnect(flaw) \/ TsdbConnect(flaw)
      PROVE  UNCHANGED <<registry, opened, closed, disconnected>>
  BY <1>4 DEF RedisConnect, TsdbConnect, Connecting, Answered
<1>5. CASE RedisDisconnect
  <2>1. CASE Answered("error")
    BY <1>1, <2>1 DEF Answered
  <2>2. CASE registry' = [registry EXCEPT !["redis"] = {}] /\ UNCHANGED <<opened, closed, disconnected>>
    BY <2>2 DEF Forgets, CallsInv, ServicesTypeOK, Kept
  <2> QED BY <1>5, <2>1, <2>2 DEF RedisDisconnect
<1>6. CASE ReplaceScript
  <2>1. registry' = [redis |-> {}, tsdb |-> {}] /\ UNCHANGED <<opened, closed, disconnected>>
    BY <1>6 DEF ReplaceScript
  <2>2. [redis |-> {}, tsdb |-> {}] \in [Kept -> SUBSET Nat]
    BY DEF Kept
  <2>3. \A svc \in Kept : registry'[svc] = {}
    BY <2>1 DEF Kept
  <2> QED BY <2>1, <2>2, <2>3 DEF Forgets
<1>7. CASE TsdbDisconnect
  <2>1. CASE registry["tsdb"] = {}
    BY <1>1, <1>7, <2>1 DEF TsdbDisconnect, Answered
  <2>2. CASE registry["tsdb"] # {}
    <3> DEFINE on == CHOOSE o \in registry["tsdb"] : TRUE
    <3>1. /\ closed' = closed \cup {on} /\ disconnected' = disconnected \cup {on}
          /\ queue' = [queue EXCEPT ![on] = SubSeq(@, 1, InUse(on))]
          /\ registry' = [registry EXCEPT !["tsdb"] = {}] /\ UNCHANGED opened
      BY <1>7, <2>2 DEF TsdbDisconnect
    <3>2. on \in registry["tsdb"]
      BY <2>2
    <3>3. DOMAIN calls' = Calls
      BY <1>7, <2>2 DEF TsdbDisconnect
    <3> HIDE DEF on
    <3>4. Calls' = Calls
      BY <3>3 DEF Calls
    <3> QED BY <3>1, <3>2, <3>4 DEF Closes
  <2> QED BY <2>1, <2>2
<1>8. ASSUME NEW i \in Calls, Connected(i) PROVE Opens
  <2>1. calls[i].svc \in Kept
    BY <1>8 DEF Connected, CallsInv, Stood
  <2>2. /\ registry' = [registry EXCEPT ![calls[i].svc] = {opened + 1}] /\ opened' = opened + 1
        /\ UNCHANGED <<closed, disconnected>>
        /\ calls' = [calls EXCEPT ![i].stage = "ended", ![i].result = "ok", ![i].left = Forever]
    BY <1>8 DEF Connected
  <2>3. Moves(i, "ended", "ok", Forever)
    <3>1. "ended" \in Stages /\ "ok" \in Results /\ Forever \in Times /\ calls \in Seq(CallRecords)
      BY DEF Stages, Results, Forever, Times, CallsInv, ServicesTypeOK
    <3> QED BY <2>2, <3>1, Moving
  <2> QED BY <2>1, <2>2, <2>3 DEF Opens, Moves
<1>9. ASSUME NEW i \in Calls, \/ Selecting(i) \/ StartTask(i) \/ SendRequest(i)
                              \/ AnswerCall(i) \/ Decline(i) \/ MailExchange(i) \/ CallFails(i)
                              \/ TimeOut(i) \/ Execute(i) \/ LoseRequest(i)
      PROVE  UNCHANGED <<registry, opened, closed, disconnected>>
  BY <1>9 DEF Selecting, StartTask, SendRequest, AnswerCall, Decline, MailExchange, CallFails,
    TimeOut, Execute, LoseRequest, End
<1>10. CASE ServiceTick
  BY <1>1, <1>10 DEF ServiceTick
<1> QED BY <1>1, <1>2, <1>3, <1>4, <1>5, <1>6, <1>7, <1>8, <1>9, <1>10 DEF ServicesNext

LEMMA PoolsInvStays ==
  ASSUME CallsInv, CallsInv', Evolve, NewCalls, PoolsInv, NobodyJoins, Opens \/ Closes \/ Forgets
  PROVE  PoolsInv'
<1>1. /\ opened \in Nat /\ registry \in [Kept -> SUBSET Nat] /\ {"redis", "tsdb"} \subseteq Kept
      /\ queue \in [1 .. MaxOpened -> Seq(Nat)]
  BY DEF CallsInv, ServicesTypeOK, Kept
<1>2. ASSUME NEW o \in disconnected PROVE Len(queue'[o]) <= PoolSize
  <2>1. Len(queue'[o]) \in Nat /\ Len(queue[o]) \in Nat
        /\ Len(queue'[o]) <= Len(queue[o]) /\ Len(queue[o]) <= PoolSize
    BY NobodyServed, DisconnectedQueue
  <2> QED BY <2>1, ServicesAssumption
<1>3. ASSUME NEW i \in Calls
      PROVE  i \in Calls' /\ calls'[i].svc = calls[i].svc /\ calls'[i].on = calls[i].on
  BY DEF Evolve
<1>4. CASE Opens
  <2>1. PICK svc \in Kept : registry' = [registry EXCEPT ![svc] = {opened + 1}]
    BY <1>4 DEF Opens
  <2>2. opened' = opened + 1 /\ Calls' = Calls /\ UNCHANGED <<closed, disconnected>>
    BY <1>4 DEF Opens
  <2>3. ASSUME NEW on, on \subseteq 1 .. opened PROVE on \subseteq 1 .. opened' /\ opened + 1 \notin on
    BY <1>1, <2>2, <2>3
  <2>4. registry'[svc] = {opened + 1} /\ \A other \in Kept : other # svc => registry'[other] = registry[other]
    BY <1>1, <2>1
  <2>5. \A s \in Kept : registry'[s] = registry[s] \/ registry'[s] = {opened + 1}
    BY <2>4
  <2>6. closed' \subseteq 1 .. opened' /\ opened + 1 \notin closed /\ opened + 1 \in 1 .. opened'
    BY <1>1, <2>2, <2>3 DEF PoolsInv
  <2>7. ASSUME NEW s \in Kept PROVE registry'[s] \subseteq 1 .. opened' /\ \E o : registry'[s] \subseteq {o}
    BY <2>3, <2>5, <2>6 DEF PoolsInv, Kept
  <2>8. registry'["tsdb"] \cap closed' = {} /\ NoPool(registry["redis"])'
    BY <1>1, <2>2, <2>3, <2>4, <2>6 DEF PoolsInv, NoPool, Kept
  <2>9. ASSUME NEW i \in Calls
        PROVE /\ calls'[i].on \subseteq 1 .. opened'
              /\ \E o : calls'[i].on \subseteq {o}
              /\ calls'[i].svc = "redis" => NoPool(calls[i].on)'
    <3>1. calls[i].on \subseteq 1 .. opened /\ \E o : calls[i].on \subseteq {o}
      BY DEF PoolsInv
    <3>2. calls[i].svc = "redis" => calls[i].on \cap (closed \cup registry["tsdb"]) = {}
      BY DEF PoolsInv, NoPool
    <3>3. opened + 1 \notin calls[i].on /\ calls[i].on \subseteq 1 .. opened'
      BY <2>3, <3>1
    <3>4. registry'["tsdb"] \subseteq registry["tsdb"] \cup {opened + 1}
      BY <1>1, <2>5
    <3> QED BY <1>3, <2>2, <3>1, <3>2, <3>3, <3>4 DEF NoPool
  <2> QED BY <1>1, <1>2, <2>2, <2>6, <2>7, <2>8, <2>9 DEF PoolsInv
<1>5. CASE Closes
  <2>1. PICK o \in registry["tsdb"] :
          /\ closed' = closed \cup {o} /\ disconnected' = disconnected \cup {o}
          /\ queue' = [queue EXCEPT ![o] = SubSeq(@, 1, InUse(o))]
    BY <1>5 DEF Closes
  <2>2. /\ registry' = [registry EXCEPT !["tsdb"] = {}] /\ opened' = opened /\ Calls' = Calls
    BY <1>5 DEF Closes
  <2>3. registry'["tsdb"] = {} /\ registry'["redis"] = registry["redis"]
    BY <1>1, <2>2
  <2>4. closed' \cup registry'["tsdb"] \subseteq closed \cup registry["tsdb"]
    BY <2>1, <2>3
  <2>5. o \in 1 .. opened /\ o \in 1 .. MaxOpened
    <3>1. o \in 1 .. opened
      BY <1>1 DEF PoolsInv
    <3>2. opened \in 0 .. MaxOpened
      BY DEF CallsInv, ServicesTypeOK
    <3> QED BY <3>1, <3>2, ServicesAssumption
  <2>6. Len(queue'[o]) <= PoolSize
    <3>1. queue[o] \in Seq(Nat) /\ queue'[o] = SubSeq(queue[o], 1, InUse(o))
      BY <1>1, <2>1, <2>5
    <3>2. Len(queue[o]) \in Nat /\ InUse(o) \in Nat /\ InUse(o) <= Len(queue[o]) /\ InUse(o) <= PoolSize
      BY <3>1, ServicesAssumption DEF InUse
    <3>3. Len(SubSeq(queue[o], 1, InUse(o))) = InUse(o)
      BY <3>1, <3>2
    <3> QED BY <3>1, <3>2, <3>3
  <2>7. ASSUME NEW p \in disconnected' PROVE Len(queue'[p]) <= PoolSize
    BY <1>2, <2>1, <2>6
  <2>8. closed' \subseteq 1 .. opened' /\ disconnected' \subseteq closed'
    BY <2>1, <2>2, <2>5 DEF PoolsInv
  <2>9. ASSUME NEW s \in Kept PROVE registry'[s] \subseteq 1 .. opened' /\ \E p : registry'[s] \subseteq {p}
    BY <2>2, <2>3 DEF PoolsInv, Kept
  <2>10. NoPool(registry["redis"])'
    BY <2>3, <2>4 DEF PoolsInv, NoPool
  <2>11. ASSUME NEW i \in Calls
         PROVE /\ calls'[i].on \subseteq 1 .. opened'
               /\ \E p : calls'[i].on \subseteq {p}
               /\ calls'[i].svc = "redis" => NoPool(calls[i].on)'
    <3>1. calls[i].on \subseteq 1 .. opened /\ \E p : calls[i].on \subseteq {p}
      BY DEF PoolsInv
    <3>2. calls[i].svc = "redis" => calls[i].on \cap (closed \cup registry["tsdb"]) = {}
      BY DEF PoolsInv, NoPool
    <3> QED BY <1>3, <2>2, <2>4, <3>1, <3>2 DEF NoPool
  <2> QED BY <1>1, <2>2, <2>3, <2>7, <2>8, <2>9, <2>10, <2>11 DEF PoolsInv
<1>6. CASE Forgets
  <2>1. opened' = opened /\ closed' = closed /\ disconnected' = disconnected
        /\ \A svc \in Kept : registry'[svc] \subseteq registry[svc]
    BY <1>6 DEF Forgets
  <2>2. ASSUME NEW s \in Kept PROVE registry'[s] \subseteq 1 .. opened' /\ \E p : registry'[s] \subseteq {p}
    BY <2>1 DEF PoolsInv, Kept
  <2>3. registry'["tsdb"] \cap closed' = {} /\ NoPool(registry["redis"])'
    BY <1>1, <2>1 DEF PoolsInv, NoPool
  <2>4. ASSUME NEW i \in Calls'
        PROVE /\ calls'[i].on \subseteq 1 .. opened'
              /\ \E p : calls'[i].on \subseteq {p}
              /\ calls'[i].svc = "redis" => calls'[i].on \cap (closed \cup registry["tsdb"]) = {}
    <3>1. CASE i \in Calls
      <4>1. calls[i].on \subseteq 1 .. opened /\ \E p : calls[i].on \subseteq {p}
        BY <3>1 DEF PoolsInv
      <4>2. calls[i].svc = "redis" => calls[i].on \cap (closed \cup registry["tsdb"]) = {}
        BY <3>1 DEF PoolsInv, NoPool
      <4> QED BY <1>3, <2>1, <3>1, <4>1, <4>2
    <3>2. CASE i \notin Calls
      <4>1. CASE calls'[i].on = {}
        BY <4>1
      <4>2. CASE calls'[i].svc \in Kept /\ calls'[i].on = registry[calls'[i].svc]
        <5>1. calls'[i].on \subseteq 1 .. opened /\ \E p : calls'[i].on \subseteq {p}
          BY <4>2 DEF PoolsInv, Kept
        <5>2. registry["redis"] \cap (closed \cup registry["tsdb"]) = {}
          BY DEF PoolsInv, NoPool
        <5> QED BY <2>1, <4>2, <5>1, <5>2
      <4> QED BY <3>2, <4>1, <4>2 DEF NewCalls
    <3> QED BY <3>1, <3>2
  <2>5. ASSUME NEW i \in Calls', calls'[i].svc = "redis" PROVE NoPool(calls[i].on)'
    BY <1>1, <2>1, <2>4, <2>5 DEF NoPool
  <2>6. closed' \subseteq 1 .. opened' /\ disconnected' \subseteq closed'
    BY <2>1 DEF PoolsInv
  <2> QED BY <1>1, <1>2, <2>1, <2>2, <2>3, <2>4, <2>5, <2>6 DEF PoolsInv
<1> QED BY <1>4, <1>5, <1>6
-----------------------------------------------------------------------------
(* The inductive invariant. *)
ServicesInv == CallsInv /\ WireInv /\ AppliedInv /\ Punctual /\ PoolsInv

LEMMA ServicesStep ==
  ASSUME ServicesInv, [ServicesNext]_servicesVars
  PROVE  ServicesInv'
<1>1. CallsInv /\ WireInv /\ AppliedInv /\ Punctual /\ PoolsInv
  BY DEF ServicesInv
<1>2. CallsInv' /\ Evolve /\ NewCalls /\ Punctual'
  BY <1>1, EveryStepKeepsCalls DEF GoodStep
<1>3. WireStep
  BY <1>1, EveryWireStep
<1>4. NobodyJoins /\ (Opens \/ Closes \/ Forgets)
  BY <1>1, NobodyJoinsEver, EveryPoolStep
<1>5. WireInv'
  BY <1>1, <1>2, <1>3, WireInvStays
<1>6. AppliedInv'
  BY <1>1, <1>2, <1>3, AppliedInvStays
<1>7. PoolsInv'
  BY <1>1, <1>2, <1>4, PoolsInvStays
<1> QED BY <1>2, <1>5, <1>6, <1>7 DEF ServicesInv

LEMMA ServicesStart == ServicesInit => ServicesInv
<1> SUFFICES ASSUME ServicesInit PROVE ServicesInv
  OBVIOUS
<1>1. Calls = {} /\ Len(calls) = 0 /\ ToSet(wire) = {} /\ ToSet(applied) = {} /\ Len(wire) = 0 /\ Len(applied) = 0
  BY DEF ServicesInit, Calls, ToSet
<1>2. ServicesTypeOK
  BY ServicesAssumption DEF ServicesInit, ServicesTypeOK, Kept
<1>3. OneCaller
  BY <1>1 DEF ServicesInit, OneCaller
<1>4. CallsInv
  BY <1>1, <1>2, <1>3 DEF CallsInv, OnItsWay
<1>5. WireInv /\ AppliedInv
  BY <1>1 DEF WireInv, AppliedInv
<1>6. Punctual
  BY DEF ServicesInit, Punctual
<1>7. PoolsInv
  BY <1>1 DEF ServicesInit, PoolsInv, NoPool, Kept
<1> QED BY <1>4, <1>5, <1>6, <1>7 DEF ServicesInv

LEMMA ServicesInvHolds == ServicesSpec => []ServicesInv
<1>1. ServicesInv /\ [ServicesNext]_servicesVars => ServicesInv'
  BY ServicesStep
<1> QED BY <1>1, ServicesStart, PTL DEF ServicesSpec

(* A function that answered with success has taken effect, and before what *)
(* any later call does; a synchronous Redis command also when it ran out   *)
(* of time, unless its pipeline failed and was replaced before it was      *)
(* executed: for every mix of services, any number of calls and connections *)
(* and every limit (redis.rs:127-131, 171-179).                            *)
THEOREM SyncInOrderHolds == ServicesSpec => []SyncInOrder
<1>1. ServicesInv => SyncInOrder
  <2> SUFFICES ASSUME ServicesInv PROVE SyncInOrder
    OBVIOUS
  <2>1. CallsInv /\ AppliedInv
    BY DEF ServicesInv
  <2>2. ASSUME NEW i \in Requests, calls[i].result = "ok" PROVE i \in ToSet(applied)
    <3>1. i \in Calls
      BY DEF Requests
    <3> QED BY <2>1, <2>2, <3>1 DEF CallsInv, Stood
  <2>3. ASSUME NEW k \in DOMAIN applied, NEW l \in DOMAIN applied, k < l, applied[l] < applied[k]
        PROVE  \/ calls[applied[l]].mode = "async"
               \/ /\ calls[applied[l]].result # "ok"
                  /\ calls[applied[l]].svc = "redis" /\ calls[applied[l]].on = calls[applied[k]].on
                       => applied[l] \in severed
    <3>1. l \in 1 .. Len(applied) /\ k \in 1 .. l - 1
      BY <2>1, <2>3, WireFacts
    <3> QED BY <2>1, <2>3, <3>1 DEF AppliedInv, InOrder
  <2> QED BY <2>2, <2>3 DEF SyncInOrder
<1> QED BY <1>1, ServicesInvHolds, PTL

(* The engine waits for a function with a time limit no longer than that,  *)
(* except for mail, Discord's explanations and the SELECT of               *)
(* redis_connect, whatever others hold the lock or the service does        *)
(* (redis.rs:68, 89, 127, discord.rs:87, 103, smtp.rs:134).                *)
THEOREM BlockedAtMostHolds == ServicesSpec => []BlockedAtMost
<1>1. ServicesInv => BlockedAtMost
  <2> SUFFICES ASSUME ServicesInv, caller # 0, calls[caller].svc # "smtp",
                      calls[caller].stage \notin {"reading", "selecting"},
                      NEW t \in calls[caller].limit
               PROVE  blocked <= t
    BY DEF BlockedAtMost
  <2>1. CallsInv /\ InTime(calls[caller]) /\ caller \in Calls /\ blocked \in Nat
    BY DEF ServicesInv, Punctual, CallsInv, OneCaller, ServicesTypeOK
  <2>2. PICK l \in calls[caller].left : blocked + l <= t
    BY <2>1 DEF InTime
  <2>3. calls[caller].left \in Times /\ calls[caller].limit \in Times
    BY <2>1, TypedCall
  <2>4. l \in Nat /\ t \in Nat
    BY <2>3 DEF Times
  <2> QED BY <2>1, <2>2, <2>4
<1> QED BY <1>1, ServicesInvHolds, PTL

(* After timescaledb_disconnect no statement gets a client of that pool    *)
(* any more: neither one that waits nor one whose task has not started yet *)
(* (timescaledb.rs:163-175, 496-511, 415).                                 *)
THEOREM NoClientHolds == ServicesSpec => NoClientAfterDisconnect
<1>1. ServicesInv /\ [ServicesNext]_servicesVars
        => [\A on \in disconnected : Holders(on)' \subseteq Holders(on)]_servicesVars
  <2> SUFFICES ASSUME ServicesInv, [ServicesNext]_servicesVars, NEW on \in disconnected
               PROVE  Holders(on)' \subseteq Holders(on)
    OBVIOUS
  <2>1. CallsInv /\ PoolsInv
    BY DEF ServicesInv
  <2> QED BY <2>1, NobodyJoinsEver, NobodyServed
<1> QED BY <1>1, ServicesInvHolds, PTL DEF ServicesSpec, NoClientAfterDisconnect
-----------------------------------------------------------------------------
(* The first n rows of cols values each, joined: where the values are. *)
RowsJoined(s, cols, n) ==
  LET p == FlattenSeq(SubSeq(s, 1, n))
  IN  /\ Len(p) = n * cols
      /\ \A r \in 1 .. n : \A c \in 1 .. cols : p[(r - 1) * cols + c] = s[r][c]

LEMMA OneMoreRow ==
  ASSUME NEW S, NEW s \in Seq(Seq(S)), NEW cols \in Nat, NEW n \in 0 .. Len(s) - 1,
         Len(s[n + 1]) = cols, RowsJoined(s, cols, n)
  PROVE  RowsJoined(s, cols, n + 1)
<1> DEFINE a == SubSeq(s, 1, n)
           e == s[n + 1]
           p == FlattenSeq(a)
           q == FlattenSeq(SubSeq(s, 1, n + 1))
<1>1. Len(s) \in Nat /\ n \in Nat /\ n + 1 <= Len(s) /\ e \in Seq(S) /\ Len(e) = cols
  OBVIOUS
<1>2. a \in Seq(Seq(S))
  BY <1>1
<1>3. SubSeq(s, 1, n + 1) = Append(a, e)
  BY <1>1
<1>4. q = p \o e /\ p \in Seq(S)
  <2> HIDE DEF a, e
  <2> QED BY <1>1, <1>2, <1>3, FlattenAppend, FlattenType
<1>5. Len(p) = n * cols /\ \A r \in 1 .. n : \A c \in 1 .. cols : p[(r - 1) * cols + c] = s[r][c]
  BY DEF RowsJoined
<1> HIDE DEF a, e, p, q
<1>6. n * cols \in Nat /\ (n + 1) * cols = n * cols + cols
  BY <1>1
<1>7. Len(q) = (n + 1) * cols
  <2>1. Len(q) = Len(p) + Len(e)
    BY <1>1, <1>4, ConcatProperties, Zenon
  <2> QED BY <1>1, <1>5, <1>6, <2>1
<1>8. ASSUME NEW r \in 1 .. n + 1, NEW c \in 1 .. cols
      PROVE  q[(r - 1) * cols + c] = s[r][c]
  <2> DEFINE k == (r - 1) * cols
  <2>1. k \in Nat
    BY <1>1
  <2>2. CASE r = n + 1
    <3>1. k = n * cols
      BY <1>1, <2>2
    <3> HIDE DEF k
    <3>2. Len(p) = k
      BY <1>5, <3>1
    <3>3. k + c \in 1 .. Len(p) + Len(e) /\ ~(k + c <= Len(p)) /\ (k + c) - Len(p) = c
      BY <1>1, <2>1, <3>2
    <3>4. q[k + c] = e[(k + c) - Len(p)]
      <4> DEFINE j == k + c
      <4>1. j \in 1 .. Len(p) + Len(e) /\ ~(j <= Len(p))
        BY <3>3
      <4> HIDE DEF j
      <4>2. q[j] = e[j - Len(p)]
        BY <1>1, <1>4, <4>1
      <4> QED BY <4>2 DEF j
    <3> QED BY <2>2, <3>3, <3>4 DEF k, e
  <2>3. CASE r # n + 1
    <3>1. r \in 1 .. n
      BY <1>1, <2>3
    <3>2. k + cols <= n * cols
      <4>1. k + cols = r * cols
        BY <3>1
      <4>2. r * cols <= n * cols
        BY <1>1, <3>1
      <4> QED BY <4>1, <4>2
    <3>3. p[k + c] = s[r][c]
      BY <1>5, <3>1
    <3> HIDE DEF k
    <3>4. k + c \in 1 .. Len(p)
      BY <1>5, <1>6, <2>1, <3>2
    <3>5. q[k + c] = p[k + c]
      BY <1>1, <1>4, <3>4
    <3> QED BY <3>3, <3>5 DEF k
  <2> QED BY <2>2, <2>3
<1> QED BY <1>7, <1>8 DEF RowsJoined, q

(* Rows of the same length, numbered through: the value in row r and       *)
(* column c is the ((r - 1) * cols + c)-th.                                *)
LEMMA JoinedRows ==
  ASSUME NEW S, NEW s \in Seq(Seq(S)), NEW cols \in Nat,
         \A r \in 1 .. Len(s) : Len(s[r]) = cols
  PROVE  /\ Len(FlattenSeq(s)) = Len(s) * cols
         /\ \A r \in 1 .. Len(s) : \A c \in 1 .. cols :
              FlattenSeq(s)[(r - 1) * cols + c] = s[r][c]
<1> DEFINE Bad == {n \in 0 .. Len(s) : ~RowsJoined(s, cols, n)}
<1>1. Len(s) \in Nat /\ s = SubSeq(s, 1, Len(s))
  OBVIOUS
<1>2. Bad = {}
  <2> SUFFICES ASSUME Bad # {} PROVE FALSE
    OBVIOUS
  <2>1. Bad \subseteq Nat
    OBVIOUS
  <2>2. PICK n \in Bad : \A m \in Bad : n <= m
    <3> HIDE DEF Bad
    <3> QED BY <2>1, LeastNumber, Zenon
  <2>3. n \in Nat /\ n <= Len(s) /\ ~RowsJoined(s, cols, n)
    OBVIOUS
  <2>4. CASE n = 0
    <3>1. SubSeq(s, 1, 0) = <<>>
      OBVIOUS
    <3>2. FlattenSeq(SubSeq(s, 1, 0)) = <<>>
      BY <3>1 DEF FlattenSeq
    <3>3. RowsJoined(s, cols, 0)
      BY <3>2 DEF RowsJoined
    <3> QED BY <2>3, <2>4, <3>3
  <2>5. CASE n # 0
    <3>1. n - 1 \in 0 .. Len(s) - 1 /\ n - 1 + 1 = n /\ n \in 1 .. Len(s) /\ n - 1 \in 0 .. Len(s)
          /\ ~(n <= n - 1)
      BY <1>1, <2>3, <2>5
    <3>2. RowsJoined(s, cols, n - 1)
      BY <2>2, <3>1
    <3>3. Len(s[n]) = cols
      BY <3>1
    <3> HIDE DEF Bad
    <3>4. RowsJoined(s, cols, n - 1 + 1)
      BY <3>1, <3>2, <3>3, OneMoreRow, Zenon
    <3> QED BY <2>3, <3>1, <3>4
  <2> QED BY <2>4, <2>5
<1>3. RowsJoined(s, cols, Len(s))
  <2>1. Len(s) \in 0 .. Len(s)
    BY <1>1
  <2> QED BY <1>2, <2>1
<1> QED BY <1>1, <1>3 DEF RowsJoined
-----------------------------------------------------------------------------
USE SqlAssumption

LEMMA InsertTypes ==
  ASSUME insert \in Inserts
  PROVE  /\ insert.single \in BOOLEAN /\ insert.types \in Seq(STRING)
         /\ insert.rows \in Seq(Seq(LuaValues)) /\ (insert.single => Len(insert.rows) = 1)
  OBVIOUS

(* What a value becomes in a column of a type. *)
LEMMA SameOrRefused ==
  ASSUME NEW v \in LuaValues, NEW type, ToSql(v, type).ok
  PROVE  Same(v, ToSql(v, type).value, type)
<1> DEFINE x == ToSql(v, type)
<1>1. v = <<v[1], v[2]>>
  BY DEF LuaValues
<1>2. type \in Accepted
  <2>1. type \notin Accepted => x = Refusal
    BY DEF ToSql, TextTypes, Accepted
  <2>2. x # Refusal
    BY DEF Refusal
  <2> QED BY <2>1, <2>2
<1>3. CASE v[1] = "float"
  <2>1. CASE type = "FLOAT4"
    BY <1>1, <1>2, <1>3, <2>1 DEF ToSql, Refusal, Stored, Same, SingleOf, TextTypes, Accepted
  <2>2. CASE type = "FLOAT8"
    BY <1>1, <1>2, <1>3, <2>2 DEF ToSql, Refusal, Stored, Same, TextTypes, Accepted
  <2>3. CASE type = "NUMERIC"
    BY <1>1, <1>2, <1>3, <2>3 DEF ToSql, Refusal, Stored, Same, TextTypes, Accepted
  <2>4. CASE type \notin {"FLOAT4", "FLOAT8", "NUMERIC"}
    BY <1>1, <1>2, <1>3, <2>4 DEF ToSql, Refusal, TextTypes, Accepted
  <2> QED BY <2>1, <2>2, <2>3, <2>4
<1>4. CASE v[1] # "float"
  BY <1>1, <1>2, <1>4 DEF ToSql, Refusal, Stored, Same, TextTypes, Accepted
<1> QED BY <1>3, <1>4

(* A statement that was built: its parameters and where they are put are   *)
(* those of the rows.                                                      *)
Statement(i) ==
  IF i.single THEN BuildSingleInsert(Len(i.types), i.rows[1])
  ELSE BuildBatchInsert(Len(i.types), i.rows)

Holds(stmt, rows, cols) ==
  /\ DOMAIN stmt.places = 1 .. Len(rows)
  /\ \A r \in 1 .. Len(rows) : Len(rows[r]) = cols
  /\ \A r \in 1 .. Len(rows) : \A c \in 1 .. cols :
       stmt.params[stmt.places[r][c]] = rows[r][c]

LEMMA SingleHolds ==
  ASSUME NEW cols \in Nat, NEW rows \in Seq(Seq(LuaValues)), Len(rows) = 1,
         BuildSingleInsert(cols, rows[1]).ok
  PROVE  Holds(BuildSingleInsert(cols, rows[1]), rows, cols)
<1> DEFINE row == rows[1]
           stmt == BuildSingleInsert(cols, row)
<1>1. stmt # Refusal
  BY DEF Refusal
<1> HIDE DEF row
<1>2. Len(row) = cols /\ stmt = [ok |-> TRUE, places |-> <<Places(cols, 1)>>, params |-> row]
  BY <1>1 DEF BuildSingleInsert
<1> HIDE DEF stmt
<1>3. stmt.places = <<Places(cols, 1)>> /\ stmt.params = row
  BY <1>2
<1>4. DOMAIN stmt.places = 1 .. 1 /\ stmt.places[1] = Places(cols, 1)
  BY <1>3
<1>5. ASSUME NEW c \in 1 .. cols PROVE stmt.params[stmt.places[1][c]] = row[c]
  <2>1. Places(cols, 1)[c] = c
    BY DEF Places
  <2> QED BY <1>3, <1>4, <2>1
<1>6. \A r \in 1 .. Len(rows) : r = 1
  OBVIOUS
<1> QED BY <1>2, <1>4, <1>5, <1>6 DEF Holds, stmt, row

LEMMA BatchHolds ==
  ASSUME NEW cols \in Nat, NEW rows \in Seq(Seq(LuaValues)),
         BuildBatchInsert(cols, rows).ok
  PROVE  Holds(BuildBatchInsert(cols, rows), rows, cols)
<1> DEFINE stmt == BuildBatchInsert(cols, rows)
           joined == FlattenSeq(rows)
<1>1. DOMAIN rows = 1 .. Len(rows) /\ Len(rows) \in Nat
  OBVIOUS
<1>2. stmt # Refusal
  BY DEF Refusal
<1>3. /\ stmt = [ok |-> TRUE, places |-> [r \in DOMAIN rows |-> Places(cols, r)], params |-> joined]
      /\ \A r \in 1 .. Len(rows) : Len(rows[r]) = cols
  BY <1>1, <1>2 DEF BuildBatchInsert
<1>4. \A r \in 1 .. Len(rows) : \A c \in 1 .. cols : joined[(r - 1) * cols + c] = rows[r][c]
  <2>1. \A r \in 1 .. Len(rows) : Len(rows[r]) = cols
    BY <1>3
  <2> HIDE DEF stmt
  <2> HIDE SqlAssumption
  <2> QED BY ONLY <2>1, rows \in Seq(Seq(LuaValues)), cols \in Nat, JoinedRows
<1> HIDE DEF stmt, joined
<1>5. stmt.places = [r \in 1 .. Len(rows) |-> Places(cols, r)] /\ stmt.params = joined
  BY <1>1, <1>3
<1>6. ASSUME NEW r \in 1 .. Len(rows), NEW c \in 1 .. cols
      PROVE  stmt.params[stmt.places[r][c]] = rows[r][c]
  <2> DEFINE k == (r - 1) * cols + c
  <2>1. stmt.places[r] = Places(cols, r)
    BY <1>5
  <2>2. Places(cols, r)[c] = k
    BY DEF Places
  <2>3. joined[k] = rows[r][c]
    BY <1>4
  <2> HIDE DEF k
  <2> QED BY <1>5, <2>1, <2>2, <2>3
<1>7. DOMAIN stmt.places = 1 .. Len(rows)
  BY <1>5
<1> QED BY <1>3, <1>6, <1>7 DEF Holds, stmt

LEMMA StatementHolds ==
  ASSUME insert \in Inserts, Statement(insert).ok
  PROVE  Holds(Statement(insert), insert.rows, Len(insert.types))
<1>1. /\ Len(insert.types) \in Nat /\ insert.rows \in Seq(Seq(LuaValues))
      /\ insert.single => Len(insert.rows) = 1
  BY InsertTypes
<1>2. CASE insert.single
  BY <1>1, <1>2, SingleHolds DEF Statement
<1>3. CASE ~insert.single
  BY <1>1, <1>3, BatchHolds DEF Statement
<1> QED BY <1>2, <1>3

(* A statement that was executed stored every cell. *)
LEMMA Executed ==
  ASSUME NEW stmt, NEW types, ExecuteSql(stmt, types).ok
  PROVE  /\ ExecuteSql(stmt, types).rows =
              [r \in DOMAIN stmt.places |-> [c \in DOMAIN types |->
                 ToSql(stmt.params[stmt.places[r][c]], types[c]).value]]
         /\ \A r \in DOMAIN stmt.places : \A c \in DOMAIN types :
              ToSql(stmt.params[stmt.places[r][c]], types[c]).ok
<1>1. ExecuteSql(stmt, types) # Refusal
  BY DEF Refusal
<1> QED BY <1>1 DEF ExecuteSql

LEMMA RowsStep ==
  ASSUME insert \in Inserts, RowsStored, [RunInsert]_sqlVars
  PROVE  insert' \in Inserts /\ RowsStored'
<1>1. CASE UNCHANGED sqlVars
  BY <1>1 DEF sqlVars, RowsStored
<1>2. CASE RunInsert
  <2> DEFINE stmt == Statement(insert)
             types == insert.types
             rows == insert.rows
             n == Len(types)
  <2>1. insert' = insert /\ table' = {IF stmt.ok THEN ExecuteSql(stmt, types) ELSE Refusal}
    BY <1>2 DEF RunInsert, Statement
  <2>2. types \in Seq(STRING) /\ rows \in Seq(Seq(LuaValues))
    BY InsertTypes
  <2> HIDE DEF stmt, types, rows
  <2>3. ASSUME NEW t \in table', t.ok
        PROVE  /\ Len(t.rows) = Len(rows)
               /\ \A r \in DOMAIN t.rows :
                    /\ Len(rows[r]) = n
                    /\ \A c \in DOMAIN types : Same(rows[r][c], t.rows[r][c], types[c])
    <3>1. t # Refusal
      BY <2>3 DEF Refusal
    <3>2. stmt.ok /\ t = ExecuteSql(stmt, types)
      BY <2>1, <3>1
    <3>3. Holds(stmt, rows, n)
      BY <3>2, StatementHolds DEF stmt, rows, types
    <3>4. /\ t.rows = [r \in DOMAIN stmt.places |-> [c \in DOMAIN types |->
                        ToSql(stmt.params[stmt.places[r][c]], types[c]).value]]
          /\ \A r \in DOMAIN stmt.places : \A c \in DOMAIN types :
               ToSql(stmt.params[stmt.places[r][c]], types[c]).ok
      BY <2>3, <3>2, Executed
    <3>5. /\ DOMAIN stmt.places = 1 .. Len(rows) /\ Len(rows) \in Nat
          /\ DOMAIN types = 1 .. n /\ n \in Nat
      BY <2>2, <3>3 DEF Holds
    <3>6. Len(t.rows) = Len(rows) /\ DOMAIN t.rows = 1 .. Len(rows)
      BY <3>4, <3>5
    <3>7. ASSUME NEW r \in 1 .. Len(rows), NEW c \in 1 .. n
          PROVE  Same(rows[r][c], t.rows[r][c], types[c])
      <4>1. stmt.params[stmt.places[r][c]] = rows[r][c] /\ Len(rows[r]) = n
        BY <3>3 DEF Holds
      <4>2. rows[r][c] \in LuaValues
        BY <2>2, <4>1
      <4>3. t.rows[r] = [d \in DOMAIN types |-> ToSql(stmt.params[stmt.places[r][d]], types[d]).value]
        BY <3>4, <3>5
      <4>4. c \in DOMAIN types /\ r \in DOMAIN stmt.places
        BY <3>5
      <4>5. t.rows[r][c] = ToSql(rows[r][c], types[c]).value
        BY <4>1, <4>3, <4>4
      <4>6. ToSql(rows[r][c], types[c]).ok
        BY <3>4, <4>1, <4>4
      <4> QED BY <4>2, <4>5, <4>6, SameOrRefused
    <3>8. ASSUME NEW r \in 1 .. Len(rows) PROVE Len(rows[r]) = n
      BY <3>3 DEF Holds
    <3> QED BY <3>5, <3>6, <3>7, <3>8
  <2>4. insert'.rows = rows /\ insert'.types = types /\ insert' \in Inserts
    BY <2>1 DEF rows, types
  <2> QED BY <2>3, <2>4 DEF RowsStored
<1> QED BY <1>1, <1>2

(* An insert stores the rows as given or nothing, for every number of      *)
(* columns, rows and parameters, every width of the integer types and      *)
(* every Lua value (timescaledb.rs:38-127, 306-394).                       *)
THEOREM RowsStoredHolds == SqlSpec => []RowsStored
<1>1. SqlInit => insert \in Inserts /\ RowsStored
  BY DEF SqlInit, RowsStored
<1>2. (insert \in Inserts /\ RowsStored) /\ [RunInsert]_sqlVars => (insert \in Inserts /\ RowsStored)'
  BY RowsStep
<1> QED BY <1>1, <1>2, PTL DEF SqlSpec
=============================================================================
