---------------------------- MODULE HighResDelay ----------------------------
(***************************************************************************)
(* A reusable delay (delay.rs): a one-shot operating system timer, and the *)
(* future that waits for it.  The future may be abandoned while it waits,  *)
(* and the timer is then used again.                                       *)
(*                                                                         *)
(* On Linux the timer is a timerfd behind tokio's AsyncFd, which remembers *)
(* that the descriptor was readable until somebody clears that; reading    *)
(* and clearing are steps of the waiting task, between which the kernel    *)
(* and the reactor run.  On Windows it is an auto-reset waitable timer     *)
(* with a registered callback.  Elsewhere tokio's sleep is used.           *)
(***************************************************************************)
EXTENDS Naturals

CONSTANTS
  MaxNow,      \* bound on the clock
  Threshold    \* HIGH_RES_THRESHOLD (1000 ms), in ticks of the clock

ASSUME HighResDelayAssumption ==
  MaxNow \in Nat /\ Threshold \in Nat

VARIABLES
  platform,    \* where the program runs
  clock,         \* the monotonic clock
  armed,       \* when the timer expires, 0 if it is not set
  expired,     \* it has expired, and nobody has consumed that
  edge,        \* an event of the timer that the reactor has not seen
  ready,       \* AsyncFd remembers the descriptor as readable
  fresh,       \* ... because of an event since the guard was taken
  registered,  \* Windows: the callback is registered with the timer
  stage,       \* how far the delay has come
  until,       \* when the delay should end
  left,        \* a delay was left with its timer set: abandoned, or its wait failed
  early        \* a delay whose wait did not fail ended before its time

osVars    == <<armed, expired, edge, ready, fresh, registered>>
pastVars  == <<left, early>>
timerVars == <<platform, clock, osVars, stage, until, pastVars>>

TimerTypeOK ==
  /\ platform \in {"linux", "windows", "other"}
  /\ clock \in 0 .. MaxNow
  /\ armed \in Nat /\ until \in Nat
  /\ expired \in BOOLEAN /\ edge \in BOOLEAN /\ ready \in BOOLEAN
  /\ fresh \in BOOLEAN /\ registered \in BOOLEAN
  /\ stage \in {"idle", "wait", "guard", "clear", "fired", "sleep"}
  /\ left \in BOOLEAN /\ early \in BOOLEAN

TimerInit ==
  /\ platform \in {"linux", "windows", "other"}
  /\ clock = 0 /\ armed = 0 /\ until = 0 /\ stage = "idle"
  /\ expired = FALSE /\ edge = FALSE /\ ready = FALSE /\ fresh = FALSE
  /\ registered = FALSE
  /\ left = FALSE /\ early = FALSE
-----------------------------------------------------------------------------
(* HighResTimer::set_timer, then wait up to its await.  Setting a timer    *)
(* forgets an earlier expiration; on Windows the callback is registered.   *)
SetTimer(d) ==
  /\ armed' = clock + d /\ expired' = FALSE
  /\ registered' = (platform = "windows")
  /\ stage' = "wait"
  /\ UNCHANGED <<edge, ready, fresh>>

(* HighResDelay::delay: the timer for a short delay, unless there is none  *)
(* or it cannot be set.  A delay of zero is over at once.                  *)
Delay(d) ==
  /\ stage = "idle" /\ d > 0
  /\ until' = clock + d
  /\ \/ d <= Threshold /\ platform # "other" /\ SetTimer(d)
     \/ stage' = "sleep" /\ UNCHANGED osVars
  /\ UNCHANGED <<platform, clock, pastVars>>

Return ==
  /\ stage' = "idle"
  /\ early' = (early \/ clock < until)
  /\ UNCHANGED <<platform, clock, until, left>>

(* Linux: readable().await ends as soon as the descriptor is remembered as *)
(* readable; then the expiration is read, which may find none (EAGAIN);    *)
(* then the readiness seen is cleared, but not a more recent one.          *)
Readable ==
  /\ stage = "wait" /\ ready
  /\ stage' = "guard" /\ fresh' = FALSE
  /\ UNCHANGED <<platform, clock, armed, expired, edge, ready, registered, until, pastVars>>

Read ==
  /\ stage = "guard" /\ stage' = "clear"
  /\ expired' = FALSE
  /\ UNCHANGED <<platform, clock, armed, edge, ready, fresh, registered, until, pastVars>>

ClearNothing ==             \* mutant: the readiness is not cleared
  /\ stage = "clear" /\ Return
  /\ UNCHANGED osVars

ClearReady ==
  /\ stage = "clear" /\ Return
  /\ ready' = (ready /\ fresh)
  /\ UNCHANGED <<armed, expired, edge, fresh, registered>>

(* Windows: the callback has sent on its channel and the waiter returns. *)
Signalled ==
  /\ stage = "fired" /\ Return /\ UNCHANGED osVars

SleepOver ==
  /\ stage = "sleep" /\ clock >= until
  /\ Return /\ UNCHANGED osVars

(* HighResTimer::wait fails; the delay is over, and only a line of the     *)
(* debug log tells (delay.rs:408-412).                                     *)
WaitFails ==
  /\ stage = "wait" /\ stage' = "idle"
  /\ left' = TRUE /\ registered' = FALSE
  /\ UNCHANGED <<platform, clock, armed, expired, edge, ready, fresh, until, early>>
-----------------------------------------------------------------------------
(* The operating system's and the runtime's part. *)
Expire ==
  /\ armed # 0 /\ armed <= clock
  /\ armed' = 0 /\ expired' = TRUE /\ edge' = (platform = "linux")
  /\ UNCHANGED <<platform, clock, ready, fresh, registered, stage, until, pastVars>>

(* The reactor passes an event on if the descriptor is still readable. *)
Reactor ==
  /\ edge /\ edge' = FALSE
  /\ ready' = (ready \/ expired) /\ fresh' = (fresh \/ expired)
  /\ UNCHANGED <<platform, clock, armed, expired, registered, stage, until, pastVars>>

(* wait_callback, once per registration; it consumes the expiration. *)
Callback ==
  /\ registered /\ expired
  /\ registered' = FALSE /\ expired' = FALSE
  /\ stage' = IF stage = "wait" THEN "fired" ELSE stage
  /\ UNCHANGED <<platform, clock, armed, edge, ready, fresh, until, pastVars>>

Pass ==
  /\ clock < MaxNow /\ clock' = clock + 1
  /\ UNCHANGED <<platform, osVars, stage, until, pastVars>>

(* HighResDelay::disarm: stops the timer, forgets its expiration, and on   *)
(* Windows unregisters the callback.  What AsyncFd remembers stays.        *)
Disarm ==
  \/ /\ platform # "other"
     /\ armed' = 0 /\ expired' = FALSE /\ registered' = FALSE
     /\ UNCHANGED <<edge, ready, fresh>>
  \/ platform = "other" /\ UNCHANGED osVars

(* The future is dropped at its await, and the timer disarmed. *)
Abandon ==
  /\ stage \in {"wait", "fired", "sleep"}
  /\ stage' = "idle" /\ left' = TRUE
  /\ Disarm
  /\ UNCHANGED <<platform, clock, until, early>>

(* A poll of the waiting future. *)
Poll == Readable \/ Read \/ ClearReady \/ Signalled \/ SleepOver

(* Any client: delays of any length, any of them abandoned. *)
TimerNext ==
  \/ \E d \in 1 .. MaxNow : Delay(d)
  \/ Abandon \/ WaitFails \/ Poll \/ Expire \/ Reactor \/ Callback \/ Pass

TimerSpec == TimerInit /\ [][TimerNext]_timerVars
-----------------------------------------------------------------------------
(* Unless waiting for the timer fails, a delay ends before its time only   *)
(* on Linux, and only after some delay of the same instance was left with  *)
(* its timer set: the readiness that one leaves behind ends the next,      *)
(* whose own timer keeps running and may do the same to the one after it   *)
(* (delay.rs:72-86).  A client that never abandons a delay (a repeating    *)
(* batch) sees none end early, and no client does on other platforms.      *)
EarlyOnlyAfterLeft == early => platform = "linux" /\ left
=============================================================================
