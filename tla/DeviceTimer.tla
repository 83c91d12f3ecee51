----------------------------- MODULE DeviceTimer -----------------------------
(***************************************************************************)
(* What compat_device_loop of Src/rust_adapter.inc does before it runs the  *)
(* firmware: it turns a SIGINT into a simulated touch, and calls back the   *)
(* firmware when the timer set by device_set_timeout is due.  Both are read *)
(* and written by parties that do not wait for each other: a signal handler *)
(* that may run at any moment, and the callback, which may set the next     *)
(* timer.  Ticks are milliseconds in 32 bits, which overflow after 50 days. *)
(*                                                                         *)
(* External: device_get_tick (now modulo Ticks) and the firmware.           *)
(***************************************************************************)
EXTENDS Integers

CONSTANTS
  Half,      \* 2^31, half the range of a tick
  Timeouts,  \* milliseconds that device_set_timeout is called with
  MaxGap,    \* the longest time between two turns of compat_device_loop
  MaxNow,    \* bound: the time the model ends
  MaxSignals \* bound: how many signals come

Ticks == 2 * Half

ASSUME TimerAssumption ==
  /\ Half \in Nat \ {0}
  /\ Timeouts \subseteq 0..Half
  /\ MaxGap \in 0..(Half - 1)
  /\ MaxNow \in Nat
  /\ MaxSignals \in Nat

VARIABLES
  pc,        \* "accept": no client; "serving"; "touch", "touched", "timer",
             \* "callback": inside compat_device_loop
  now,       \* the time, in milliseconds
  looked,    \* history: when compat_device_loop ran last
  armed,     \* rust_timer # NULL
  deadline,  \* rust_deadline
  due,       \* history: the time meant by device_set_timeout
  touch,     \* rust_touch_requested
  signals,   \* history: how many signals came
  taken,     \* history: how many of them a turn of the loop has taken up
  given,     \* history: how many touches the firmware got
  waits      \* history: a timer was set and neither fired nor dropped

timer == <<armed, deadline, due, waits>>
touching == <<touch, signals, taken, given>>
vars == <<pc, now, looked, timer, touching>>

TypeOK ==
  /\ pc \in {"accept", "serving", "touch", "touched", "timer", "callback"}
  /\ now \in Nat
  /\ looked \in Nat
  /\ armed \in BOOLEAN
  /\ deadline \in 0..(Ticks - 1)
  /\ due \in Nat
  /\ touch \in BOOLEAN
  /\ signals \in Nat
  /\ taken \in 0..signals
  /\ given \in Nat
  /\ waits \in BOOLEAN

Init ==
  /\ pc = "accept"
  /\ now \in 0..MaxNow
  /\ looked = now
  /\ armed = FALSE
  /\ deadline = 0
  /\ due = 0
  /\ touch = FALSE
  /\ signals = 0
  /\ taken = 0
  /\ given = 0
  /\ waits = FALSE
-----------------------------------------------------------------------------
Tick == now % Ticks

\* Mutant: the ticks are compared as they are.
ExpiredUnsigned == Tick >= deadline

\* (int32_t)(device_get_tick() - rust_deadline) >= 0
Expired == (Tick - deadline) % Ticks < Half

\* Mutant: the deadline is kept in more bits than a tick.
DeadlineUnwrapped(ms) == Tick + ms

\* device_get_tick() + milliseconds
Deadline(ms) == (Tick + ms) % Ticks

\* The firmware sets the timer, in any call or in the callback of the last one.
SetTimeout(ms) ==
  /\ pc \in {"serving", "callback"}
  /\ armed' = TRUE
  /\ deadline' = Deadline(ms)
  /\ due' = now + ms
  /\ waits' = TRUE
  /\ UNCHANGED <<pc, now, looked, touching>>

\* The SIGINT of the touch helper: a flag, which cannot count.
SigInt ==
  /\ signals < MaxSignals
  /\ touch' = TRUE
  /\ signals' = signals + 1
  /\ UNCHANGED <<pc, now, looked, timer, taken, given>>

Accept ==
  /\ pc = "accept"
  /\ pc' = "serving"
  /\ looked' = now
  /\ UNCHANGED <<now, timer, touching>>

\* compat_device_loop begins: the flag is cleared, and with it every signal so
\* far is taken up, before the touch is passed on.
LoopStart ==
  /\ pc = "serving"
  /\ looked' = now
  /\ IF touch THEN pc' = "touch" /\ touch' = FALSE /\ taken' = signals
              ELSE pc' = "timer" /\ UNCHANGED <<touch, taken>>
  /\ UNCHANGED <<now, timer, signals, given>>

\* The firmware gets the touch with the presence file.  If that cannot be
\* opened the touch is lost: nobody sets the flag again.
Touch ==
  /\ pc = "touch"
  /\ pc' = "touched"
  /\ \/ given' = given + 1
     \/ UNCHANGED given
  /\ UNCHANGED <<now, looked, timer, touch, signals, taken>>

\* Mutant: the flag is cleared once the touch was passed on.
FlagAfterTouchCleared == FALSE

FlagAfterTouch == touch

TouchDone ==
  /\ pc = "touched"
  /\ pc' = "timer"
  /\ touch' = FlagAfterTouch
  /\ UNCHANGED <<now, looked, timer, signals, taken, given>>

\* The timer is cleared before the callback, which may set it again.
Fire ==
  /\ pc = "timer"
  /\ armed /\ Expired
  /\ armed' = FALSE
  /\ waits' = FALSE
  /\ pc' = "callback"
  /\ UNCHANGED <<now, looked, deadline, due, touching>>

NothingDue ==
  /\ pc = "timer"
  /\ ~(armed /\ Expired)
  /\ pc' = "serving"
  /\ UNCHANGED <<now, looked, timer, touching>>

\* Mutant: the timer is cleared after the callback.
ArmedAfterCallbackCleared == FALSE

ArmedAfterCallback == armed

CallbackReturns ==
  /\ pc = "callback"
  /\ pc' = "serving"
  /\ armed' = ArmedAfterCallback
  /\ UNCHANGED <<now, looked, deadline, due, waits, touching>>

\* rust_disconnect drops the timer; a touch stays for the next client.  The
\* ck_usb_boot_reset that follows is taken to set no timer.
Disconnect ==
  /\ pc = "serving"
  /\ pc' = "accept"
  /\ armed' = FALSE
  /\ waits' = FALSE
  /\ UNCHANGED <<now, looked, deadline, due, touching>>

\* A connection is served at least every MaxGap; between connections any time
\* may pass.
TimePasses(d) ==
  /\ pc \in {"serving", "accept"}
  /\ now + d <= MaxNow
  /\ pc = "serving" => now + d - looked <= MaxGap
  /\ now' = now + d
  /\ UNCHANGED <<pc, looked, timer, touching>>

Next ==
  \/ \E ms \in Timeouts : SetTimeout(ms)
  \/ SigInt \/ Accept \/ LoopStart \/ Touch \/ TouchDone \/ Fire \/ NothingDue
  \/ CallbackReturns \/ Disconnect
  \/ \E d \in 1..MaxNow : TimePasses(d)

Spec == Init /\ [][Next]_vars
-----------------------------------------------------------------------------
(* Correctness.                                                            *)

\* The comparison of wrapped ticks is right, before and after an overflow of
\* either side: the timer looks expired exactly when its time has come.
TimerExact == armed => (Expired <=> now >= due)

\* A timer the firmware set is armed until it fires or the connection ends, the
\* one its callback sets included.
TimerKept == waits => armed

\* Whenever it comes, a signal waits in the flag until one turn of
\* compat_device_loop takes it up, and the flag is set for nothing else.  Signals
\* found together share one touch, so the firmware never gets more touches than
\* there were signals, the one on its way included.
TouchKept ==
  /\ touch <=> taken < signals
  /\ given + (IF pc = "touch" THEN 1 ELSE 0) <= taken
=============================================================================
