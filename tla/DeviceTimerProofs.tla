-------------------------- MODULE DeviceTimerProofs --------------------------
(***************************************************************************)
(* Proofs about DeviceTimer for ticks of any width.                         *)
(*                                                                         *)
(* TimerInv is inductive: TimerExact holds because the time and the time    *)
(* due are never half a range apart (Near), which takes a turn of the loop  *)
(* every MaxGap and that a timer still armed was not due then (Ahead).      *)
(***************************************************************************)
EXTENDS DeviceTimer, TLAPS

\* The deadline is the time due, in ticks.
Wrapped == armed => deadline = due % Ticks

\* Timers do not outlive a connection.
Dropped == pc = "accept" => ~armed

\* A turn of the loop is never long ago.
Recent ==
  /\ looked <= now
  /\ pc # "accept" => now - looked <= MaxGap
  /\ pc \in {"touch", "touched", "timer", "callback"} => looked = now

\* After the turn, what is armed is not due yet; in a turn it may be, but not
\* since long.
Ahead == pc \in {"serving", "callback"} /\ armed => due >= looked
Near == armed => due - now <= Half /\ now - due <= MaxGap

TimerInv == TypeOK /\ Wrapped /\ Dropped /\ Recent /\ Ahead /\ Near
-----------------------------------------------------------------------------
\* Division with remainder.
LEMMA DivMod ==
  ASSUME NEW T \in Nat \ {0}, NEW a \in Int
  PROVE  a % T \in 0..(T - 1) /\ \E k \in Int : a = k * T + (a % T)
<1>1. a = (a \div T) * T + (a % T) /\ a \div T \in Int
  BY Z3
<1>2. a % T \in 0..(T - 1)
  BY Z3
<1> QED
  BY <1>1, <1>2

\* Only the remainder counts.
LEMMA Remainder ==
  ASSUME NEW T \in Nat \ {0}, NEW x \in 0..(T - 1), NEW k \in Int
  PROVE  (k * T + x) % T = x
BY Z3

\* Adding ticks and adding times come to the same tick.
LEMMA AddTicks ==
  ASSUME NEW T \in Nat \ {0}, NEW a \in Int, NEW b \in Int
  PROVE  ((a % T) + b) % T = (a + b) % T
<1> DEFINE x == a % T
           y == (x + b) % T
<1>1. x \in Int /\ y \in 0..(T - 1)
  BY DivMod
<1>2. PICK i \in Int : a = i * T + x
  BY DivMod
<1>3. PICK j \in Int : x + b = j * T + y
  <2>1. x + b \in Int
    BY <1>1
  <2> QED
    BY <2>1, DivMod
<1> HIDE DEF x, y
<1>4. (i + j) * T = i * T + j * T /\ i * T \in Int /\ j * T \in Int /\ i + j \in Int
  BY Z3
<1>5. a + b = (i + j) * T + y
  BY <1>1, <1>2, <1>3, <1>4, Z3
<1>6. ((i + j) * T + y) % T = y
  BY <1>1, <1>4, Remainder
<1> QED
  BY <1>5, <1>6 DEF x, y

\* The wrapped difference of two times less than half a range apart.
LEMMA WrappedDifference ==
  ASSUME NEW H \in Nat \ {0}, NEW a \in Int, NEW b \in Int, b - a <= H, a - b < H
  PROVE  (((a % (2 * H)) - (b % (2 * H))) % (2 * H) < H) <=> a >= b
<1> DEFINE T == 2 * H
           x == a % T
           y == b % T
<1>1. T \in Nat \ {0}
  OBVIOUS
<1>2. PICK i \in Int : a = i * T + x
  BY <1>1, DivMod
<1>3. PICK j \in Int : b = j * T + y
  BY <1>1, DivMod
<1>4. x \in Int /\ y \in Int
  BY <1>1, DivMod
<1>5. (j - i) * T + (a - b) = x - y /\ (j - i - 1) * T + (a - b + T) = x - y
  <2> HIDE DEF x, y, T
  <2>1. (j - i) * T = j * T - i * T /\ (j - i - 1) * T = j * T - i * T - T
    BY <1>1, Z3
  <2>2. i * T \in Int /\ j * T \in Int
    BY <1>1, Z3
  <2> QED
    BY <1>1, <1>2, <1>3, <1>4, <2>1, <2>2, Z3
<1>6. CASE a >= b
  <2>1. a - b \in 0..(T - 1)
    BY <1>6
  <2> HIDE DEF x, y, T
  <2>2. (x - y) % T = a - b
    BY <1>1, <1>5, <2>1, Remainder
  <2> QED
    BY <1>6, <2>2 DEF x, y, T
<1>7. CASE a < b
  <2>1. a - b + T \in H..(T - 1)
    BY <1>7
  <2>2. a - b + T \in 0..(T - 1)
    BY <2>1
  <2> HIDE DEF x, y, T
  <2>3. (x - y) % T = a - b + T
    BY <1>1, <1>5, <2>2, Remainder
  <2> QED
    BY <1>7, <2>1, <2>3 DEF x, y, T
<1> QED
  BY <1>6, <1>7
-----------------------------------------------------------------------------
\* The comparison of compat_device_loop is right whenever the bounds hold.
LEMMA ExpiredExact == TypeOK /\ Wrapped /\ Near => TimerExact
<1> SUFFICES ASSUME TypeOK, Wrapped, Near, armed PROVE Expired <=> now >= due
  BY DEF TimerExact
<1>1. now \in Int /\ due \in Int /\ due - now <= Half /\ now - due < Half
  BY TimerAssumption DEF TypeOK, Near
<1>2. Half \in Nat \ {0}
  BY TimerAssumption
<1>3. deadline = due % (2 * Half)
  BY DEF Wrapped, Ticks
<1> QED
  BY <1>1, <1>2, <1>3, WrappedDifference DEF Expired, Tick, Ticks

\* A timer that is set later in the same turn is not due before the turn.
LEMMA DeadlineWraps ==
  ASSUME TypeOK, NEW ms \in Timeouts
  PROVE  Deadline(ms) = (now + ms) % Ticks /\ Deadline(ms) \in 0..(Ticks - 1)
<1>1. Ticks \in Nat \ {0} /\ now \in Int /\ ms \in Int
  BY TimerAssumption DEF TypeOK, Ticks
<1>2. Deadline(ms) = (now + ms) % Ticks
  BY <1>1, AddTicks DEF Deadline, Tick
<1>3. (now + ms) % Ticks \in 0..(Ticks - 1)
  <2>1. now + ms \in Int
    BY <1>1
  <2> QED
    BY <1>1, <2>1, DivMod
<1> QED
  BY <1>2, <1>3

\* The invariant holds at first: nothing is armed.
LEMMA TimerInit == Init => TimerInv
<1> SUFFICES ASSUME Init PROVE TimerInv
  OBVIOUS
<1>1. TypeOK
  <2>1. now \in Nat /\ looked \in Nat
    BY TimerAssumption DEF Init
  <2>2. deadline \in 0..(Ticks - 1)
    BY TimerAssumption DEF Init, Ticks
  <2>3. signals \in Nat /\ taken \in 0..signals /\ given \in Nat
    BY DEF Init
  <2> QED
    BY <2>1, <2>2, <2>3 DEF Init, TypeOK
<1>2. pc = "accept" /\ armed = FALSE /\ looked = now /\ now \in Nat
  BY TimerAssumption DEF Init
<1> QED
  BY <1>1, <1>2 DEF TimerInv, Wrapped, Dropped, Recent, Ahead, Near

\* Every step keeps the invariant.
LEMMA TimerStep == TimerInv /\ [Next]_vars => TimerInv'
<1> SUFFICES ASSUME TimerInv, [Next]_vars PROVE TimerInv'
  OBVIOUS
<1> USE TimerAssumption
<1> USE DEF TimerInv, TypeOK, Wrapped, Dropped, Recent, Ahead, Near, timer, touching
<1>1. ASSUME NEW ms \in Timeouts, SetTimeout(ms) PROVE TimerInv'
  <2>1. deadline' = due' % Ticks /\ deadline' \in 0..(Ticks - 1)
    BY <1>1, DeadlineWraps DEF SetTimeout
  <2>2. ms \in Nat /\ ms <= Half
    OBVIOUS
  <2> QED
    BY <1>1, <2>1, <2>2 DEF SetTimeout
<1>2. ASSUME SigInt PROVE TimerInv'
  BY <1>2 DEF SigInt
<1>3. ASSUME Accept PROVE TimerInv'
  BY <1>3 DEF Accept
<1>4. ASSUME LoopStart PROVE TimerInv'
  <2>1. pc = "serving" /\ pc' \in {"touch", "timer"} /\ looked' = now /\ now' = now
         /\ UNCHANGED timer /\ UNCHANGED <<signals, given>>
    BY <1>4 DEF LoopStart
  <2>2. touch' \in BOOLEAN
    BY <1>4 DEF LoopStart
  <2>3. taken' \in 0..signals
    <3>1. taken' \in {taken, signals}
      BY <1>4 DEF LoopStart
    <3> QED
      BY <3>1
  <2>4. TypeOK'
    BY <2>1, <2>2, <2>3
  <2>5. armed => now - due <= MaxGap
    OBVIOUS
  <2> QED
    BY <2>1, <2>4, <2>5
<1>5. ASSUME Touch PROVE TimerInv'
  BY <1>5 DEF Touch
<1>6. ASSUME TouchDone PROVE TimerInv'
  BY <1>6 DEF TouchDone, FlagAfterTouch
<1>7. ASSUME Fire PROVE TimerInv'
  BY <1>7 DEF Fire
<1>8. ASSUME NothingDue PROVE TimerInv'
  <2>1. armed => now < due
    BY <1>8, ExpiredExact DEF NothingDue, TimerExact
  <2> QED
    BY <1>8, <2>1 DEF NothingDue
<1>9. ASSUME CallbackReturns PROVE TimerInv'
  BY <1>9 DEF CallbackReturns, ArmedAfterCallback
<1>10. ASSUME Disconnect PROVE TimerInv'
  BY <1>10 DEF Disconnect
<1>11. ASSUME NEW d \in 1..MaxNow, TimePasses(d) PROVE TimerInv'
  BY <1>11 DEF TimePasses
<1>12. ASSUME UNCHANGED vars PROVE TimerInv'
  BY <1>12 DEF vars
<1> QED
  BY <1>1, <1>2, <1>3, <1>4, <1>5, <1>6, <1>7, <1>8, <1>9, <1>10, <1>11, <1>12 DEF Next

\* The timer of compat_device_loop never fires early and never misses its time,
\* for ticks of any width and however often they overflow, as long as the loop
\* turns every MaxGap.
THEOREM TimerRight == Spec => []TimerExact
<1>1. TimerInv => TimerExact
  BY ExpiredExact DEF TimerInv
<1> QED
  BY TimerInit, TimerStep, <1>1, PTL DEF Spec

\* Type correctness: ticks stay within their width while the time grows.
THEOREM TypeCorrect == Spec => []TypeOK
<1>1. TimerInv => TypeOK
  BY DEF TimerInv
<1> QED
  BY TimerInit, TimerStep, <1>1, PTL DEF Spec

LEMMA Kept == Spec => [](TimerKept /\ TouchKept)
<1> DEFINE Both == TimerKept /\ TouchKept
<1>1. Init => Both
  BY DEF Init, TimerKept, TouchKept
<1>2. Both /\ TypeOK /\ TypeOK' /\ [Next]_vars => Both'
  <2> SUFFICES ASSUME Both, TypeOK, TypeOK', [Next]_vars PROVE Both'
    OBVIOUS
  <2>1. TimerKept'
    BY DEF Next, vars, timer, touching, TimerKept, SetTimeout, SigInt, Accept, LoopStart,
       Touch, TouchDone, Fire, NothingDue, CallbackReturns, ArmedAfterCallback, Disconnect,
       TimePasses
  <2> SUFFICES TouchKept'
    BY <2>1
  <2>2. signals \in Nat /\ taken \in 0..signals /\ given \in Nat
    BY DEF TypeOK
  <2> USE DEF touching, TouchKept
  <2>3. CASE SigInt
    BY <2>2, <2>3 DEF SigInt
  <2>4. CASE LoopStart
    <3>1. CASE touch
      BY <2>2, <2>4, <3>1 DEF LoopStart
    <3>2. CASE ~touch
      BY <2>2, <2>4, <3>2 DEF LoopStart
    <3> QED
      BY <3>1, <3>2
  <2>5. CASE Touch
    BY <2>2, <2>5 DEF Touch
  <2>6. CASE TouchDone
    BY <2>2, <2>6 DEF TouchDone, FlagAfterTouch
  <2>7. ASSUME UNCHANGED touching, pc # "touch" /\ pc' # "touch" PROVE TouchKept'
    BY <2>2, <2>7
  <2>8. CASE UNCHANGED vars
    BY <2>2, <2>8 DEF vars
  <2>9. CASE \E d \in 1..MaxNow : TimePasses(d)
    BY <2>7, <2>9 DEF TimePasses
  <2>10. CASE \E ms \in Timeouts : SetTimeout(ms)
    BY <2>7, <2>10 DEF SetTimeout
  <2>11. CASE Accept \/ Fire \/ NothingDue \/ CallbackReturns \/ Disconnect
    BY <2>7, <2>11 DEF Accept, Fire, NothingDue, CallbackReturns, Disconnect
  <2> QED
    BY <2>3, <2>4, <2>5, <2>6, <2>8, <2>9, <2>10, <2>11 DEF Next
<1> QED
  BY <1>1, <1>2, TypeCorrect, PTL DEF Spec

\* A timer set by the callback of the last one is kept, wherever signals come.
THEOREM NoTimerForgotten == Spec => []TimerKept
BY Kept, PTL

\* A signal waits in the flag until a turn of the loop takes it up, whichever way
\* signals and turns interleave, and no touch is made of nothing.
THEOREM NoTouchForgotten == Spec => []TouchKept
BY Kept, PTL
=============================================================================
