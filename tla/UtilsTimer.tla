----------------------------- MODULE UtilsTimer -----------------------------
(***************************************************************************)
(* The millisecond timers of utils_timer.c over a clock that wraps.        *)
(* esp_log_timestamp counts in an unsigned word of Word values; a timer    *)
(* stores the word at which it expires and every question is answered by   *)
(* wrap-around subtraction.                                                *)
(*                                                                         *)
(* One timer is followed: its owner arms it, asks it, arms it again, while *)
(* time passes.  iotx_time_left reads the clock twice, and time may pass   *)
(* between the two reads.  "elapsed" is the true time since the timer was  *)
(* armed, which the program does not know.                                 *)
(***************************************************************************)
EXTENDS Integers

CONSTANTS
  Word,         \* 2^32 in the code: UINT32_MAX + 1
  MaxDelay,     \* longest countdown anybody arms (180 s in the code)
  MaxUnasked    \* bound: how long after its expiry a timer is still asked

Half == (Word - 1) \div 2      \* UINT32_MAX / 2

ASSUME UtilsTimerAssumption ==
  /\ Word \in Nat /\ Word > 2
  /\ MaxDelay \in Nat /\ MaxDelay <= Half
  /\ MaxUnasked \in Nat /\ MaxUnasked < Half

VARIABLES
  now,      \* time_get_time()
  timer,    \* iotx_time_t.time
  reading,  \* iotx_time_left has found the timer unexpired, and will read again
  left,     \* what the last iotx_time_left on this timer returned
  delay,    \* history: the milliseconds the timer was armed with
  elapsed,  \* history: the true time since then
  gap       \* history: the time since the first of the two reads

timerVars == <<now, timer, reading, left, delay, elapsed, gap>>

TimerTypeOK ==
  /\ now \in 0 .. Word - 1
  /\ timer \in 0 .. Word - 1
  /\ reading \in BOOLEAN
  /\ left \in 0 .. Word - 1
  /\ delay \in 0 .. MaxDelay
  /\ elapsed \in 0 .. MaxDelay + MaxUnasked
  /\ gap \in 0 .. MaxDelay + MaxUnasked

\* Seeded bug: the words are compared as numbers.
IsPast(t) == now >= t

\* Unsigned arithmetic on words.
Plus(a, b) == IF a + b < Word THEN a + b ELSE a + b - Word
Minus(a, b) == IF a >= b THEN a - b ELSE a - b + Word

IsExpired(t) == Minus(now, t) < Half          \* utils_time_is_expired
TimeSpent(t) == Minus(now, t)                 \* utils_time_spend

TimerInit ==
  /\ now \in 0 .. Word - 1
  /\ delay \in 0 .. MaxDelay
  /\ timer = Plus(now, delay)
  /\ elapsed = 0
  /\ reading = FALSE /\ left = 0 /\ gap = 0

\* utils_time_countdown_ms; with 0, the time stamp of a request.
Countdown(ms) ==
  /\ ~reading
  /\ timer' = Plus(now, ms)
  /\ delay' = ms
  /\ elapsed' = 0
  /\ left' = 0
  /\ UNCHANGED <<now, reading, gap>>

\* Seeded bug: the time left is computed without asking for expiry first.
AskLeftUnguarded ==
  /\ ~reading
  /\ reading' = TRUE
  /\ UNCHANGED <<now, timer, left, delay, elapsed, gap>>

\* iotx_time_left up to its test, and after it.
AskLeft ==
  /\ ~reading
  /\ IF IsExpired(timer)
     THEN left' = 0 /\ UNCHANGED reading
     ELSE reading' = TRUE /\ UNCHANGED left
  /\ UNCHANGED <<now, timer, delay, elapsed, gap>>

AnswerLeft ==
  /\ reading
  /\ left' = Minus(timer, now)
  /\ reading' = FALSE
  /\ gap' = 0
  /\ UNCHANGED <<now, timer, delay, elapsed>>

Tick ==
  /\ elapsed < delay + MaxUnasked
  /\ now' = Plus(now, 1)
  /\ elapsed' = elapsed + 1
  /\ gap' = IF reading THEN gap + 1 ELSE gap
  /\ UNCHANGED <<timer, reading, left, delay>>

TimerNext == Tick \/ AskLeft \/ AnswerLeft \/ \E ms \in 0 .. MaxDelay : Countdown(ms)

TimerSpec == TimerInit /\ [][TimerNext]_timerVars

-----------------------------------------------------------------------------
(* Properties                                                              *)

\* The word comparison tells the truth across the wrap of the clock: a timer is
\* expired exactly when its delay has passed, provided it is asked within half
\* the range of the clock (24.8 days) of its expiry.
ExpiryIsTrue == TimerTypeOK /\ (IsExpired(timer) <=> elapsed >= delay)

\* A stamp (a timer armed with 0) measures the true time since it was taken, so
\* a request is late exactly when its time is over.
SpentIsTrue == delay = 0 => TimeSpent(timer) = elapsed

\* iotx_time_left answers the true remaining time, however long it is preempted
\* between its two reads of the clock, except when the time ran out between them:
\* then, and only then, it answers a word above half the range, which stands for
\* a negative one, instead of 0.
LeftIsTrue ==
  [][reading /\ ~reading' =>
       \/ elapsed <= delay /\ left' = delay - elapsed
       \/ elapsed - gap < delay /\ delay < elapsed /\ left' > Half]_timerVars

\* The strengthening the proofs of the others rest on (MqttConnProofs): the word
\* a timer stores is as far ahead of the clock as the delay still has to
\* run, or as far behind it as the timer is overdue; a timer under question was
\* not expired when it was first read.
TimerTracksClock ==
  /\ elapsed <= delay + MaxUnasked
  /\ elapsed <= delay => timer = Plus(now, delay - elapsed)
  /\ elapsed >= delay => timer = Minus(now, elapsed - delay)
  /\ reading => elapsed - gap < delay
  /\ gap <= elapsed
  /\ ~reading => gap = 0
=============================================================================
