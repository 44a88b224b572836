--------------------------------- MODULE Retry ---------------------------------
(*****************************************************************************)
(* Bounded retry with backoff (src/netimps/_retry.py): the schedule of          *)
(* backoff_delays, the loops of retry and aretry over it, and Backoff, the timer *)
(* of a long session that is meant to follow the same schedule.                *)
(*                                                                           *)
(* A fraction is a number of Jth parts, a random draw one of Draws points of     *)
(* [0, 1), and a jittered delay is in units of 1 / (Parts * Draws), so that the   *)
(* arithmetic is exact.                                                        *)
(*****************************************************************************)
EXTENDS Integers, Sequences

CONSTANTS
    Schedules,   \* the arguments that shape the delays
    MaxAttempts, \* bound: the values of attempts=
    MaxLosses,   \* bound: how often the timer backs off without progress
    Parts,       \* jitter= is one of 0..Parts over Parts
    Draws        \* random() is one of 0..Draws-1 over Draws

\* mode: which jitter is asked for; jitter: its fraction, or jitter_seconds.
Schedule == [delay : Nat, multiplier : Nat \ {0}, max_delay : Nat,
             mode : {"reducing", "symmetric", "seconds"}, jitter : Nat]

\* _normalise: what no schedule can mean is refused.
Normalised(s) ==
    /\ s.max_delay >= s.delay
    /\ s.mode # "seconds" => s.jitter <= Parts

ASSUME RetryAssumption ==
    /\ Schedules \subseteq Schedule
    /\ \A s \in Schedules : Normalised(s)
    /\ MaxAttempts \in Nat \ {0} /\ MaxLosses \in Nat
    /\ Parts \in Nat \ {0} /\ Draws \in Nat \ {0}

VARIABLES
    form,     \* "loop", of retry or aretry, or "timer"
    schedule, \* its arguments
    attempts, \* attempts=
    delays,   \* the delays of the loop, drawn before the first call
    pc,       \* "list", "call", "sleep", or "done"; the timer is "armed"
    calls,    \* calls of func
    errors,   \* what each call of func raised, in order
    hooks,    \* calls of on_retry
    result,   \* how the loop ended
    current,  \* Backoff._current
    losses,   \* Backoff._attempt
    delay     \* Backoff._delay

loopVars == <<delays, calls, errors, hooks, result>>
timerVars == <<current, losses, delay>>
vars == <<form, schedule, attempts, pc, loopVars, timerVars>>

Scale == Parts * Draws
Least(a, b) == IF a < b THEN a ELSE b
Random == 0..Draws - 1

\* The loop ends with the value of func, with the exception of its last call, with what
\* on_retry raised, or cancelled or interrupted.
Results == {"none", "value", "raised", "hook", "cancelled"}
-----------------------------------------------------------------------------
(* The delays.                                                               *)

\* Mutant: the amplitude is not capped at the delay.
Jittered_Uncapped(s, capped, random) ==
    CASE s.mode = "seconds" ->
           Parts * (capped * Draws + s.jitter * (2 * random - Draws))
      [] s.mode = "symmetric" -> capped * (Scale + s.jitter * (2 * random - Draws))
      [] s.mode = "reducing" -> capped * (Scale - s.jitter * random)

\* _jittered, in units of 1 / Scale.  The comparisons with 0 and max_delay that follow
\* it in the code change nothing.
Jittered(s, capped, random) ==
    CASE s.mode = "seconds" ->
           Parts * (capped * Draws + Least(s.jitter, capped) * (2 * random - Draws))
      [] s.mode = "symmetric" -> capped * (Scale + s.jitter * (2 * random - Draws))
      [] s.mode = "reducing" -> capped * (Scale - s.jitter * random)

\* The delays of _delays before they are capped: the running product of the generator.
Grown(s) ==
    LET grown[n \in Nat] == IF n = 0 THEN s.delay ELSE grown[n - 1] * s.multiplier
    IN grown

\* Mutant: the generator multiplies before the first delay.
Base_Early(s, n) == Least(Grown(s)[n], s.max_delay)

\* The delay before retry n, 1 for the first, without jitter.
Base(s, n) == Least(Grown(s)[n - 1], s.max_delay)
-----------------------------------------------------------------------------
Init ==
    /\ form \in {"loop", "timer"}
    /\ schedule \in Schedules
    /\ attempts \in 1..MaxAttempts
    /\ form = "timer" => attempts = 1
    /\ pc = IF form = "timer" THEN "armed" ELSE "list"
    /\ delays = <<>> /\ calls = 0 /\ errors = <<>> /\ hooks = 0 /\ result = "none"
    /\ current = schedule.delay
    /\ losses = 0
    /\ IF form = "timer"
         THEN \E random \in Random :
                delay = Jittered(schedule, Least(current, schedule.max_delay), random)
         ELSE delay = 0

Fixed == UNCHANGED <<form, schedule, attempts>>
-----------------------------------------------------------------------------
(* retry and aretry.                                                         *)

Lists ==
    /\ pc = "list"
    /\ pc' = "call"
    /\ \E draws \in [1..attempts - 1 -> Random] :
         delays' = [n \in 1..attempts - 1 |->
                      Jittered(schedule, Base(schedule, n), draws[n])]
    /\ Fixed /\ UNCHANGED <<calls, errors, hooks, result, timerVars>>

Leaves(with) == pc' = "done" /\ result' = with

\* func returns, or raises what is not retryable; aretry's TypeError for a func that
\* returns no awaitable is one of these.
Succeeds ==
    /\ pc = "call"
    /\ calls' = calls + 1
    /\ Leaves("value")
    /\ Fixed /\ UNCHANGED <<delays, errors, hooks, timerVars>>

Propagates ==
    /\ pc = "call"
    /\ calls' = calls + 1
    /\ errors' = Append(errors, "other")
    /\ Leaves("raised")
    /\ Fixed /\ UNCHANGED <<delays, hooks, timerVars>>

\* Mutant: one attempt fewer than was asked for.
LastAttempt_Early == calls' >= Len(delays)

\* The attempt that raised was the last.
LastAttempt == calls' > Len(delays)

\* func raises what is retryable: the last attempt surfaces it; else on_retry is called,
\* which may raise, and the delay waited for, unless it is zero.
Fails ==
    /\ pc = "call"
    /\ calls' = calls + 1
    /\ errors' = Append(errors, "retryable")
    /\ \/ LastAttempt /\ Leaves("raised") /\ UNCHANGED hooks
       \/ /\ ~LastAttempt
          /\ hooks' = hooks + 1
          /\ \/ Leaves("hook")
             \/ pc' = (IF delays[calls'] = 0 THEN "call" ELSE "sleep") /\ UNCHANGED result
    /\ Fixed /\ UNCHANGED <<delays, timerVars>>

Wakes ==
    /\ pc = "sleep"
    /\ pc' = "call"
    /\ Fixed /\ UNCHANGED <<loopVars, timerVars>>

\* CancelledError or KeyboardInterrupt, in the call or in the wait: no Exception, so
\* not retried.
Cancel ==
    /\ pc \in {"call", "sleep"}
    /\ calls' = IF pc = "call" THEN calls + 1 ELSE calls
    /\ Leaves("cancelled")
    /\ Fixed /\ UNCHANGED <<delays, errors, hooks, timerVars>>
-----------------------------------------------------------------------------
(* Backoff.                                                                  *)

\* _compute for the timer's next _current.
Computes ==
    \E random \in Random :
        delay' = Jittered(schedule, Least(current', schedule.max_delay), random)

\* The timer's base is capped as it grows.
Advance ==
    /\ pc = "armed" /\ losses < MaxLosses
    /\ current' = Least(current * schedule.multiplier, schedule.max_delay)
    /\ losses' = losses + 1
    /\ Computes
    /\ Fixed /\ UNCHANGED <<pc, loopVars>>

\* Mutant: progress resets the count and not the base.
Reset_CountOnly ==
    /\ pc = "armed"
    /\ UNCHANGED current
    /\ losses' = 0
    /\ Computes
    /\ Fixed /\ UNCHANGED <<pc, loopVars>>

Reset ==
    /\ pc = "armed"
    /\ current' = schedule.delay
    /\ losses' = 0
    /\ Computes
    /\ Fixed /\ UNCHANGED <<pc, loopVars>>
-----------------------------------------------------------------------------
Loop == Lists \/ Succeeds \/ Propagates \/ Fails \/ Wakes
Next == Loop \/ Cancel \/ Advance \/ Reset

Spec == Init /\ [][Next]_vars
-----------------------------------------------------------------------------
TypeOK ==
    /\ form \in {"loop", "timer"}
    /\ schedule \in Schedules /\ attempts \in 1..MaxAttempts
    /\ pc \in {"list", "call", "sleep", "done", "armed"}
    /\ delays \in Seq(Int)
    /\ calls \in 0..attempts /\ hooks \in 0..attempts
    /\ errors \in Seq({"retryable", "other"})
    /\ result \in Results
    /\ current \in 0..schedule.max_delay /\ losses \in 0..MaxLosses /\ delay \in Int

\* A timer that backed off n times waits as long as retry n + 1 of backoff_delays,
\* although one caps as it multiplies and the other caps what it has multiplied, and
\* resets in between make no difference ("the arguments mean exactly what they mean on
\* backoff_delays").
SameSchedule ==
    form = "timer" =>
        \E random \in Random :
            delay = Jittered(schedule, Base(schedule, losses + 1), random)

\* No delay is negative; the default jitter keeps max_delay as a ceiling, and the two
\* symmetric ones exceed it by no more than their amplitude at the cap.
InRange(s, d) ==
    /\ d >= 0
    /\ s.mode = "reducing" => d <= s.max_delay * Scale
    /\ s.mode = "symmetric" => d <= s.max_delay * (Scale + s.jitter * Draws)
    /\ s.mode = "seconds" => d <= (s.max_delay + s.jitter) * Scale

DelaysInRange ==
    /\ \A n \in DOMAIN delays : InRange(schedule, delays[n])
    /\ InRange(schedule, delay)

\* What surfaces is the exception of the last call and no earlier one; there is a retry,
\* announced to on_retry, for each exception but the one that surfaces, and a call that
\* was cancelled is not repeated.
LastErrorSurfaces ==
    pc = "done" =>
        /\ result = "raised" =>
             Len(errors) = calls /\ (errors[calls] = "retryable" => calls = attempts)
        /\ result = "hook" => hooks = calls /\ calls < attempts
        /\ result \in {"value", "raised"} => hooks = calls - 1
        /\ \A n \in 1..Len(errors) - 1 : errors[n] = "retryable"

=============================================================================
