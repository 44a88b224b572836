-------------------------------- MODULE MCRetry --------------------------------
(* Retry for TLC: schedules that reach their cap at different retries, in the   *)
(* three modes of jitter.                                                     *)
EXTENDS Retry

Args(first, growth, most, mode, fraction) ==
    [delay |-> first, multiplier |-> growth, max_delay |-> most,
     mode |-> mode, jitter |-> fraction]

MCSchedules ==
    {Args(d, 2, d * 5, mode, jitter) :
        d \in {1, 3}, mode \in {"reducing", "symmetric"}, jitter \in {0, 1, 2}}
    \cup {Args(d, 3, 10, "seconds", jitter) : d \in {0, 1, 4}, jitter \in {0, 2, 12}}
    \cup {Args(4, 1, 4, "seconds", 1)}
=============================================================================
