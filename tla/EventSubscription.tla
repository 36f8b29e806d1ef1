------------------------- MODULE EventSubscription -------------------------
(***************************************************************************)
(* OracleWorker::watch_anchor_events (switchboard-function/src/worker.rs): *)
(* the logs_subscribe connection loop with its reconnect backoff.          *)
(*   - a successful connect resets retry_count and delay, then reads the   *)
(*     stream until it closes and connects again at once;                  *)
(*   - a failed connect breaks if retry_count >= max_retries, else sleeps  *)
(*     delay, increments retry_count and doubles delay up to 5 s;          *)
(*   - after either arm, the loop breaks if retry_count >= max_retries.    *)
(* Returning from the loop ends the worker's select!.  Events read from    *)
(* the stream are handled by handle_price_request_event (Worker.tla).      *)
(***************************************************************************)
EXTENDS Naturals, Sequences

CONSTANTS
    MaxRetries,   \* max_retries (3)
    BaseDelay,    \* the initial delay (500 ms)
    DelayCap,     \* the cap on the doubled delay (5 s = 5000 ms)
    MaxSessions   \* bound on the number of successful connections

ASSUME MaxRetries \in Nat /\ BaseDelay \in Nat \ {0} /\ DelayCap >= BaseDelay
ASSUME MaxSessions \in Nat

VARIABLES
    pc,          \* "connect", "stream", "sleep" or "exited"
    retryCount,  \* retry_count
    delay,       \* delay, in ms
    sessions,    \* successful connections so far
    sleeps       \* history: the delays slept since the last successful connect

vars == <<pc, retryCount, delay, sessions, sleeps>>

MinOf(a, b) == IF a < b THEN a ELSE b

TypeOK ==
    /\ pc \in {"connect", "stream", "sleep", "exited"}
    /\ retryCount \in 0..MaxRetries
    /\ delay \in BaseDelay..DelayCap
    /\ sessions \in 0..MaxSessions
    \* a failure streak sleeps at most MaxRetries times
    /\ sleeps \in Seq(BaseDelay..DelayCap) /\ Len(sleeps) <= MaxRetries

Init ==
    /\ pc = "connect"
    /\ retryCount = 0
    /\ delay = BaseDelay
    /\ sessions = 0
    /\ sleeps = <<>>

\* Mutant: a successful connection does not reset delay.
ConnectOkKeepDelay ==
    /\ pc = "connect"
    /\ sessions < MaxSessions
    /\ sessions' = sessions + 1
    /\ retryCount' = 0
    /\ pc' = "stream"
    /\ sleeps' = <<>>
    /\ UNCHANGED delay

(* `Ok((mut stream, _handler))`: reset retry_count and delay, then read     *)
(* the stream.                                                             *)
ConnectOk ==
    /\ pc = "connect"
    /\ sessions < MaxSessions
    /\ sessions' = sessions + 1
    /\ retryCount' = 0
    /\ delay' = BaseDelay
    /\ pc' = "stream"
    /\ sleeps' = <<>>

(* The stream ends ("connection closed, attempting to reconnect"); the     *)
(* check after the match sees retry_count = 0 and the loop connects again. *)
StreamClosed ==
    /\ pc = "stream"
    /\ pc' = IF retryCount >= MaxRetries THEN "exited" ELSE "connect"
    /\ UNCHANGED <<retryCount, delay, sessions, sleeps>>

(* `Err(e)`: break at the retry limit, else start the sleep.               *)
ConnectErr ==
    /\ pc = "connect"
    /\ IF retryCount >= MaxRetries
         THEN /\ pc' = "exited"
              /\ UNCHANGED sleeps
         ELSE /\ pc' = "sleep"
              /\ sleeps' = Append(sleeps, delay)
    /\ UNCHANGED <<retryCount, delay, sessions>>

\* Mutant: retry_count is not incremented after the sleep.
WakeNoIncrement ==
    /\ pc = "sleep"
    /\ delay' = MinOf(delay * 2, DelayCap)
    /\ pc' = IF retryCount >= MaxRetries THEN "exited" ELSE "connect"
    /\ UNCHANGED <<retryCount, sessions, sleeps>>

(* The sleep returns: retry_count += 1, delay = min(delay * 2, 5 s), then  *)
(* the check after the match.                                              *)
Wake ==
    /\ pc = "sleep"
    /\ retryCount' = retryCount + 1
    /\ delay' = MinOf(delay * 2, DelayCap)
    /\ pc' = IF retryCount + 1 >= MaxRetries THEN "exited" ELSE "connect"
    /\ UNCHANGED <<sessions, sleeps>>

\* In "exited" no step is enabled: the loop has returned, and that ends the
\* worker's select!.
Next ==
    \/ ConnectOk
    \/ ConnectErr
    \/ StreamClosed
    \/ Wake

Spec == Init /\ [][Next]_vars

-----------------------------------------------------------------------------
\* Spec 4.5: the delay before the i-th retry of a failure streak.
Backoff(i) == MinOf(BaseDelay * 2^(i - 1), DelayCap)

\* Every failure streak sleeps the schedule 500 ms, 1 s, 2 s, ... capped at
\* 5 s, from its start: delay must be reset when a connection succeeds, or
\* a streak after a flapping connection starts with a longer sleep.
BackoffSchedule ==
    \A i \in 1..Len(sleeps) : sleeps[i] = Backoff(i)
=============================================================================
