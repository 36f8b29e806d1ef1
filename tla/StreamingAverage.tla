-------------------------- MODULE StreamingAverage --------------------------
(***************************************************************************)
(* CoinbaseProvider::watch (switchboard-function/src/providers/coinbase.rs)*)
(* for one market.  A reader task forwards websocket text frames into an   *)
(* mpsc channel (FIFO); the watch loop takes them one at a time, skips     *)
(* frames that do not parse or carry an unknown product or an invalid      *)
(* price, and for a tick of second ts:                                     *)
(*   - reads the accumulator temp_store[ts] (TTL 60 s): if present         *)
(*     (sum, count) it stores (sum + p, count + 1), else (p, 1);           *)
(*   - writes the average to the committed cache[ts] (TTL 3600 s).         *)
(* r_cache's get returns nothing for an entry older than its TTL; set      *)
(* restarts the entry's age.  Time is a clock of abstract seconds; TTLs    *)
(* and the delivery delay are constants in those units.                    *)
(***************************************************************************)
EXTENDS Naturals, Sequences

CONSTANTS
    Prices,        \* valid u64 prices (already multiplied by 10^9)
    Invalid,       \* model value: a frame skipped by the loop (bad JSON,
                   \* unknown product_id, NaN/inf/negative/overflow price)
    MaxTime,       \* last value of the clock
    MaxTicks,      \* bound on the number of frames the exchange sends
    AccTTL,        \* TTL of the accumulator temp_store (60 s)
    CommittedTTL,  \* TTL of the committed cache (3600 s)
    MaxDelay,      \* the oldest a frame may be when the loop takes it
    Width,         \* bit width of u64 in the model
    None           \* model value: no cache entry

ASSUME Prices \subseteq Nat /\ AccTTL \in Nat \ {0} /\ CommittedTTL >= AccTTL
ASSUME MaxTime \in Nat /\ MaxTicks \in Nat /\ MaxDelay \in Nat

Seconds == 0..MaxTime

\* u64 at the model's width.
U64Max == 2^Width - 1

\* Cargo's default profiles: overflow checks in debug builds only.
Builds == {"debug", "release"}

VARIABLES
    now,        \* the clock
    channel,    \* frames sent but not yet processed: [ts, price]
    sent,       \* frames the exchange has sent
    tempStore,  \* temp_store[ts]: [sum, count, at] or None
    cache,      \* cache[ts]: [val, at] or None
    valid,      \* history: valid[ts] the prices of valid ticks of ts processed
    build,      \* the profile the binary was built with
    panicked    \* the watch task panicked on an overflowing `+`

vars == <<now, channel, sent, tempStore, cache, valid, build, panicked>>

TypeOK ==
    /\ now \in Seconds
    /\ channel \in Seq([ts : Seconds, price : Prices \cup {Invalid}])
    /\ sent \in 0..MaxTicks
    /\ tempStore \in [Seconds -> [sum : 0..U64Max, count : 1..MaxTicks, at : Seconds] \cup {None}]
    /\ cache \in [Seconds -> [val : 0..U64Max, at : Seconds] \cup {None}]
    /\ valid \in [Seconds -> Seq(Prices)]
    /\ build \in Builds
    /\ panicked \in BOOLEAN

Init ==
    /\ now = 0
    /\ channel = <<>>
    /\ sent = 0
    /\ tempStore = [t \in Seconds |-> None]
    /\ cache = [t \in Seconds |-> None]
    /\ valid = [t \in Seconds |-> <<>>]
    /\ build \in Builds
    /\ panicked = FALSE

\* r_cache get: the entry if it is younger than ttl.
Live(entry, ttl) == entry # None /\ now - entry.at < ttl

\* The exchange publishes a ticker for a trade in the current second.
Send(p) ==
    /\ sent < MaxTicks
    /\ sent' = sent + 1
    /\ channel' = Append(channel, [ts |-> now, price |-> p])
    /\ UNCHANGED <<now, tempStore, cache, valid, build, panicked>>

\* Time passes; no frame waits in the channel longer than MaxDelay.
Advance ==
    /\ now < MaxTime
    /\ \A i \in DOMAIN channel : now + 1 - channel[i].ts <= MaxDelay
    /\ now' = now + 1
    /\ UNCHANGED <<channel, sent, tempStore, cache, valid, build, panicked>>

(* entry.0 + price on u64: a debug build panics on overflow (the watch    *)
(* task, and with it the worker, ends); a release build wraps.             *)
Overflows(a, b) == build = "debug" /\ a + b > U64Max
AddU64(a, b) == (a + b) % (U64Max + 1)

(* A valid tick of price p for second ts, given how a live accumulator's   *)
(* count grows (inc) and the count a new accumulator starts with (first).  *)
Accumulate(f, inc, first) ==
    LET e == tempStore[f.ts] IN
    IF Live(e, AccTTL) /\ Overflows(e.sum, f.price)
      THEN panicked' = TRUE /\ UNCHANGED <<channel, tempStore, cache, valid>>
      ELSE LET total == IF Live(e, AccTTL) THEN AddU64(e.sum, f.price) ELSE f.price
               num   == IF Live(e, AccTTL) THEN e.count + inc ELSE first
               avg   == IF Live(e, AccTTL) THEN total \div num ELSE f.price
           IN /\ channel' = Tail(channel)
              /\ tempStore' = [tempStore EXCEPT ![f.ts] =
                                 [sum |-> total, count |-> num, at |-> now]]
              /\ cache' = [cache EXCEPT ![f.ts] = [val |-> avg, at |-> now]]
              /\ valid' = [valid EXCEPT ![f.ts] = Append(@, f.price)]
              /\ UNCHANGED panicked

\* One frame taken by the loop, with the given tick arithmetic.
Take(inc, first) ==
    /\ ~panicked
    /\ channel # <<>>
    /\ IF Head(channel).price = Invalid
         THEN channel' = Tail(channel) /\ UNCHANGED <<tempStore, cache, valid, panicked>>
         ELSE Accumulate(Head(channel), inc, first)
    /\ UNCHANGED <<now, sent, build>>

ProcessResetCountZero == Take(1, 0)

(* One iteration of `while let Some(data) = rx.recv().await`.  An invalid  *)
(* frame is skipped; a valid tick updates the accumulator, then writes     *)
(* total_price / num_prices to the committed cache.                        *)
Process == Take(1, 1)

\* The clock stops at MaxTime; the run ends when the channel is drained.
Done == now = MaxTime /\ (channel = <<>> \/ panicked) /\ UNCHANGED vars

Next ==
    \/ \E p \in Prices \cup {Invalid} : Send(p)
    \/ Advance
    \/ Process
    \/ Done

Spec == Init /\ [][Next]_vars

-----------------------------------------------------------------------------
\* Sum of a sequence of prices.
RECURSIVE SumSeq(_)
SumSeq(s) == IF s = <<>> THEN 0 ELSE Head(s) + SumSeq(Tail(s))

\* The last k valid ticks of second t summed in u64 (wrapping as a release
\* build does), divided by k.
SuffixMeanU64(t, k) ==
    LET n == Len(valid[t]) IN (SumSeq(SubSeq(valid[t], n - k + 1, n)) % (U64Max + 1)) \div k

\* CoinbaseProvider's cache.get(&ts) as get_price sees it.
CoinbaseGet(t) == IF Live(cache[t], CommittedTTL) THEN cache[t].val ELSE None

(* Spec 4.2 and 8.3: what get returns for a second is the floored mean of  *)
(* the valid ticks of that second processed since its accumulator was last *)
(* started (a tick arriving after the 60 s TTL starts a new one), computed *)
(* in u64: no tick lost or counted twice across interleaved seconds, late  *)
(* frames and restarts of the accumulator.                                 *)
CommittedIsMean ==
    \A t \in Seconds :
        \/ CoinbaseGet(t) = None
        \/ \E k \in 1..Len(valid[t]) : CoinbaseGet(t) = SuffixMeanU64(t, k)
=============================================================================
