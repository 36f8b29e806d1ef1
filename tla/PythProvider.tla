---------------------------- MODULE PythProvider ----------------------------
(***************************************************************************)
(* PythProvider (switchboard-function/src/providers/pyth.rs) for a set of  *)
(* markets:                                                                *)
(*   - fetch(), run every second by watch through start_routine: one       *)
(*     latest_price_feeds request, then set(publish_time, converted price) *)
(*     on the market's TimestampCache for each entry;                      *)
(*   - fetch_pyth_price, the fetch function of each TimestampCache, run by *)
(*     get(ts) on a miss: get_price_feed?publish_time=ts, converted;       *)
(*   - to_fixed_precision, the conversion to 10^9 fixed point.             *)
(* The cache is its resolved values only; the single-flight protocol of    *)
(* get is TimestampCache.tla.  reqwest transport and JSON decode errors    *)
(* are unwrap()ed, an Err of fetch() ends start_routine and is unwrap()ed  *)
(* by watch: each is a panic of the worker task, and the process exits.    *)
(***************************************************************************)
EXTENDS Integers, FiniteSets

CONSTANTS
    Markets,     \* the feeds PythProvider knows (PYTH_BTC_FEED, ...)
    Timestamps,  \* publish times
    Prices,      \* the mantissas Pyth publishes (the `price` string)
    Expos,       \* the exponents Pyth publishes
    None,        \* model value: nothing cached
    Panic        \* model value: the conversion panics

ASSUME Prices \subseteq Nat /\ Expos \subseteq Int

Builds == {"debug", "release"}

\* The failures of one HTTP request as the code meets them: a reqwest
\* error, a non-2xx status, and a body that does not decode.
HttpOutcomes == {"ok", "transport", "status", "decode"}

VARIABLES
    build,     \* the profile the binary was built with (overflow checks)
    upstream,  \* upstream[m][ts]: the <<price, expo>> Pyth has for m at ts
    cache,     \* cache[m][ts]: the value the market's TimestampCache holds
    served,    \* history: <<m, ts, v>> for every value a get returned
    crashed    \* None, or where the worker task panicked

vars == <<build, upstream, cache, served, crashed>>

Abs(x) == IF x < 0 THEN -x ELSE x

(* `(10u64).pow(expo_diff as u32)` for expo_diff = 9 - |expo|.  A negative *)
(* expo_diff wraps to a u32 above 2^32 - 10; the power overflows, which    *)
(* panics with overflow checks and wraps to 0 without (2^64 divides 10^k   *)
(* for k >= 64).                                                           *)
Pow10(d, b) ==
    IF d >= 0 THEN 10^d ELSE IF b = "debug" THEN Panic ELSE 0

(* PythPriceInfo::to_fixed_precision: multiply by 10^(9-|expo|) for a      *)
(* negative expo, else divide by it; division by zero panics in any build. *)
ToFixedPrecision(price, expo, b) ==
    LET pw == Pow10(9 - Abs(expo), b) IN
    CASE pw = Panic -> Panic
      [] expo < 0   -> price * pw
      [] pw = 0     -> Panic
      [] OTHER      -> price \div pw

\* The spec's meaning of a fixed-point price: price * 10^expo scaled by 10^9.
Exact(price, expo) ==
    IF 9 + expo >= 0 THEN price * 10^(9 + expo) ELSE price \div 10^(-(9 + expo))

Convert(m, ts) == ToFixedPrecision(upstream[m][ts][1], upstream[m][ts][2], build)

TypeOK ==
    /\ build \in Builds
    /\ upstream \in [Markets -> [Timestamps -> Prices \X Expos]]
    /\ cache \in [Markets -> [Timestamps -> Nat \cup {None}]]
    /\ served \subseteq Markets \X Timestamps \X Nat
    /\ crashed \in {None, "poll", "get"}

Init ==
    /\ build \in Builds
    /\ upstream \in [Markets -> [Timestamps -> Prices \X Expos]]
    /\ cache = [m \in Markets |-> [ts \in Timestamps |-> None]]
    /\ served = {}
    /\ crashed = None

Running == crashed = None

\* Mutant: an entry is set on another market's cache (a copied match arm).
PollSwapped(outcome, entries, order) ==
    /\ Running
    /\ IF outcome # "ok"
         \* unwrap of reqwest::get / json, or `?` then watch's unwrap
         THEN /\ crashed' = "poll"
              /\ UNCHANGED cache
         ELSE LET ms      == DOMAIN entries
                  bad     == {m \in ms : Convert(m, entries[m]) = Panic}
                  badPos  == {order[m] : m \in bad}
                  first   == IF bad = {} THEN Cardinality(ms) + 1
                             ELSE CHOOSE i \in badPos : \A j \in badPos : i <= j
                  setNow  == {m \in ms : order[m] < first}
              IN /\ cache' = [m \in Markets |->
                                LET src == CHOOSE o \in Markets : o # m IN
                                IF src \in setNow
                                  THEN [cache[m] EXCEPT ![entries[src]] = Convert(src, entries[src])]
                                  ELSE cache[m]]
                 /\ crashed' = IF bad = {} THEN None ELSE "poll"
    /\ UNCHANGED <<build, upstream, served>>

(* PythProvider::fetch under watch.  `entries` are the markets of the      *)
(* response with their publish times, `order` their positions in it; an    *)
(* entry of a feed fetch() does not know is only logged.  Each entry is    *)
(* converted, then set; a conversion panic stops the loop after the sets   *)
(* of the entries before it, which are kept.                               *)
Poll(outcome, entries, order) ==
    /\ Running
    /\ IF outcome # "ok"
         \* unwrap of reqwest::get / json, or `?` then watch's unwrap
         THEN /\ crashed' = "poll"
              /\ UNCHANGED cache
         ELSE LET ms      == DOMAIN entries
                  bad     == {m \in ms : Convert(m, entries[m]) = Panic}
                  badPos  == {order[m] : m \in bad}
                  first   == IF bad = {} THEN Cardinality(ms) + 1
                             ELSE CHOOSE i \in badPos : \A j \in badPos : i <= j
                  setNow  == {m \in ms : order[m] < first}
              IN /\ cache' = [m \in Markets |->
                                IF m \in setNow
                                  THEN [cache[m] EXCEPT ![entries[m]] = Convert(m, entries[m])]
                                  ELSE cache[m]]
                 /\ crashed' = IF bad = {} THEN None ELSE "poll"
    /\ UNCHANGED <<build, upstream, served>>

\* Mutant: a non-2xx response is stored in the cache as an error value.
GetStoresErr(m, ts, outcome) ==
    /\ Running
    /\ cache[m][ts] = None
    /\ outcome = "status"
    /\ cache' = [cache EXCEPT ![m][ts] = Panic]
    /\ UNCHANGED <<build, upstream, served, crashed>>

(* get(ts) on market m's cache.  A hit returns the value; a miss runs      *)
(* fetch_pyth_price: a reqwest error or an undecodable body panics, a      *)
(* non-2xx status is Err (stored nowhere), a 2xx body is converted, stored *)
(* and returned.                                                           *)
Get(m, ts, outcome) ==
    /\ Running
    /\ IF cache[m][ts] # None
         THEN /\ served' = served \cup {<<m, ts, cache[m][ts]>>}
              /\ UNCHANGED <<cache, crashed>>
         ELSE CASE outcome \in {"transport", "decode"} ->
                     /\ crashed' = "get"
                     /\ UNCHANGED <<cache, served>>
                [] outcome = "status" ->
                     UNCHANGED <<cache, served, crashed>>
                [] OTHER ->
                     IF Convert(m, ts) = Panic
                       THEN /\ crashed' = "get"
                            /\ UNCHANGED <<cache, served>>
                       ELSE /\ cache' = [cache EXCEPT ![m][ts] = Convert(m, ts)]
                            /\ served' = served \cup {<<m, ts, Convert(m, ts)>>}
                            /\ UNCHANGED crashed
    /\ UNCHANGED <<build, upstream>>

\* Orders of the response entries: injections of the markets into positions.
Orders(ms) == {o \in [ms -> 1..Cardinality(ms)] : \A a, b \in ms : a # b => o[a] # o[b]}

Next ==
    \/ \E outcome \in HttpOutcomes, ms \in SUBSET Markets :
         \E entries \in [ms -> Timestamps], order \in Orders(ms) :
           Poll(outcome, entries, order)
    \/ \E m \in Markets, ts \in Timestamps, outcome \in HttpOutcomes :
         Get(m, ts, outcome)

Spec == Init /\ [][Next]_vars

-----------------------------------------------------------------------------
\* Every price the provider caches or hands to get_price is Pyth's price at
\* that market and time in 10^9 fixed point, whichever of the two fetch
\* paths brought it in and in whatever order they ran.
PricesExact ==
    /\ \A m \in Markets, ts \in Timestamps :
         cache[m][ts] # None => cache[m][ts] = Exact(upstream[m][ts][1], upstream[m][ts][2])
    /\ \A r \in served : r[3] = Exact(upstream[r[1]][r[2]][1], upstream[r[1]][r[2]][2])

\* Spec 4.3 and 7: a NetworkError or a decode error of either Pyth path is
\* local: it is logged and the operation fails, and watch keeps running.
PythErrorsAreLocal == crashed = None
=============================================================================
