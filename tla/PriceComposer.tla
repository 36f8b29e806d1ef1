--------------------------- MODULE PriceComposer ---------------------------
(***************************************************************************)
(* OracleWorker::get_price (switchboard-function/src/worker.rs) composed   *)
(* with the streaming provider it reads: CoinbaseProvider::watch for one   *)
(* market is an instance of StreamingAverage, sharing its variables.       *)
(* get_price(ts) takes Pyth's price (required), then the committed         *)
(* Coinbase average of ts if there is one, and returns                     *)
(*   coinbase.checked_add(pyth).unwrap().checked_div(2).unwrap()           *)
(* or the Pyth price alone.  A panic of the unwrap ends the worker task.   *)
(* Pyth's price of each second is the value its TimestampCache resolves to *)
(* (PythProvider.tla shows it exact); a Pyth Err is returned by `?`, which *)
(* changes no state.  u64 is modelled at a reduced width.                  *)
(***************************************************************************)
EXTENDS Naturals, Sequences

CONSTANTS
    Prices, Invalid, MaxTime, MaxTicks, AccTTL, CommittedTTL, MaxDelay, None,
    Width,       \* bit width of the u64 arithmetic in the model
    PythPrices   \* the fixed-point prices Pyth may publish for a second

VARIABLES
    now, channel, sent, tempStore, cache, valid, build, panicked,  \* CoinbaseProvider::watch
    pyth,       \* pyth[ts]: the price pyth.get(ts) returns
    returned,   \* <<ts, price>> that get_price last returned, or None
    crashed     \* the checked_add unwrap panicked

coinbaseVars == <<now, channel, sent, tempStore, cache, valid, build, panicked>>
composerVars == <<pyth, returned, crashed>>
vars == <<coinbaseVars, composerVars>>

Coinbase == INSTANCE StreamingAverage

U64Max == Coinbase!U64Max

ASSUME PythPrices \subseteq 0..U64Max /\ Prices \subseteq 0..U64Max

TypeOK ==
    /\ Coinbase!TypeOK
    /\ pyth \in [Coinbase!Seconds -> PythPrices]
    /\ returned \in (Coinbase!Seconds \X (0..U64Max)) \cup {None}
    /\ crashed \in BOOLEAN

Init ==
    /\ Coinbase!Init
    /\ pyth \in [Coinbase!Seconds -> PythPrices]
    /\ returned = None
    /\ crashed = FALSE

\* The streaming provider runs: a frame is sent, time passes, or the loop
\* processes a frame.
CoinbaseStep ==
    /\ ~crashed
    /\ Coinbase!Next
    /\ UNCHANGED composerVars

(* get_price for an order opened at second ts: the Pyth price, then the    *)
(* committed Coinbase average if cache.get(&ts) has one; the sum is        *)
(* checked and its overflow panics.                                        *)
GetPrice(ts) ==
    /\ ~crashed
    /\ ~panicked
    /\ ts <= now
    /\ LET p == pyth[ts]
           s == Coinbase!CoinbaseGet(ts)
       IN CASE s = None       -> /\ returned' = <<ts, p>>
                                 /\ UNCHANGED crashed
            [] s + p > U64Max -> /\ crashed' = TRUE
                                 /\ UNCHANGED returned
            [] OTHER          -> /\ returned' = <<ts, (s + p) \div 2>>
                                 /\ UNCHANGED crashed
    /\ UNCHANGED <<coinbaseVars, pyth>>

Next ==
    \/ CoinbaseStep
    \/ \E ts \in Coinbase!Seconds : GetPrice(ts)

Spec == Init /\ [][Next]_vars

-----------------------------------------------------------------------------
ComposeErrorsAreLocal == ~crashed
=============================================================================
