------------------------------- MODULE Worker -------------------------------
(***************************************************************************)
(* The order-fulfilment pipeline of OracleWorker (switchboard-function/    *)
(* src/worker.rs) against the on-chain program (programs/backfill-oracle/  *)
(* src/lib.rs).                                                            *)
(*                                                                         *)
(* On chain: create_order opens an order and emits OraclePriceRequested;   *)
(* fulfill_order closes it, guarded by `order.open_order == 1`.            *)
(* In the worker, two triggers race for the same orders through the        *)
(* DashSet active_orders:                                                  *)
(*   - the event loop handles one event at a time, awaiting fulfill_order  *)
(*     inline (handle_price_request_event);                                *)
(*   - the scanner (watch_open_order_accounts) reads the open orders with  *)
(*     getProgramAccounts, inserts each into active_orders, runs the new   *)
(*     ones together with join_all, and after the join removes the failed  *)
(*     ones.                                                               *)
(* A fulfill_order task computes the price (get_price, abstracted to       *)
(* success or failure here; see TimestampCache), signs a transaction and   *)
(* awaits send_and_confirm_transaction.  A sent transaction sits in a      *)
(* slot until it lands or is dropped, which may happen after the task has  *)
(* given up on it (confirmation timeout).  A fatal exit of the worker      *)
(* (any select! branch returning, or a panic) loses all memory; the        *)
(* process is restarted.                                                   *)
(***************************************************************************)
EXTENDS Naturals, FiniteSets

CONSTANTS
    Orders,       \* order account keys
    MaxTxs,       \* number of transaction slots (signed, not yet final txs)
    MaxRestarts,  \* bound on worker restarts
    NoTx          \* model value: a task that has not sent its transaction

ASSUME Orders # {} /\ MaxTxs \in Nat \ {0} /\ MaxRestarts \in Nat

TxSlots  == 1..MaxTxs
Origins  == {"event", "scan"}
TxStatus == {"pending", "landed", "rejected", "dropped"}
Task     == [order : Orders, origin : Origins, stage : {"price", "confirming"},
             tx : TxSlots \cup {NoTx}]

VARIABLES
    \* on chain
    created,     \* orders create_order has made
    open,        \* open[o]: OrderAccount.open_order = 1
    fulfilled,   \* history: successful fulfill_order executions per order (saturating at 2)
    txs,         \* txs[s]: the transaction in slot s: [order, status]
    stream,      \* OraclePriceRequested events not yet read by the log subscription
    \* in the worker
    active,      \* active_orders
    tasks,       \* running fulfill_order futures
    scanPc,      \* the scanner: "idle", "fetched" (holds a snapshot), "joining"
    snapshot,    \* open orders returned by the last getProgramAccounts
    scanFailed,  \* orders of the current join_all batch that returned Err
    restarts,    \* worker restarts so far
    confirmed    \* history: orders for which a fulfill_order task returned Ok

chainVars  == <<created, open, fulfilled, txs, stream>>
workerVars == <<active, tasks, scanPc, snapshot, scanFailed>>
vars == <<chainVars, workerVars, restarts, confirmed>>

TypeOK ==
    /\ created \subseteq Orders
    /\ open \in [Orders -> BOOLEAN]
    /\ fulfilled \in [Orders -> 0..2]
    /\ txs \in [TxSlots -> [order : Orders, status : TxStatus]]
    /\ stream \subseteq Orders
    /\ active \subseteq Orders
    /\ tasks \subseteq Task
    /\ scanPc \in {"idle", "fetched", "joining"}
    /\ snapshot \subseteq Orders
    /\ scanFailed \subseteq Orders
    /\ restarts \in 0..MaxRestarts
    /\ confirmed \subseteq Orders

Init ==
    /\ created = {}
    /\ open = [o \in Orders |-> FALSE]
    /\ fulfilled = [o \in Orders |-> 0]
    \* every slot starts free: a final status nobody refers to
    /\ txs = [s \in TxSlots |-> [order |-> CHOOSE o \in Orders : TRUE, status |-> "dropped"]]
    /\ stream = {}
    /\ active = {}
    /\ tasks = {}
    /\ scanPc = "idle"
    /\ snapshot = {}
    /\ scanFailed = {}
    /\ restarts = 0
    /\ confirmed = {}

-----------------------------------------------------------------------------
(* On-chain program.                                                       *)

\* create_order: open_order = 1, emit OraclePriceRequestedEvent.
CreateOrder(o) ==
    /\ o \notin created
    /\ created' = created \cup {o}
    /\ open' = [open EXCEPT ![o] = TRUE]
    /\ stream' = stream \cup {o}
    /\ UNCHANGED <<fulfilled, txs, workerVars, restarts, confirmed>>

\* A pending fulfill_order transaction is executed.  The FulfillOrder
\* accounts constraint `order.open_order == 1` rejects a second one.
Land(s) ==
    /\ txs[s].status = "pending"
    /\ LET o == txs[s].order IN
         IF open[o]
           THEN /\ open' = [open EXCEPT ![o] = FALSE]
                /\ fulfilled' = [fulfilled EXCEPT ![o] = IF @ < 2 THEN @ + 1 ELSE 2]
                /\ txs' = [txs EXCEPT ![s].status = "landed"]
           ELSE /\ txs' = [txs EXCEPT ![s].status = "rejected"]
                /\ UNCHANGED <<open, fulfilled>>
    /\ UNCHANGED <<created, stream, workerVars, restarts, confirmed>>

\* The transaction never lands (expired blockhash, dropped by the leader).
Drop(s) ==
    /\ txs[s].status = "pending"
    /\ txs' = [txs EXCEPT ![s].status = "dropped"]
    /\ UNCHANGED <<created, open, fulfilled, stream, workerVars, restarts, confirmed>>

\* The log subscription misses an event (it is not connected, or reconnects).
LoseEvent(o) ==
    /\ o \in stream
    /\ stream' = stream \ {o}
    /\ UNCHANGED <<created, open, fulfilled, txs, workerVars, restarts, confirmed>>

-----------------------------------------------------------------------------
(* Worker.                                                                 *)

\* The event loop is busy while its fulfill_order is being awaited.
EventBusy == \E t \in tasks : t.origin = "event"

NewTask(o, origin) == [order |-> o, origin |-> origin, stage |-> "price", tx |-> NoTx]

(* watch_anchor_events decodes an OraclePriceRequested event and awaits    *)
(* handle_price_request_event: `if self.active_orders.insert(event.order)` *)
(* start fulfill_order, else drop the event.                               *)
HandleEvent(o) ==
    /\ o \in stream
    /\ ~EventBusy
    /\ stream' = stream \ {o}
    /\ IF o \notin active
         THEN /\ active' = active \cup {o}
              /\ tasks' = tasks \cup {NewTask(o, "event")}
         ELSE UNCHANGED <<active, tasks>>
    /\ UNCHANGED <<created, open, fulfilled, txs, scanPc, snapshot, scanFailed,
                   restarts, confirmed>>

(* fetch_open_order_accounts: getProgramAccounts with the memcmp filter    *)
(* discriminator || 0x01, i.e. the orders open at the time of the call.    *)
ScanFetch ==
    /\ scanPc = "idle"
    /\ snapshot' = {o \in created : open[o]}
    /\ scanPc' = "fetched"
    /\ UNCHANGED <<chainVars, active, tasks, scanFailed, restarts, confirmed>>

\* The getProgramAccounts call fails: `unwrap_or_default` yields no orders.
ScanFetchErr ==
    /\ scanPc = "idle"
    /\ snapshot' = {}
    /\ scanPc' = "fetched"
    /\ UNCHANGED <<chainVars, active, tasks, scanFailed, restarts, confirmed>>

\* Mutant: the result of active_orders.insert is ignored.
ScanSpawnIgnoreInsert ==
    /\ scanPc = "fetched"
    /\ active' = active \cup snapshot
    /\ tasks' = tasks \cup {NewTask(o, "scan") : o \in snapshot}
    /\ scanPc' = "joining"
    /\ scanFailed' = {}
    /\ UNCHANGED <<chainVars, snapshot, restarts, confirmed>>

(* The loop over open_orders: each order whose `active_orders.insert`      *)
(* returns true gets a fulfill_order future; none runs before join_all.    *)
ScanSpawn ==
    /\ scanPc = "fetched"
    /\ LET new == snapshot \ active IN
         /\ active' = active \cup new
         /\ tasks' = tasks \cup {NewTask(o, "scan") : o \in new}
    /\ scanPc' = "joining"
    /\ scanFailed' = {}
    /\ UNCHANGED <<chainVars, snapshot, restarts, confirmed>>

\* Mutant: failed orders are not removed after the join.
ScanJoinKeepFailed ==
    /\ scanPc = "joining"
    /\ \A t \in tasks : t.origin # "scan"
    /\ scanPc' = "idle"
    /\ UNCHANGED <<chainVars, active, tasks, snapshot, scanFailed, restarts, confirmed>>

(* `join_all(futures).await`, then for every Err result                    *)
(* `self.active_orders.remove(order_key)`.                                 *)
ScanJoin ==
    /\ scanPc = "joining"
    /\ \A t \in tasks : t.origin # "scan"
    /\ active' = active \ scanFailed
    /\ scanPc' = "idle"
    /\ UNCHANGED <<chainVars, tasks, snapshot, scanFailed, restarts, confirmed>>

\* A slot is free when its transaction is final and no task awaits it.
FreeSlot(s) == txs[s].status # "pending" /\ \A t \in tasks : t.tx # s

\* Mutant: slots counted from 0.
PriceOkSlotOffByOne(t) ==
    /\ t \in tasks
    /\ t.stage = "price"
    /\ \E s \in 0..MaxTxs :
         /\ s \in TxSlots => FreeSlot(s)
         /\ txs' = [txs EXCEPT ![s] = [order |-> t.order, status |-> "pending"]]
         /\ tasks' = (tasks \ {t}) \cup {[t EXCEPT !.stage = "confirming", !.tx = s]}
    /\ UNCHANGED <<created, open, fulfilled, stream, active, scanPc, snapshot,
                   scanFailed, restarts, confirmed>>

(* fulfill_order: `let price = self.get_price(..).await?` succeeds; the    *)
(* instruction is built, signed with the cached recent_blockhash and       *)
(* handed to send_and_confirm_transaction.                                 *)
PriceOk(t) ==
    /\ t \in tasks
    /\ t.stage = "price"
    /\ \E s \in TxSlots :
         /\ FreeSlot(s)
         /\ txs' = [txs EXCEPT ![s] = [order |-> t.order, status |-> "pending"]]
         /\ tasks' = (tasks \ {t}) \cup {[t EXCEPT !.stage = "confirming", !.tx = s]}
    /\ UNCHANGED <<created, open, fulfilled, stream, active, scanPc, snapshot,
                   scanFailed, restarts, confirmed>>

\* Mutant: the event handler also releases the order on Ok.
FinishReleaseOnOk(t, ok) ==
    /\ tasks' = tasks \ {t}
    /\ active' = IF t.origin = "event" THEN active \ {t.order} ELSE active
    /\ scanFailed' = IF t.origin = "scan" /\ ~ok THEN scanFailed \cup {t.order}
                                                 ELSE scanFailed
    /\ confirmed' = IF ok THEN confirmed \cup {t.order} ELSE confirmed

(* The end of a fulfill_order future with result ok: the event handler     *)
(* removes the order on Err and keeps it on Ok; a scanner task's Err is    *)
(* remembered for the removal after the join.                              *)
Finish(t, ok) ==
    /\ tasks' = tasks \ {t}
    /\ active' = IF t.origin = "event" /\ ~ok THEN active \ {t.order} ELSE active
    /\ scanFailed' = IF t.origin = "scan" /\ ~ok THEN scanFailed \cup {t.order}
                                                 ELSE scanFailed
    /\ confirmed' = IF ok THEN confirmed \cup {t.order} ELSE confirmed

\* get_price returns Err (the Pyth fetch failed): `?` ends fulfill_order.
PriceErr(t) ==
    /\ t \in tasks
    /\ t.stage = "price"
    /\ Finish(t, FALSE)
    /\ UNCHANGED <<chainVars, scanPc, snapshot, restarts>>

\* send_and_confirm_transaction returns Ok once the transaction has landed.
ConfirmOk(t) ==
    /\ t \in tasks
    /\ t.stage = "confirming"
    /\ txs[t.tx].status = "landed"
    /\ Finish(t, TRUE)
    /\ UNCHANGED <<chainVars, scanPc, snapshot, restarts>>

(* send_and_confirm_transaction returns Err: the transaction was rejected  *)
(* or dropped, or confirmation timed out or the RPC failed, whatever the   *)
(* transaction's fate.                                                     *)
ConfirmErr(t) ==
    /\ t \in tasks
    /\ t.stage = "confirming"
    /\ Finish(t, FALSE)
    /\ UNCHANGED <<chainVars, scanPc, snapshot, restarts>>

(* The worker exits (a select! branch of OracleWorker::start returned, or  *)
(* a task panicked) and the process is started again: active_orders, the   *)
(* futures and the log subscription are gone; sent transactions are not.   *)
Restart ==
    /\ restarts < MaxRestarts
    /\ restarts' = restarts + 1
    /\ active' = {}
    /\ tasks' = {}
    /\ scanPc' = "idle"
    /\ snapshot' = {}
    /\ scanFailed' = {}
    /\ stream' = {}
    /\ UNCHANGED <<created, open, fulfilled, txs, confirmed>>

Next ==
    \/ \E o \in Orders : CreateOrder(o) \/ LoseEvent(o) \/ HandleEvent(o)
    \/ \E s \in TxSlots : Land(s) \/ Drop(s)
    \/ ScanFetch \/ ScanFetchErr \/ ScanSpawn \/ ScanJoin
    \/ \E t \in tasks : PriceOk(t) \/ PriceErr(t) \/ ConfirmOk(t) \/ ConfirmErr(t)
    \/ Restart

(* Fairness.  The worker's own loops run (tokio drives every select!       *)
(* branch; the scanner's interval keeps ticking), and                      *)
(* send_and_confirm_transaction returns, with Ok or Err: the client stops  *)
(* polling for confirmation once the blockhash expires.  Of the            *)
(* environment we                                                          *)
(* assume only that the RPC node, the price source and the chain do not    *)
(* fail forever: some getProgramAccounts call succeeds, a price is         *)
(* eventually computed and a pending transaction eventually lands.         *)
(* Errors, drops, lost events and restarts are not fair.                   *)
Fairness ==
    /\ SF_vars(ScanFetch) /\ WF_vars(ScanSpawn) /\ WF_vars(ScanJoin)
    /\ \A o \in Orders : WF_vars(HandleEvent(o))
    /\ \A o \in Orders : SF_vars(\E t \in tasks : t.order = o /\ PriceOk(t))
    /\ \A o \in Orders :
          WF_vars(\E t \in tasks : t.order = o /\ (ConfirmOk(t) \/ ConfirmErr(t)))
    /\ \A s \in TxSlots : SF_vars(Land(s))

Spec     == Init /\ [][Next]_vars
FairSpec == Spec /\ Fairness

-----------------------------------------------------------------------------
(***************************************************************************)
(* Properties.                                                             *)
(***************************************************************************)

\* Spec 8.5: the two triggers never run fulfill_order for the same order at
\* the same time; active_orders.insert is the only gate for both.
NoConcurrentFulfill ==
    \A t1, t2 \in tasks : t1.order = t2.order => t1 = t2

\* An order the worker has seen confirmed is never attempted again: the
\* success paths keep the order in active_orders, so a scanner snapshot
\* taken before the transaction landed cannot start a second attempt.
NoRetryAfterConfirmed ==
    \A t \in tasks : t.order \notin confirmed

\* The abstract order lifecycle seen through the worker: an order's status
\* is read off created and open_order, its fill count is the number of
\* fulfill_order executions, and it is reported done when a task confirms it.
Lifecycle == INSTANCE OrderLifecycle WITH
    status <- [o \in Orders |-> IF o \notin created THEN "none"
                                ELSE IF open[o] THEN "open" ELSE "closed"],
    fills  <- fulfilled,
    acked  <- confirmed

\* The worker implements OrderLifecycle's LiveSpec: every step is a step of
\* the abstract lifecycle or leaves it unchanged, and every order created is
\* eventually fulfilled and closed, across lost events, failed attempts and
\* restarts: after an error the order leaves active_orders and the scanner
\* retries it.
LifecycleLive == Lifecycle!LiveSpec
=============================================================================
