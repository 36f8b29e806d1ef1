--------------------------- MODULE TimestampCache ---------------------------
(***************************************************************************)
(* TimestampCache<T> of switchboard-function/src/cache.rs: a DashMap from  *)
(* timestamps to Arc<RwLock<Option<Result<T>>>> cells, with               *)
(*   get(ts): clone the cell of ts (inserting an empty one), return its    *)
(*            value under the read lock, else take the write lock,         *)
(*            re-check, and call the fetch function while holding it;      *)
(*   set(ts, v): insert a NEW resolved cell for ts, replacing the old one. *)
(*                                                                         *)
(* Callers are the concurrent tasks that call get (fulfill_order futures   *)
(* polled together by join_all and by the event handler).  Each caller    *)
(* loops: it starts a get on any timestamp, steps through it, returns.     *)
(* The read lock is held only for the one check, so it is one step.        *)
(***************************************************************************)
EXTENDS Naturals, FiniteSets

CONSTANTS
    Callers,      \* tasks calling get
    Timestamps,   \* the i64 timestamps asked for
    Values,       \* prices the fetch function or set may produce
    MaxSets,      \* bound on the number of set calls (each allocates a cell)
    NoCell,       \* model value: the DashMap has no entry for a timestamp
    None,         \* model value: a cell holding Option::None
    Err           \* model value: the Err(SbError::NetworkError) result

ASSUME MaxSets \in Nat /\ Callers # {} /\ Timestamps # {} /\ Values # {}

\* Every Arc cell ever created gets a number; one per timestamp for the
\* entry get inserts, one per set call.
MaxCells == Cardinality(Timestamps) + MaxSets
CellIds  == 1..MaxCells

VARIABLES
    data,      \* data[ts]: the cell the DashMap holds for ts, or NoCell
    cells,     \* cells[c]: the Option inside cell c's RwLock (only Ok is stored)
    nextCell,  \* number of cells allocated so far
    sets,      \* number of set calls so far (bounded by MaxSets)
    pc,        \* pc[k]: where caller k is inside get
    cell,      \* cell[k]: the Arc clone caller k holds (the local `cell`)
    timestamp, \* timestamp[k]: the argument of k's current get, or None
    returned,  \* history: the <<cell, value>> pairs gets have returned Ok
    fetches    \* history: fetch calls per timestamp, saturating at 2

vars == <<data, cells, nextCell, sets, pc, cell, timestamp, returned,
          fetches>>

TypeOK ==
    /\ data \in [Timestamps -> CellIds \cup {NoCell}]
    /\ cells \in [CellIds -> Values \cup {None}]
    /\ nextCell \in 0..MaxCells
    /\ sets \in 0..MaxSets
    /\ pc \in [Callers -> {"idle", "read", "write", "fetching"}]
    /\ cell \in [Callers -> CellIds \cup {NoCell}]
    /\ timestamp \in [Callers -> Timestamps \cup {None}]
    /\ returned \subseteq CellIds \X Values
    /\ fetches \in [Timestamps -> 0..2]

Init ==
    /\ data = [t \in Timestamps |-> NoCell]
    /\ cells = [c \in CellIds |-> None]
    /\ nextCell = 0
    /\ sets = 0
    /\ pc = [k \in Callers |-> "idle"]
    /\ cell = [k \in Callers |-> NoCell]
    /\ timestamp = [k \in Callers |-> None]
    /\ returned = {}
    /\ fetches = [t \in Timestamps |-> 0]

\* Caller k's get returns r: back to idle, its locals (the Arc clone and
\* the timestamp) dropped; remember what it handed out.
Return(k, r) ==
    /\ pc' = [pc EXCEPT ![k] = "idle"]
    /\ cell' = [cell EXCEPT ![k] = NoCell]
    /\ timestamp' = [timestamp EXCEPT ![k] = None]
    /\ returned' = IF r = Err THEN returned ELSE returned \cup {<<cell[k], r>>}

\* Some caller holds the write lock of cell c (it is inside the fetch).
WriteHeld(c) ==
    \E j \in Callers : pc[j] = "fetching" /\ cell[j] = c

(* `self.data.entry(timestamp).or_default().value().clone()`: the entry   *)
(* lock makes find-or-insert atomic; the caller keeps the Arc it cloned.  *)
GetEntry(k, ts) ==
    /\ pc[k] = "idle"
    /\ IF data[ts] = NoCell
         THEN /\ nextCell' = nextCell + 1
              /\ data' = [data EXCEPT ![ts] = nextCell + 1]
              /\ cell' = [cell EXCEPT ![k] = nextCell + 1]
         ELSE /\ cell' = [cell EXCEPT ![k] = data[ts]]
              /\ UNCHANGED <<data, nextCell>>
    /\ timestamp' = [timestamp EXCEPT ![k] = ts]
    /\ pc' = [pc EXCEPT ![k] = "read"]
    /\ UNCHANGED <<cells, sets, returned, fetches>>

\* Mutant: an empty cell is polled under the read lock until a value
\* appears, instead of falling through to the write lock and the fetch.
ReadCheckPoll(k) ==
    /\ pc[k] = "read"
    /\ ~WriteHeld(cell[k])
    /\ IF cells[cell[k]] # None
         THEN Return(k, cells[cell[k]])
         ELSE UNCHANGED <<pc, cell, timestamp, returned>>
    /\ UNCHANGED <<data, cells, nextCell, sets, fetches>>

(* `if let Some(v) = &*cell.read().await { return v.clone(); }`           *)
ReadCheck(k) ==
    /\ pc[k] = "read"
    /\ ~WriteHeld(cell[k])
    /\ IF cells[cell[k]] # None
         THEN Return(k, cells[cell[k]])
         ELSE /\ pc' = [pc EXCEPT ![k] = "write"]
              /\ UNCHANGED <<cell, timestamp, returned>>
    /\ UNCHANGED <<data, cells, nextCell, sets, fetches>>

(* `let mut lock = cell.write().await; match &*lock`: under the write     *)
(* lock, a resolved cell is returned, an empty one is fetched while the   *)
(* lock is held.                                                          *)
AcquireWrite(k) ==
    /\ pc[k] = "write"
    /\ ~WriteHeld(cell[k])
    /\ IF cells[cell[k]] # None
         THEN /\ Return(k, cells[cell[k]])
              /\ UNCHANGED fetches
         ELSE /\ pc' = [pc EXCEPT ![k] = "fetching"]
              /\ fetches' = [fetches EXCEPT ![timestamp[k]] =
                                IF @ < 2 THEN @ + 1 ELSE 2]
              /\ UNCHANGED <<cell, timestamp, returned>>
    /\ UNCHANGED <<data, cells, nextCell, sets>>

\* Mutant: the fetched value is returned but not stored in the cell.
FetchOkNoStore(k, v) ==
    /\ pc[k] = "fetching"
    /\ Return(k, v)
    /\ UNCHANGED <<data, cells, nextCell, sets, fetches>>

\* Mutant: the value is stored through a fresh map lookup of the
\* timestamp, not through the guard of the cell the caller holds.
FetchOkViaMap(k, v) ==
    /\ pc[k] = "fetching"
    /\ cells' = [cells EXCEPT ![data[timestamp[k]]] = v]
    /\ Return(k, v)
    /\ UNCHANGED <<data, nextCell, sets, fetches>>

(* `Ok(value) => { *lock = Some(Ok(value)); drop(lock); Ok(value) }`      *)
FetchOk(k, v) ==
    /\ pc[k] = "fetching"
    /\ cells' = [cells EXCEPT ![cell[k]] = v]
    /\ Return(k, v)
    /\ UNCHANGED <<data, nextCell, sets, fetches>>

\* Mutant: the error is kept in the cell, as spec 4.1 describes.
FetchErrStoresErr(k) ==
    /\ pc[k] = "fetching"
    /\ cells' = [cells EXCEPT ![cell[k]] = Err]
    /\ Return(k, Err)
    /\ UNCHANGED <<data, nextCell, sets, fetches>>

(* `Err(e) => Err(SbError::NetworkError)`: nothing is stored, the lock is *)
(* dropped with the cell still None.                                      *)
FetchErr(k) ==
    /\ pc[k] = "fetching"
    /\ Return(k, Err)
    /\ UNCHANGED <<data, cells, nextCell, sets, fetches>>

(* `self.data.insert(timestamp, Arc::new(RwLock::new(Some(Ok(value)))))`: *)
(* a fresh resolved cell replaces the entry; clones of the old cell held   *)
(* by running gets are untouched.                                         *)
Set(ts, v) ==
    /\ sets < MaxSets
    /\ sets' = sets + 1
    /\ nextCell' = nextCell + 1
    /\ cells' = [cells EXCEPT ![nextCell + 1] = v]
    /\ data' = [data EXCEPT ![ts] = nextCell + 1]
    /\ UNCHANGED <<pc, cell, timestamp, returned, fetches>>

Next ==
    \/ \E k \in Callers, ts \in Timestamps : GetEntry(k, ts)
    \/ \E k \in Callers : ReadCheck(k) \/ AcquireWrite(k) \/ FetchErr(k)
    \/ \E k \in Callers, v \in Values : FetchOk(k, v)
    \/ \E ts \in Timestamps, v \in Values : Set(ts, v)

Spec == Init /\ [][Next]_vars

\* The step caller k's get takes next: the read check, the write lock, or
\* the completion of its fetch.
GetStep(k) ==
    ReadCheck(k) \/ AcquireWrite(k) \/ FetchErr(k) \/ \E v \in Values : FetchOk(k, v)

(* tokio's RwLock queues waiters fairly (FIFO), so a caller waiting for    *)
(* the read or the write lock of a cell that is released again and again   *)
(* gets it: strong fairness.  The fetch future is assumed to complete      *)
(* (Ok or Err); the code puts no timeout on it.  Nobody is obliged to call *)
(* get or set.                                                             *)
Fairness == \A k \in Callers : SF_vars(GetStep(k))

FairSpec == Spec /\ Fairness

-----------------------------------------------------------------------------
(***************************************************************************)
(* Properties.                                                             *)
(***************************************************************************)

\* A cell, once it holds a value, keeps it: no get that arrives while the
\* first fetch is running may fetch again and overwrite it.  This is what
\* the re-check under the write lock in get (the `Some(value)` arm) is for.
ResolvedNeverChanges ==
    [][\A c \in CellIds : cells[c] # None => cells'[c] = cells[c]]_cells

\* Every get that returned Ok from the same cell returned the same value:
\* the waiters coalesced on one cell all see the single fetched value.
WaitersAgree ==
    \A r1, r2 \in returned : r1[1] = r2[1] => r1[2] = r2[2]

\* Spec 3(a), 4.1 and 8.1: at most one upstream fetch per timestamp over
\* the cache's lifetime; a failed fetch is kept and re-returned, not
\* retried.  get stores nothing on Err, so the next waiter fetches again.
AtMostOneFetch ==
    \A t \in Timestamps : fetches[t] <= 1

\* Every get returns, however the callers of a timestamp interleave: the
\* read check, the write lock and its re-check never wait on each other in
\* a cycle, provided each fetch completes (cache.rs:56 awaits it with the
\* write lock held).
EveryGetReturns ==
    \A k \in Callers : pc[k] # "idle" ~> pc[k] = "idle"
=============================================================================
