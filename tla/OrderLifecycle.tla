--------------------------- MODULE OrderLifecycle ---------------------------
(***************************************************************************)
(* What the backfill oracle promises a user, with no worker in it: an      *)
(* order is created open, is fulfilled exactly once and is then closed for *)
(* good, and the oracle reports an order done only once it is closed.      *)
(* Worker.tla implements this specification through a refinement mapping  *)
(* (Worker!Lifecycle).                                                     *)
(***************************************************************************)
EXTENDS Naturals

CONSTANT Orders

VARIABLES
    status,  \* status[o]: "none", "open" or "closed"
    fills,   \* fills[o]: how many times o has been fulfilled
    acked    \* the orders the oracle has reported fulfilled

vars == <<status, fills, acked>>

TypeOK ==
    /\ status \in [Orders -> {"none", "open", "closed"}]
    /\ fills \in [Orders -> 0..1]
    /\ acked \subseteq Orders

Init ==
    /\ status = [o \in Orders |-> "none"]
    /\ fills = [o \in Orders |-> 0]
    /\ acked = {}

\* A user opens an order.
Open(o) ==
    /\ status[o] = "none"
    /\ status' = [status EXCEPT ![o] = "open"]
    /\ UNCHANGED <<fills, acked>>

\* The oracle fulfils an open order, which closes it.
Fulfil(o) ==
    /\ status[o] = "open"
    /\ status' = [status EXCEPT ![o] = "closed"]
    /\ fills' = [fills EXCEPT ![o] = @ + 1]
    /\ UNCHANGED acked

\* The oracle reports a closed order done.
Ack(o) ==
    /\ status[o] = "closed"
    /\ o \notin acked
    /\ acked' = acked \cup {o}
    /\ UNCHANGED <<status, fills>>

Next == \E o \in Orders : Open(o) \/ Fulfil(o) \/ Ack(o)

Spec == Init /\ [][Next]_vars

\* No open order is left open forever.
LiveSpec == Spec /\ \A o \in Orders : WF_vars(Fulfil(o))
=============================================================================
