----------------------------- MODULE Supervisor -----------------------------
(***************************************************************************)
(* How the worker process starts and ends (switchboard-function/src/      *)
(* main.rs, OracleWorker::run/new/initialize/start in worker.rs and the    *)
(* configuration of env.rs).  run() creates the worker (configuration,     *)
(* keys, clients), initializes it, then drives six loops in one            *)
(* tokio::select!, so they share one task; the first branch to complete    *)
(* ends them all:                                                          *)
(*   - a loop that returns makes start() return Err, run() returns, and    *)
(*     main's subsystem calls request_shutdown and returns Ok(());         *)
(*   - a panic inside any loop unwinds the subsystem, which Toplevel       *)
(*     reports as a failed subsystem; main returns Err;                    *)
(*   - a signal completes on_shutdown_requested and drops run().           *)
(* The loops: watch_blockhash_and_slot and watch_open_order_accounts never *)
(* return (their closures always return Ok); watch_payer_balance panics on *)
(* low funds; watch_anchor_events is EventSubscription and returns when    *)
(* its retries run out; CoinbaseProvider::watch panics if the connect or   *)
(* subscribe fails and returns when the websocket stream ends;             *)
(* PythProvider::watch panics on an HTTP error (PythProvider.tla).         *)
(***************************************************************************)
EXTENDS Naturals, Sequences

CONSTANTS
    MaxRetries, BaseDelay, DelayCap, MaxSessions,  \* of EventSubscription
    Balances,   \* lamport balances the payer account may have
    LowFunds,   \* the threshold of watch_payer_balance (10 000)
    None        \* model value: no exit code yet

(* The environment the process is started with, as WorkerEnvironment      *)
(* reads it: whether envy can decode it, PAYER_SECRET (absent, 64 bytes of *)
(* a valid or an invalid keypair, or another length), FS_PAYER_SECRET_PATH *)
(* (absent, a readable keypair file, or not) and PROGRAM_ID (unset, so the *)
(* compiled-in default, a valid pubkey, or an invalid string).             *)
Configs ==
    [parses : BOOLEAN,
     secret : {"absent", "valid", "invalid", "badLength"},
     path : {"absent", "valid", "invalid"},
     programId : {"unset", "valid", "invalid"}]

\* The programs a worker may target: the one named in PROGRAM_ID, or the
\* compiled-in ProgramID.
Programs == {"configured", "builtin"}

VARIABLES
    config,        \* the process environment (Configs), fixed at start
    deployed,      \* the programs whose program-state account exists
    evPc, retryCount, delay, sessions, sleeps,  \* watch_anchor_events
    blockhash,     \* recent_blockhash: "default" until the first refresh
    payerBalance,  \* payer_balance as last fetched
    chainBalance,  \* the payer's balance on chain
    coinbase,      \* CoinbaseProvider::watch: "connecting" or "streaming"
    worker,        \* run(): "creating", "initializing", "registering",
                   \* "running", or how it ended: "returned", "panicked", "cancelled"
    cause,         \* what ended run(), or "none"
    exitCode       \* the process exit status, or None while it runs

envVars == <<config, deployed>>
eventVars == <<evPc, retryCount, delay, sessions, sleeps>>
loopVars == <<blockhash, payerBalance, chainBalance, coinbase>>
vars == <<envVars, eventVars, loopVars, worker, cause, exitCode>>

Events == INSTANCE EventSubscription WITH pc <- evPc

Stages == {"creating", "initializing", "registering", "running"}
Causes == {"none", "config", "startup", "balance", "events", "coinbase", "pyth", "signal"}

TypeOK ==
    /\ config \in Configs
    /\ deployed \subseteq Programs
    /\ Events!TypeOK
    /\ blockhash \in {"default", "current"}
    /\ payerBalance \in Balances \cup {0}
    /\ chainBalance \in Balances
    /\ coinbase \in {"connecting", "streaming"}
    /\ worker \in Stages \cup {"returned", "panicked", "cancelled"}
    /\ cause \in Causes
    /\ exitCode \in {None, 0, 1}

(* OracleWorker::new and the struct's defaults: payer_balance and          *)
(* recent_blockhash are Default::default() until their loops refresh them. *)
Init ==
    /\ config \in Configs
    /\ deployed \in SUBSET Programs
    /\ Events!Init
    /\ blockhash = "default"
    /\ payerBalance = 0
    /\ chainBalance \in Balances
    /\ coinbase = "connecting"
    /\ worker = "creating"
    /\ cause = "none"
    /\ exitCode = None

Alive   == worker \in Stages
Running == worker = "running"

(* start_routine: `loop { interval.tick().await; async_fn().await?; }`.    *)
(* A routine ticks for as long as run()'s select! polls it; it leaves the  *)
(* loop only through `?` on an Err of its closure, which its watch_*       *)
(* caller unwrap()s (PythPanic).  The blockhash and balance closures       *)
(* always return Ok, so those routines never return.                       *)
Routine == Running

\* run() ends with the given outcome; what ended it is recorded.
End(outcome, branch) == worker' = outcome /\ cause' = branch

(* get_payer: 64 bytes of PAYER_SECRET are decoded (an invalid keypair is  *)
(* Err without looking further); a secret of another length is ignored    *)
(* and FS_PAYER_SECRET_PATH is read; neither is Err.                       *)
PayerLoads(c) ==
    \/ c.secret = "valid"
    \/ c.secret \in {"absent", "badLength"} /\ c.path = "valid"

(* get_program_id: PROGRAM_ID if it decodes; an invalid one is logged and  *)
(* the compiled-in ProgramID used.  Unset, serde's default is ProgramID.   *)
TargetProgram(c) == IF c.programId = "valid" THEN "configured" ELSE "builtin"

\* The worker could be created with this environment.
ConfigOk(c) == c.parses /\ PayerLoads(c)

(* OracleWorker::new: WorkerEnvironment::get_or_init unwrap()s envy's      *)
(* decode, get_payer() is unwrap()ed; load_enclave_signer returns the Err  *)
(* of Gramine::read_rand with `?` (a fresh key is needed); the websocket   *)
(* PubsubClient::new is unwrap()ed.  Otherwise run() goes on to initialize. *)
CreateWorker ==
    /\ worker = "creating"
    /\ IF ~ConfigOk(config)
         THEN End("panicked", "config")
         ELSE \E outcome \in {"ok", "randErr", "pubsubErr"} :
                CASE outcome = "ok"      -> worker' = "initializing" /\ UNCHANGED cause
                  [] outcome = "randErr" -> End("returned", "startup")
                  [] OTHER               -> End("panicked", "startup")
    /\ UNCHANGED <<envVars, eventVars, loopVars, exitCode>>

(* initialize_program_accounts: get_account of the program-state PDA of    *)
(* the targeted program; an Err returns from initialize and from run().    *)
InitProgramAccounts ==
    /\ worker = "initializing"
    /\ IF TargetProgram(config) \in deployed
         THEN worker' = "registering" /\ UNCHANGED cause
         ELSE End("returned", "startup")
    /\ UNCHANGED <<envVars, eventVars, loopVars, exitCode>>

(* initialize_oracle_signer (OracleRegistration.tla): Ok, or the Err of    *)
(* the register_oracle transaction, which run() returns; then start().     *)
InitSigner ==
    /\ worker = "registering"
    /\ \/ worker' = "running" /\ UNCHANGED cause
       \/ End("returned", "startup")
    /\ UNCHANGED <<envVars, eventVars, loopVars, exitCode>>

(* watch_blockhash_and_slot: a successful get_latest_blockhash replaces    *)
(* recent_blockhash; an error is ignored and the loop goes on.             *)
BlockhashTick ==
    /\ Routine
    /\ blockhash' = "current"
    /\ UNCHANGED <<envVars, eventVars, payerBalance, chainBalance, coinbase, worker, cause, exitCode>>

\* Mutant: low funds are balances strictly below the threshold.
BalanceTickStrict ==
    /\ Routine
    /\ IF chainBalance < LowFunds
         THEN End("panicked", "balance") /\ UNCHANGED payerBalance
         ELSE payerBalance' = chainBalance /\ UNCHANGED <<worker, cause>>
    /\ UNCHANGED <<envVars, eventVars, blockhash, chainBalance, coinbase, exitCode>>

(* fetch_payer_balance with a successful get_balance: a balance at or      *)
(* below the threshold panics, any other is stored.  (An Err of get_balance *)
(* is only logged and changes nothing.)                                    *)
BalanceTick ==
    /\ Routine
    /\ IF chainBalance <= LowFunds
         THEN End("panicked", "balance") /\ UNCHANGED payerBalance
         ELSE payerBalance' = chainBalance /\ UNCHANGED <<worker, cause>>
    /\ UNCHANGED <<envVars, eventVars, blockhash, chainBalance, coinbase, exitCode>>

\* The payer pays fees and rent: its balance goes down.
Spend ==
    /\ \E b \in Balances : b < chainBalance /\ chainBalance' = b
    /\ UNCHANGED <<envVars, eventVars, blockhash, payerBalance, coinbase, worker, cause, exitCode>>

\* A step of watch_anchor_events; its return (the loop's break) ends run().
EventsStep ==
    /\ Running
    /\ Events!Next
    /\ IF evPc' = "exited" THEN End("returned", "events") ELSE UNCHANGED <<worker, cause>>
    /\ UNCHANGED <<envVars, blockhash, payerBalance, chainBalance, coinbase, exitCode>>

(* CoinbaseProvider::watch: connect_async and the subscribe send are       *)
(* expect()ed; on success the reader task feeds the channel.               *)
CoinbaseConnect(ok) ==
    /\ Running
    /\ coinbase = "connecting"
    /\ IF ok THEN coinbase' = "streaming" /\ UNCHANGED <<worker, cause>>
             ELSE End("panicked", "coinbase") /\ UNCHANGED coinbase
    /\ UNCHANGED <<envVars, eventVars, blockhash, payerBalance, chainBalance, exitCode>>

(* The websocket stream ends (closed or reset): the reader task drops its  *)
(* sender, rx.recv() yields None and watch returns.                        *)
CoinbaseStreamEnd ==
    /\ Running
    /\ coinbase = "streaming"
    /\ End("returned", "coinbase")
    /\ UNCHANGED <<envVars, eventVars, blockhash, payerBalance, chainBalance, coinbase, exitCode>>

\* PythProvider::watch panics on a failed request (PythProvider's crashed).
PythPanic ==
    /\ Routine
    /\ End("panicked", "pyth")
    /\ UNCHANGED <<envVars, eventVars, blockhash, payerBalance, chainBalance, coinbase, exitCode>>

\* SIGINT or SIGTERM: on_shutdown_requested wins the subsystem's select!,
\* whichever step of run() is pending.
Signal ==
    /\ Alive
    /\ End("cancelled", "signal")
    /\ UNCHANGED <<envVars, eventVars, blockhash, payerBalance, chainBalance, coinbase, exitCode>>

(* main: the subsystem returns Ok(()) after run() returned or was dropped,  *)
(* and Toplevel ends with Ok; a panicked subsystem makes it end with Err,  *)
(* which main returns: exit status 1.                                      *)
Exit ==
    /\ ~Alive
    /\ exitCode = None
    /\ exitCode' = IF worker = "panicked" THEN 1 ELSE 0
    /\ UNCHANGED <<envVars, eventVars, blockhash, payerBalance, chainBalance, coinbase, worker, cause>>

Next ==
    \/ CreateWorker
    \/ InitProgramAccounts
    \/ InitSigner
    \/ BlockhashTick
    \/ BalanceTick
    \/ Spend
    \/ EventsStep
    \/ \E ok \in BOOLEAN : CoinbaseConnect(ok)
    \/ CoinbaseStreamEnd
    \/ PythPanic
    \/ Signal
    \/ Exit

\* Each startup await completes (its RPC answers or fails); tokio keeps
\* polling every select! branch and the balance interval keeps ticking;
\* get_balance eventually succeeds; main runs to its end.
Fairness ==
    /\ WF_vars(CreateWorker) /\ WF_vars(InitProgramAccounts) /\ WF_vars(InitSigner)
    /\ WF_vars(BalanceTick) /\ WF_vars(Exit)

Spec     == Init /\ [][Next]_vars
FairSpec == Spec /\ Fairness

-----------------------------------------------------------------------------
\* The reconnect schedule of watch_anchor_events, inside the supervisor.
BackoffSchedule == Events!BackoffSchedule

\* Spec 4.5 and 7: insufficient funds are fatal.  Once the payer's balance
\* is at or below the threshold, the process eventually exits, whatever
\* the other loops do (they may all run for ever).
LowFundsStopWorker ==
    (chainBalance <= LowFunds) ~> (exitCode # None)

\* Spec 4.6 and 7: the exit of any loop is a fatal SubsystemExited error,
\* and the process exits on fatal conditions; only a requested shutdown is
\* a normal end.  An exit status of 0 is therefore a signal's.
FatalExitFails ==
    exitCode = 0 => cause = "signal"
=============================================================================
