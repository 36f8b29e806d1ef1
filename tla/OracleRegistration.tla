------------------------ MODULE OracleRegistration ------------------------
(***************************************************************************)
(* How worker processes become the program's oracle.                       *)
(*   - OracleWorker::new loads the enclave key (WorkerEnvironment::        *)
(*     load_enclave_signer): the sealed key file if it can be opened and   *)
(*     holds 64 bytes, a fresh key written to it if it holds none, and a   *)
(*     fresh unsaved key if it cannot be opened (outside the enclave or    *)
(*     under another enclave measurement).  Its oracle account is the PDA  *)
(*     of ["ORACLE", payer].                                               *)
(*   - initialize_oracle_signer reads that account and, unless it records  *)
(*     this key, sends register_oracle; an Err ends the worker.            *)
(*   - register_oracle (programs/backfill-oracle/src/lib.rs) initialises a *)
(*     new oracle account (bump == 0) and then points program.oracle at    *)
(*     it, and always overwrites the account's enclave_signer.             *)
(*   - fulfill_order needs program.oracle == the worker's oracle account   *)
(*     (has_one = oracle) and that account's enclave_signer == its key.    *)
(* An oracle account is named by its authority (the payer).                *)
(***************************************************************************)
EXTENDS Naturals, FiniteSets

CONSTANTS
    Workers,      \* worker processes (deployments)
    Authorities,  \* payers, each naming an oracle account
    AuthorityOf,  \* AuthorityOf[w]: the payer of worker w
    MaxStarts,    \* bound on the starts of each worker
    Sealing,      \* the values sealed[w] may take: can w open its key file
    None,         \* model value: no key, no account, no oracle
    Misaligned    \* model value: a pubkey read 8 bytes off its field

ASSUME AuthorityOf \in [Workers -> Authorities] /\ MaxStarts \in Nat \ {0}
ASSUME Sealing \subseteq BOOLEAN /\ Sealing # {}

\* Keys are numbered in the order they are generated.
Keys == 1..(MaxStarts * Cardinality(Workers))

VARIABLES
    sealed,      \* sealed[w]: w's key file can be opened (it runs in its enclave)
    keyFile,     \* keyFile[w]: the key in w's sealed file, or None
    key,         \* key[w]: the enclave key of w's current process
    nextKey,     \* keys generated so far
    phase,       \* phase[w]: "down", "check", "register" or "ready"
    starts,      \* starts[w]: processes of w started so far
    progOracle,  \* ProgramAccount.oracle: an authority's oracle account, or None
    signer,      \* signer[a]: enclave_signer of a's oracle account; None if absent
    pending      \* register_oracle transactions <<authority, key>> whose
                 \* confirmation failed but which may still land

vars == <<sealed, keyFile, key, nextKey, phase, starts, progOracle, signer, pending>>

TypeOK ==
    /\ sealed \in [Workers -> BOOLEAN]
    /\ keyFile \in [Workers -> Keys \cup {None}]
    /\ key \in [Workers -> Keys \cup {None}]
    /\ nextKey \in 0..Cardinality(Keys)
    /\ phase \in [Workers -> {"down", "check", "register", "ready"}]
    /\ starts \in [Workers -> 0..MaxStarts]
    /\ progOracle \in Authorities \cup {None}
    /\ signer \in [Authorities -> Keys \cup {None}]
    /\ pending \subseteq Authorities \X Keys

Init ==
    /\ sealed \in [Workers -> Sealing]
    /\ keyFile = [w \in Workers |-> None]
    /\ key = [w \in Workers |-> None]
    /\ nextKey = 0
    /\ phase = [w \in Workers |-> "down"]
    /\ starts = [w \in Workers |-> 0]
    /\ progOracle = None
    /\ signer = [a \in Authorities |-> None]
    /\ pending = {}

\* Mutant: the sealed key file is ignored and a fresh key written every start.
StartFreshKey(w) ==
    /\ phase[w] = "down"
    /\ starts[w] < MaxStarts
    /\ starts' = [starts EXCEPT ![w] = @ + 1]
    /\ nextKey' = nextKey + 1
    /\ key' = [key EXCEPT ![w] = nextKey + 1]
    /\ keyFile' = IF sealed[w] THEN [keyFile EXCEPT ![w] = nextKey + 1] ELSE keyFile
    /\ phase' = [phase EXCEPT ![w] = "check"]
    /\ UNCHANGED <<sealed, progOracle, signer, pending>>

(* OracleWorker::new with load_enclave_signer: the sealed key if the file  *)
(* opens and holds one, else a fresh key (written back if the file opens). *)
Start(w) ==
    /\ phase[w] = "down"
    /\ starts[w] < MaxStarts
    /\ starts' = [starts EXCEPT ![w] = @ + 1]
    /\ IF sealed[w] /\ keyFile[w] # None
         THEN /\ key' = [key EXCEPT ![w] = keyFile[w]]
              /\ UNCHANGED <<nextKey, keyFile>>
         ELSE /\ nextKey' = nextKey + 1
              /\ key' = [key EXCEPT ![w] = nextKey + 1]
              /\ keyFile' = IF sealed[w] THEN [keyFile EXCEPT ![w] = nextKey + 1]
                                         ELSE keyFile
    /\ phase' = [phase EXCEPT ![w] = "check"]
    /\ UNCHANGED <<sealed, progOracle, signer, pending>>

(* OracleAccount::deserialize is borsh on the raw account data, which     *)
(* starts with Anchor's 8-byte discriminator (watch_open_order_accounts    *)
(* uses try_deserialize, which skips it).  It succeeds on the 97 bytes,    *)
(* and the enclave_signer it yields is bytes 33..65: the end of authority  *)
(* and the start of the real signer, which equals no key.                  *)
DecodedSigner(a) == IF signer[a] = None THEN None ELSE Misaligned

CheckSigner(w) ==
    /\ phase[w] = "check"
    /\ phase' = [phase EXCEPT ![w] =
                   IF DecodedSigner(AuthorityOf[w]) = key[w] THEN "ready" ELSE "register"]
    /\ UNCHANGED <<sealed, keyFile, key, nextKey, starts, progOracle, signer, pending>>

(* register_oracle executes for authority a's oracle account with key k:  *)
(* a new account (bump == 0) becomes program.oracle; the account's         *)
(* enclave_signer becomes k.                                               *)
RegisterOracle(a, k) ==
    /\ progOracle' = IF signer[a] = None THEN a ELSE progOracle
    /\ signer' = [signer EXCEPT ![a] = k]

\* Mutant: program.oracle is set to the enclave key instead of the account.
RegisterLandOracleIsKey(w) ==
    /\ phase[w] = "register"
    /\ LET a == AuthorityOf[w] IN
       /\ progOracle' = IF signer[a] = None THEN key[w] ELSE progOracle
       /\ signer' = [signer EXCEPT ![a] = key[w]]
    /\ phase' = [phase EXCEPT ![w] = "ready"]
    /\ UNCHANGED <<sealed, keyFile, key, nextKey, starts, pending>>

(* The register_oracle transaction of initialize_oracle_signer is          *)
(* confirmed; the worker goes on to start().                               *)
RegisterLand(w) ==
    /\ phase[w] = "register"
    /\ RegisterOracle(AuthorityOf[w], key[w])
    /\ phase' = [phase EXCEPT ![w] = "ready"]
    /\ UNCHANGED <<sealed, keyFile, key, nextKey, starts, pending>>

(* send_and_confirm_transaction returns Err (a confirmation timeout, or    *)
(* the default blockhash of `unwrap_or_default` rejected): initialize      *)
(* returns Err, run returns, and the process exits.  A transaction that   *)
(* was sent and not rejected may still execute later (lands), or expire.  *)
RegisterFail(w) ==
    /\ phase[w] = "register"
    /\ starts[w] < MaxStarts
    /\ phase' = [phase EXCEPT ![w] = "down"]
    /\ \E lands \in BOOLEAN :
         pending' = IF lands THEN pending \cup {<<AuthorityOf[w], key[w]>>} ELSE pending
    /\ UNCHANGED <<sealed, keyFile, key, nextKey, starts, progOracle, signer>>

\* A register_oracle whose sender saw an Err executes on chain after all.
LateRegister(tx) ==
    /\ tx \in pending
    /\ RegisterOracle(tx[1], tx[2])
    /\ pending' = pending \ {tx}
    /\ UNCHANGED <<sealed, keyFile, key, nextKey, phase, starts>>

\* A running worker exits (a select! branch returns or a task panics).
Crash(w) ==
    /\ phase[w] = "ready"
    /\ starts[w] < MaxStarts
    /\ phase' = [phase EXCEPT ![w] = "down"]
    /\ UNCHANGED <<sealed, keyFile, key, nextKey, starts, progOracle, signer, pending>>

Next ==
    \E w \in Workers :
        \/ Start(w) \/ CheckSigner(w) \/ RegisterLand(w) \/ RegisterFail(w)
        \/ Crash(w)
    \/ \E tx \in pending : LateRegister(tx)

\* Process restarts and the checks run; the last allowed process of a
\* worker is not failed by the environment.  A late transaction need not
\* ever land.
Fairness ==
    \A w \in Workers :
        WF_vars(Start(w)) /\ WF_vars(CheckSigner(w)) /\ WF_vars(RegisterLand(w))

Spec     == Init /\ [][Next]_vars
FairSpec == Spec /\ Fairness

-----------------------------------------------------------------------------
\* The accounts of fulfill_order that worker w signs pass the program's
\* has_one = oracle and has_one = enclave_signer constraints.
CanFulfil(w) ==
    /\ progOracle = AuthorityOf[w]
    /\ signer[AuthorityOf[w]] = key[w]

\* Spec 4.5 bootstrap: a worker that has finished initialize (started its
\* loops) holds the registered enclave signer of the program's oracle, so
\* its fulfill_order transactions can succeed, even when a register_oracle
\* of one of its earlier processes, which that process saw fail, executes
\* after this one registered.  That is safe only because each restart
\* loads the same sealed key.
ReadyCanFulfil ==
    \A w \in Workers : phase[w] = "ready" => CanFulfil(w)

\* Spec 4.5 bootstrap step 3, "Idempotent: on match, do nothing": a worker
\* whose oracle account already records its (sealed) key goes on without
\* sending register_oracle again.
SkipWhenRegistered ==
    [][\A w \in Workers :
         (phase[w] = "check" /\ signer[AuthorityOf[w]] = key[w])
           => phase'[w] # "register"]_vars

=============================================================================
