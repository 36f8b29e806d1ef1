----------------------- MODULE MC_OracleRegistration -----------------------
EXTENDS OracleRegistration, TLC

CONSTANTS w1, w2, a1, a2

\* One deployment: a single worker process, restarted.
MCOneWorker == {w1}
MCOneAuthority == {a1}
MCOneAuthorityOf == [w \in MCOneWorker |-> a1]

\* Inside its enclave a worker opens its sealed key file; outside it (the
\* debugging escape hatch of load_enclave_signer) it cannot.
MCInEnclave == {TRUE}
MCAnySealing == BOOLEAN

\* Two deployments with their own payers (e.g. two operators, or a second
\* environment pointed at the same program).
MCTwoWorkers == {w1, w2}
MCTwoAuthorities == {a1, a2}
MCTwoAuthorityOf == (w1 :> a1) @@ (w2 :> a2)
=============================================================================
