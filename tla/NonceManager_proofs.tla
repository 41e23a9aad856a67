------------------------ MODULE NonceManager_proofs ------------------------
(***************************************************************************)
(* Uniqueness of the nonces of one run of the process, for any number of   *)
(* threads and any answers of the RPC node; and what a start depends on,   *)
(* for any number of restarts.                                             *)
(***************************************************************************)
EXTENDS WalletStartup, TLAPS

\* Before the process is up no nonce has been handed out in this run.
NonceInv == NonceTypeOK /\ AheadOfIssued /\ (~up => issued = {})

\* No step of any thread brings the counter back to a nonce already out.
LEMMA NonceStep ==
    ASSUME NonceInv, [Next]_vars
    PROVE  NonceInv'
<1> USE DEF resyncVars
<1>1. CASE sync
  <2>1. nonce' \in Nat  BY <1>1 DEF sync, NonceInv, NonceTypeOK
  <2>2. up' \in BOOLEAN /\ up'  BY <1>1, Zenon DEF sync
  <2>3. issued = {}  BY <1>1 DEF sync, NonceInv
  <2> QED
    BY <1>1, <2>1, <2>2, <2>3 DEF sync, NonceInv, NonceTypeOK, AheadOfIssued
<1>2. CASE Transact
  BY <1>2 DEF Transact, NonceInv, NonceTypeOK, AheadOfIssued
<1>3. CASE Restart
  <2>1. up' \in BOOLEAN /\ ~up'  BY <1>3, Zenon DEF Restart
  <2> QED
    BY <1>3, <2>1 DEF Restart, NonceInv, NonceTypeOK, AheadOfIssued
<1>4. ASSUME NEW t \in Threads, next(t) PROVE NonceInv'
  BY <1>4 DEF next, NonceInv, NonceTypeOK, AheadOfIssued
<1>5. ASSUME NEW t \in Threads, resync_query(t) \/ resync_load(t) PROVE NonceInv'
  BY <1>5 DEF resync_query, resync_load, NonceInv, NonceTypeOK, AheadOfIssued
<1>6. ASSUME NEW t \in Threads, resync_ahead(t) \/ resync_retry(t) PROVE NonceInv'
  BY <1>6 DEF resync_ahead, resync_retry, NonceInv, NonceTypeOK, AheadOfIssued
<1>7. ASSUME NEW t \in Threads, resync_swap(t) PROVE NonceInv'
  <2>1. nonce' \in Nat /\ nonce < nonce'
    BY <1>7 DEF resync_swap, NonceInv, NonceTypeOK
  <2> QED
    BY <1>7, <2>1 DEF resync_swap, NonceInv, NonceTypeOK, AheadOfIssued
<1>8. CASE UNCHANGED vars
  BY <1>8 DEF vars, NonceInv, NonceTypeOK, AheadOfIssued
<1> QED
  BY <1>1, <1>2, <1>3, <1>4, <1>5, <1>6, <1>7, <1>8 DEF Next, Thread

\* The counter stays ahead of everything it has handed out.
THEOREM CounterAhead == Spec => []NonceInv
<1>1. Init => NonceInv
  <2> SUFFICES ASSUME Init PROVE NonceInv
    OBVIOUS
  <2>1. up \in BOOLEAN  BY Zenon DEF Init
  <2> QED  BY <2>1, NonceAssumption DEF Init, NonceInv, NonceTypeOK, AheadOfIssued
<1> QED  BY <1>1, NonceStep, PTL DEF Spec

\* However next() and force_resync() interleave, and whatever stale count the
\* RPC node answers, a nonce is handed out once per run and they only grow.
THEOREM NoncesIssuedOnce == Spec => IssuedOnce
<1>1. NonceInv /\ [Next]_vars => [\A t \in Threads : next(t) => \A k \in issued : k < nonce]_vars
  BY DEF NonceInv, AheadOfIssued
<1> QED  BY <1>1, CounterAhead, PTL DEF Spec, IssuedOnce

-----------------------------------------------------------------------------
(* The start-up.                                                           *)

\* Every step of the process is a step of the nonce manager or none of it.
LEMMA NonceSteps ==
    ASSUME [WalletNext]_walletVars PROVE [Next]_vars
  BY DEF WalletNext, walletVars, load, create, derive, sync_nonce, trade, transact, restart, Next,
     Thread

\* Uniqueness holds in the process that starts, seeds the counter and restarts.
THEOREM WalletNonces == WalletSpec => IssuedOnce
<1>1. WalletInit => Init
  BY DEF WalletInit
<1>2. [WalletNext]_walletVars => [Next]_vars
  BY NonceSteps
<1>3. WalletSpec => Spec
  BY <1>1, <1>2, PTL DEF WalletSpec, Spec
<1> QED  BY <1>3, NoncesIssuedOnce, PTL

\* derive is asked only when the CLOB has a key, and a failed start met a fault.
StartInv ==
    /\ step \in {"load", "create", "derive", "sync", "trade", "failed"}
    /\ step = "derive" => api_key
    /\ StartFailsOnlyOnFault

\* The 400 of an existing key never makes a start fail, for any number of
\* restarts and any answers lost before.
THEOREM StartsUnlessFault == WalletSpec => []StartFailsOnlyOnFault
<1>1. WalletInit => StartInv
  BY DEF WalletInit, StartInv, StartFailsOnlyOnFault
<1>2. ASSUME StartInv, [WalletNext]_walletVars PROVE StartInv'
  <2>1. CASE load
    BY <1>2, <2>1 DEF load, StartInv, StartFailsOnlyOnFault
  <2>2. ASSUME NEW a \in Answers, create(a) PROVE StartInv'
    BY <1>2, <2>2 DEF create, clob_create, authenticated, StartInv, StartFailsOnlyOnFault
  <2>3. ASSUME NEW a \in Answers, derive(a) PROVE StartInv'
    BY <1>2, <2>3 DEF derive, clob_derive, authenticated, StartInv, StartFailsOnlyOnFault
  <2>4. CASE sync_nonce \/ restart
    BY <1>2, <2>4 DEF sync_nonce, restart, StartInv, StartFailsOnlyOnFault
  <2>5. CASE trade \/ transact \/ UNCHANGED walletVars
    BY <1>2, <2>5 DEF trade, transact, authVars, walletVars, StartInv, StartFailsOnlyOnFault
  <2> QED  BY <1>2, <2>1, <2>2, <2>3, <2>4, <2>5 DEF WalletNext
<1>3. StartInv => StartFailsOnlyOnFault
  BY DEF StartInv
<1> QED  BY <1>1, <1>2, <1>3, PTL DEF WalletSpec

=============================================================================
