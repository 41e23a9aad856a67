---------------------------- MODULE NonceManager ----------------------------
(***************************************************************************)
(* wallet::NonceManager: one atomic counter shared by every order state    *)
(* machine thread.  main() seeds it once at startup from the transaction   *)
(* count of the wallet, next() hands out a nonce per order, force_resync() *)
(* moves it forward with a compare-and-swap loop.  A restart loses the     *)
(* counter.                                                                *)
(*                                                                         *)
(* Next lets any thread call next() and force_resync(), as the class       *)
(* allows; the program calls only the first (WalletStartup).               *)
(***************************************************************************)
EXTENDS Integers

CONSTANTS Threads,      \* callers of next() and force_resync()
          MaxNonce,     \* bound: next() is not called beyond this value
          MaxRestarts   \* bound: process restarts

ASSUME NonceAssumption == MaxNonce \in Nat /\ MaxRestarts \in Nat

VARIABLES nonce,        \* nonce_
          chain,        \* eth_getTransactionCount of the wallet
          pc,           \* pc[t]: "idle", "queried" or "cas" in force_resync
          fresh,        \* fresh[t]: the count force_resync got
          current,      \* current[t]: the counter value it compares with
          issued,       \* nonces next() returned since the last start
          up,           \* main() has got past the nonce sync
          restarts

vars == <<nonce, chain, pc, fresh, current, issued, up, restarts>>
resyncVars == <<pc, fresh, current>>

Init ==
    /\ nonce = 0
    /\ chain \in 0..MaxNonce
    /\ pc = [t \in Threads |-> "idle"]
    /\ fresh = [t \in Threads |-> 0]
    /\ current = [t \in Threads |-> 0]
    /\ issued = {}
    /\ up = FALSE
    /\ restarts = 0

-----------------------------------------------------------------------------
\* main(): sync(), or a warning and a start at 0 when the RPC query throws.
sync ==
    /\ ~up
    /\ up' = TRUE
    /\ nonce' = chain \/ nonce' = 0
    /\ UNCHANGED <<chain, resyncVars, issued, restarts>>

\* fetch_add(1).
next(t) ==
    /\ up /\ pc[t] = "idle"
    /\ nonce <= MaxNonce
    /\ nonce' = nonce + 1
    /\ issued' = issued \cup {nonce}
    /\ UNCHANGED <<chain, resyncVars, up, restarts>>

\* force_resync: the RPC query, then the load, then the loop.  The query asks a
\* second node when the first fails, and throws when both do.
resync_query(t) ==
    /\ up /\ pc[t] = "idle"
    /\ pc' = [pc EXCEPT ![t] = "queried"]
    /\ fresh' = [fresh EXCEPT ![t] = chain]
    /\ UNCHANGED <<nonce, chain, current, issued, up, restarts>>

resync_load(t) ==
    /\ pc[t] = "queried"
    /\ pc' = [pc EXCEPT ![t] = "cas"]
    /\ current' = [current EXCEPT ![t] = nonce]
    /\ UNCHANGED <<nonce, chain, fresh, issued, up, restarts>>

\* fresh <= current: leave the counter alone.
resync_ahead(t) ==
    /\ pc[t] = "cas"
    /\ fresh[t] <= current[t]
    /\ pc' = [pc EXCEPT ![t] = "idle"]
    /\ UNCHANGED <<nonce, chain, fresh, current, issued, up, restarts>>

resync_swap(t) ==
    /\ pc[t] = "cas"
    /\ fresh[t] > current[t]
    /\ nonce = current[t]
    /\ nonce' = fresh[t]
    /\ pc' = [pc EXCEPT ![t] = "idle"]
    /\ UNCHANGED <<chain, fresh, current, issued, up, restarts>>

\* compare_exchange_weak fails, because the counter moved or spuriously, and
\* reloads current.
resync_retry(t) ==
    /\ pc[t] = "cas"
    /\ fresh[t] > current[t]
    /\ current' = [current EXCEPT ![t] = nonce]
    /\ UNCHANGED <<nonce, chain, pc, fresh, issued, up, restarts>>

\* The wallet makes an on-chain transaction (an approval, a redemption).
Transact ==
    /\ chain < MaxNonce
    /\ chain' = chain + 1
    /\ UNCHANGED <<nonce, resyncVars, issued, up, restarts>>

\* The process is restarted: systemd, or the operator after a kill switch.
Restart ==
    /\ restarts < MaxRestarts
    /\ restarts' = restarts + 1
    /\ nonce' = 0
    /\ pc' = [t \in Threads |-> "idle"]
    /\ issued' = {}
    /\ up' = FALSE
    /\ UNCHANGED <<chain, fresh, current>>

Thread(t) ==
    \/ next(t) \/ resync_query(t) \/ resync_load(t)
    \/ resync_ahead(t) \/ resync_swap(t) \/ resync_retry(t)

Next == sync \/ Transact \/ Restart \/ \E t \in Threads : Thread(t)

Spec == Init /\ [][Next]_vars

-----------------------------------------------------------------------------
NonceTypeOK ==
    /\ nonce \in Nat /\ chain \in Nat
    /\ pc \in [Threads -> {"idle", "queried", "cas"}]
    /\ fresh \in [Threads -> Nat] /\ current \in [Threads -> Nat]
    /\ issued \subseteq Nat
    /\ up \in BOOLEAN
    /\ restarts \in Nat

\* The counter is ahead of every nonce handed out since the start, whatever
\* resyncs, with stale answers and failing swaps, run between the calls.
AheadOfIssued == \A n \in issued : n < nonce

\* Within one run of the process every call of next() returns a nonce larger
\* than all those returned before: no two orders share one, and they only grow.
\* After a restart the count may be seeded to nonces of earlier orders again.
IssuedOnce ==
    [][\A t \in Threads : next(t) => \A k \in issued : k < nonce]_vars
=============================================================================
