---------------------------- MODULE WalletStartup ----------------------------
(***************************************************************************)
(* What main() does with the wallet before it trades: KeyManager::load,    *)
(* ClobAuth::authenticate and NonceManager::sync, then the orders' nonces  *)
(* of NonceManager.  The key file, the HTTP requests and the CLOB's answer *)
(* can each fail; a restart begins again with what the CLOB has stored.    *)
(*                                                                         *)
(* Cryptography is left out: a decryption or a signature is right or the   *)
(* step that uses it fails.                                                *)
(***************************************************************************)
EXTENDS NonceManager

VARIABLES step,        \* what main() does next: "load", "create", "derive",
                       \*   "sync", "trade"; or "failed": it has returned 1
          api_key,     \* the CLOB has an API key for this wallet and nonce 0
          creds,       \* ClobAuth::creds_ has a value
          fault        \* history: the environment failed a call of this run

authVars    == <<step, api_key, creds, fault>>
walletVars  == <<vars, authVars>>

WalletInit ==
    /\ Init
    /\ step = "load"
    /\ api_key \in BOOLEAN
    /\ creds = FALSE /\ fault = FALSE

-----------------------------------------------------------------------------
\* What a request can come back with: an answer of the server, or none.
Answers == {"ok", "exists", "refused", "garbled", "none"}

\* POST /auth/api-key at the CLOB.  A missing key is created, also when the
\* answer is lost, cut off or a gateway's 5xx; an existing one is a 400.
clob_create(answer) ==
    /\ answer = "ok" => ~api_key
    /\ answer = "exists" => api_key
    /\ api_key' \in (IF answer \in {"ok", "garbled"} THEN {TRUE} ELSE {api_key, TRUE})
    /\ fault' = (fault \/ answer \notin {"ok", "exists"})

\* GET /auth/derive-api-key.  Refusing it to a wallet without a key is no fault.
clob_derive(answer) ==
    /\ answer # "exists"
    /\ answer = "ok" => api_key
    /\ fault' = (fault \/ (answer # "ok" /\ api_key))
    /\ UNCHANGED api_key

-----------------------------------------------------------------------------
\* KeyManager::load: every error throws before loaded_ is set.
load ==
    /\ step = "load"
    /\ \/ step' = "create" /\ UNCHANGED fault
       \/ step' = "failed" /\ fault' = TRUE
    /\ UNCHANGED <<vars, api_key, creds>>

authenticated == step' = "sync" /\ creds' = TRUE

\* Mutant: a 400 is an error like any other.
create_400_fatal(answer) ==
    /\ step = "create"
    /\ clob_create(answer)
    /\ \/ answer = "ok" /\ authenticated
       \/ answer # "ok" /\ step' = "failed" /\ UNCHANGED creds
    /\ UNCHANGED vars

\* authenticate(), first attempt: 200 is parsed, 400 goes on to derive, and
\* another status, a failed transfer or an unreadable body throws.
create(answer) ==
    /\ step = "create"
    /\ clob_create(answer)
    /\ \/ answer = "ok" /\ authenticated
       \/ answer = "exists" /\ step' = "derive" /\ UNCHANGED creds
       \/ answer \notin {"ok", "exists"} /\ step' = "failed" /\ UNCHANGED creds
    /\ UNCHANGED vars

\* authenticate(), second attempt.
derive(answer) ==
    /\ step = "derive"
    /\ clob_derive(answer)
    /\ \/ answer = "ok" /\ authenticated
       \/ answer # "ok" /\ step' = "failed" /\ UNCHANGED creds
    /\ UNCHANGED vars

\* Mutant: the counter is seeded again while orders are being signed.
sync_nonce_again ==
    /\ step \in {"sync", "trade"}
    /\ up' = TRUE
    /\ nonce' = chain
    /\ step' = "trade"
    /\ UNCHANGED <<chain, resyncVars, issued, restarts, api_key, creds, fault>>

\* Never fatal: a failed query is a warning.
sync_nonce ==
    /\ step = "sync"
    /\ sync
    /\ step' = "trade"
    /\ UNCHANGED <<api_key, creds, fault>>

-----------------------------------------------------------------------------
\* The threads of the order state machines take the nonces; nothing calls
\* force_resync().
trade ==
    /\ \E t \in Threads : next(t)
    /\ UNCHANGED authVars

transact ==
    /\ Transact
    /\ UNCHANGED authVars

restart ==
    /\ Restart
    /\ step' = "load"
    /\ creds' = FALSE /\ fault' = FALSE
    /\ UNCHANGED api_key

WalletNext ==
    \/ load \/ sync_nonce \/ trade \/ transact \/ restart
    \/ \E a \in Answers : create(a) \/ derive(a)

WalletSpec == WalletInit /\ [][WalletNext]_walletVars

-----------------------------------------------------------------------------
\* A start fails only when something failed during it: whatever an earlier run
\* left at the CLOB, such as a key whose creation was never answered, the next
\* one gets past authenticate() when its own calls are answered, and it never
\* asks for a key that does not exist.
StartFailsOnlyOnFault == step = "failed" => fault
=============================================================================
