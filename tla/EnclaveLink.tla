---------------------------- MODULE EnclaveLink ----------------------------
(***************************************************************************)
(* The ZMQ link between the transaction validation enclave's server (a REP *)
(* socket, tx-validation/app) and its two callers (REQ sockets): chain-    *)
(* abci's ZmqEnclaveClient and tx-query's ocalls.  Both callers send one   *)
(* request and block in recv without a timeout; the server takes one       *)
(* request at a time.  Here a call is not atomic: the server may crash     *)
(* with requests in its socket, with one in hand, or with a reply on its   *)
(* way, and ZMQ never sends any of them again.                             *)
(*                                                                         *)
(* The server also keeps the launch tokens of both enclaves (metadb).      *)
(* Whether a transaction is valid is TxValidation's matter: here VerifyTx  *)
(* answers either way.                                                     *)
(***************************************************************************)
EXTENDS TxValidationServer, FiniteSets

CONSTANTS
  Token,          \* launch tokens SGX may issue
  MaxCrashes      \* bound: crashes of the server

Caller == {"chain-abci", "tx-query"}

VALIDATION_TOKEN_KEY == "tx-validation-enclave.token"
QUERY_TOKEN_KEY == "tx-query-enclave.token"
TokenKey == {VALIDATION_TOKEN_KEY, QUERY_TOKEN_KEY}

VARIABLES
  waiting,        \* waiting[c]: the request caller c is blocked in, if any
  inbox,          \* callers whose request is on its way to the server or in its socket
  serving,        \* the caller whose request the server has in hand, if any
  replies,        \* replies[c]: the reply on its way to caller c, if any
  up,             \* the server process runs
  metadb,         \* metadb[k]: the launch token stored under k, if any
  metadb_disk,    \* the flushed part of it
  verified,       \* ids VerifyTx has answered Ok for
  bereft,         \* callers whose request or reply has died with the server
  crashes

linkVars == <<waiting, inbox, serving, replies, up, metadb, metadb_disk, verified, bereft, crashes>>

LinkInit ==
  /\ ServerInit
  /\ waiting = [c \in Caller |-> {}]
  /\ inbox = {}
  /\ serving = {}
  /\ replies = [c \in Caller |-> {}]
  /\ up = FALSE
  /\ metadb = [k \in TokenKey |-> {}]
  /\ metadb_disk = metadb
  /\ verified = {}
  /\ bereft = {}
  /\ crashes = 0

-----------------------------------------------------------------------------
(* Launch tokens.  SGX issues a token when it is given none and may replace *)
(* the one it is given.                                                     *)

\* The token to store, if any.
init_enclave(previous_token, updated, fresh) ==
  IF previous_token = {} \/ updated THEN {fresh} ELSE {}

get_token_arr(key) == metadb[key]

store_token(key, token) == metadb' = [metadb EXCEPT ![key] = {token}]

-----------------------------------------------------------------------------
(* The server *)

\* tx-validation-app starts: the enclave is created with the stored token,
\* a new token is stored, and the REP socket is bound.
server_start ==
  /\ ~up
  /\ \E updated \in BOOLEAN, fresh \in Token :
       IF init_enclave(get_token_arr(VALIDATION_TOKEN_KEY), updated, fresh) # {}
       THEN store_token(VALIDATION_TOKEN_KEY, fresh) ELSE UNCHANGED metadb
  /\ up' = TRUE
  /\ UNCHANGED <<serverVars, waiting, inbox, serving, replies, metadb_disk, verified, bereft, crashes>>

recv_bytes(c) ==
  /\ up
  /\ serving = {}
  /\ c \in inbox
  /\ inbox' = inbox \ {c}
  /\ serving' = {c}
  /\ UNCHANGED <<serverVars, waiting, replies, up, metadb, metadb_disk, verified, bereft, crashes>>

\* Mutant: the ids that are not found are skipped.
lookup_found(txids) == {SelectSeq(txids, LAMBDA id : id \in txdb)}

\* Some(sealed payloads in the order of the ids), or None if any id is missing.
lookup_txids(txids) ==
  IF \A k \in DOMAIN txids : txids[k] \in txdb THEN {txids} ELSE {}

\* One turn of execute's match: the effect of request r, and the reply a to it.
Effect(r, a) ==
  \/ /\ r.type = "VerifyTx"
     /\ \/ InsertSealed(r.id) /\ a = "Ok" /\ verified' = verified \cup {r.id}
        \/ UNCHANGED <<serverVars, verified>> /\ a = "Err"
     /\ UNCHANGED <<metadb, metadb_disk>>
  \/ /\ r.type = "CommitBlock"
     /\ CommitBlock("apphash") /\ a = "Ok"
     /\ metadb_disk' = metadb
     /\ UNCHANGED <<metadb, verified>>
  \/ /\ r.type = "GetCachedLaunchToken"
     /\ a = get_token_arr(QUERY_TOKEN_KEY)
     /\ UNCHANGED <<serverVars, metadb, metadb_disk, verified>>
  \/ /\ r.type = "UpdateCachedLaunchToken"
     /\ store_token(QUERY_TOKEN_KEY, r.token) /\ a = "Ok"
     /\ UNCHANGED <<serverVars, metadb_disk, verified>>
  \/ /\ r.type = "GetSealedTxData"
     /\ a = lookup_txids(r.txids)
     /\ UNCHANGED <<serverVars, metadb, metadb_disk, verified>>

Answers(r) ==
  CASE r.type \in {"VerifyTx", "CommitBlock", "UpdateCachedLaunchToken"} -> {"Ok", "Err"}
    [] r.type = "GetCachedLaunchToken" -> {get_token_arr(QUERY_TOKEN_KEY)}
    [] r.type = "GetSealedTxData" -> {lookup_txids(r.txids)}

\* Mutant: a transaction that is not valid is not answered.
ExecuteSilent(c) ==
  /\ up
  /\ serving = {c}
  /\ \E r \in waiting[c] : \E a \in Answers(r) :
       /\ Effect(r, a)
       /\ replies' = [replies EXCEPT ![c] = IF c = "chain-abci" /\ a = "Err" THEN {} ELSE {a}]
  /\ serving' = {}
  /\ UNCHANGED <<waiting, inbox, up, bereft, crashes>>

execute(c) ==
  /\ up
  /\ serving = {c}
  /\ \E r \in waiting[c] : \E a \in Answers(r) :
       /\ Effect(r, a)
       /\ replies' = [replies EXCEPT ![c] = {a}]
  /\ serving' = {}
  /\ UNCHANGED <<waiting, inbox, up, bereft, crashes>>

\* The process dies.  Unflushed entries of both trees may be gone, and so may
\* any request in its socket and any reply it has not delivered; the request
\* in hand is gone for certain.
server_crash ==
  /\ up
  /\ crashes < MaxCrashes
  /\ crashes' = crashes + 1
  /\ up' = FALSE
  /\ ServerRestart
  /\ \E k \in SUBSET TokenKey :
       metadb' = [x \in TokenKey |-> IF x \in k THEN metadb_disk[x] ELSE metadb[x]]
  /\ metadb_disk' = metadb'
  /\ \E lost \in SUBSET Caller :
       /\ inbox' = inbox \ lost
       /\ replies' = [c \in Caller |-> IF c \in lost THEN {} ELSE replies[c]]
  /\ serving' = {}
  /\ bereft' = {c \in Caller : waiting[c] # {} /\ c \notin inbox' /\ replies'[c] = {}}
  /\ UNCHANGED <<waiting, verified>>

-----------------------------------------------------------------------------
(* A caller: send, then recv *)

send(c, request) ==
  /\ waiting[c] = {}
  /\ waiting' = [waiting EXCEPT ![c] = {request}]
  /\ inbox' = inbox \cup {c}

\* recv returns reply a.
recv(c, a) ==
  /\ a \in replies[c]
  /\ waiting' = [waiting EXCEPT ![c] = {}]
  /\ replies' = [replies EXCEPT ![c] = {}]

\* chain-abci sends the requests of its handlers one after the other (ChainNode
\* says which): only their effect on the server's trees matters here.
process_request_send ==
  /\ \/ \E id \in TxId : send("chain-abci", [type |-> "VerifyTx", id |-> id])
     \/ send("chain-abci", [type |-> "CommitBlock"])
  /\ UNCHANGED <<serverVars, serving, replies, up, metadb, metadb_disk, verified, bereft, crashes>>

process_request_recv ==
  /\ \E a \in replies["chain-abci"] : recv("chain-abci", a)
  /\ UNCHANGED <<serverVars, inbox, serving, up, metadb, metadb_disk, verified, bereft, crashes>>

-----------------------------------------------------------------------------

\* Where the request a caller waits on has got to.
Whereabouts(c) ==
  {p \in {"inbox", "serving", "replied", "lost"} :
     CASE p = "inbox" -> c \in inbox
       [] p = "serving" -> serving = {c}
       [] p = "replied" -> replies[c] # {}
       [] p = "lost" -> c \in bereft}

\* A caller in recv has its request in exactly one place: it is answered once, or
\* has died with the server, in which case (REQ sockets here neither time out nor
\* send again) the caller waits for good.  Nothing is under way for any other.
RequestsAccountedFor == \A c \in Caller : Cardinality(Whereabouts(c)) = Cardinality(waiting[c])
=============================================================================
