------------------------------ MODULE TxQuery ------------------------------
(***************************************************************************)
(* The transaction decryption query enclave (tx-query) and the clients     *)
(* that query it (client-index's DefaultTransactionObfuscation): a client  *)
(* connects, is shown a certificate that carries a remote attestation and  *)
(* a challenge, signs a request for transaction ids, and is sent those of  *)
(* the transactions that its view key may see.                             *)
(*                                                                         *)
(* The application is one thread: it serves one connection at a time, and  *)
(* within it waits for the client (at most 5 seconds) and for the          *)
(* validation server (EnclaveLink, for as long as it takes).  The Intel    *)
(* attestation service is external and fails or is unreachable at will.    *)
(* The clock may be set back.  Byte lengths are kept where buffers bound   *)
(* them.                                                                   *)
(***************************************************************************)
EXTENDS EnclaveLink, Attestation

CONSTANTS
  Client,         \* clients; each signs with the view key of its name
  Queries,        \* the lists of ids clients ask for
  SealedLen,      \* SealedLen[id]: bytes of a sealed transaction
  PLAIN_LEN,      \* 1024: the bytes of a request the enclave reads
  TX_BUF          \* 8000: the bytes the enclave provides per requested transaction

\* The prefix of a sealed transaction that fits its share takes two bytes at most.
ASSUME QueryAssumption ==
  /\ Queries \subseteq Seq(TxId)
  /\ SealedLen \in [TxId -> Nat]
  /\ TX_BUF \in Nat /\ TX_BUF <= 16384

VARIABLES
  enclave,        \* the enclave has not been aborted
  app,            \* what the application is doing
  backlog,        \* clients waiting to be accepted
  session,        \* the session being served: client, phase, certificate shown
  call,           \* call[c]: the decrypt call of client c
  last            \* the decrypt call that has just returned, if any

queryVars == <<attestationVars, enclave, app, backlog, session, call>>
vars == <<serverVars, linkVars, queryVars, last>>

NoSession == [phase |-> "none", client |-> {}, cert |-> NoCache, at |-> 0]
NoCall == [phase |-> "out", ids |-> <<>>, sealed |-> FALSE]

Init ==
  /\ LinkInit
  /\ now = 0
  /\ racache = NoCache
  /\ svrconfig = {}
  /\ enclave = FALSE
  /\ app = "down"
  /\ backlog = <<>>
  /\ session = NoSession
  /\ call = [c \in Client |-> NoCall]
  /\ last = {}

-----------------------------------------------------------------------------
(* start_enclave *)

\* A new process: a fresh enclave with empty caches asks for its launch token.
start_enclave ==
  /\ app = "down"
  /\ app' = "get_token"
  /\ racache' = NoCache
  /\ svrconfig' = {}
  /\ send("tx-query", [type |-> "GetCachedLaunchToken"])
  /\ UNCHANGED <<serverVars, serving, replies, up, metadb, metadb_disk, verified, bereft, crashes,
                 now, enclave, backlog, session, call>>
  /\ last' = {}

\* The enclave is created with the token, and a new token is sent back; if it
\* cannot be created, the application panics.
init_query_enclave ==
  /\ app = "get_token"
  /\ \E a \in replies["tx-query"], updated \in BOOLEAN, fresh \in Token :
       /\ replies' = [replies EXCEPT !["tx-query"] = {}]
       /\ \/ /\ app' = "down"
             /\ waiting' = [waiting EXCEPT !["tx-query"] = {}]
             /\ UNCHANGED <<inbox, enclave>>
          \/ /\ IF init_enclave(a, updated, fresh) # {}
                THEN /\ waiting' = [waiting EXCEPT !["tx-query"] =
                                      {[type |-> "UpdateCachedLaunchToken", token |-> fresh]}]
                     /\ inbox' = inbox \cup {"tx-query"}
                     /\ app' = "update_token"
                     /\ UNCHANGED enclave
                ELSE /\ waiting' = [waiting EXCEPT !["tx-query"] = {}]
                     /\ app' = "running"
                     /\ enclave' = TRUE
                     /\ UNCHANGED inbox
  /\ UNCHANGED <<serverVars, serving, up, metadb, metadb_disk, verified, bereft, crashes,
                 attestationVars, backlog, session, call>>
  /\ last' = {}

\* Whatever the reply says, the application binds its socket and listens.
token_updated ==
  /\ app = "update_token"
  /\ \E a \in replies["tx-query"] : recv("tx-query", a)
  /\ app' = "running"
  /\ enclave' = TRUE
  /\ UNCHANGED <<serverVars, inbox, serving, up, metadb, metadb_disk, verified, bereft, crashes,
                 attestationVars, backlog, session, call>>
  /\ last' = {}

-----------------------------------------------------------------------------
(* The client: DefaultTransactionObfuscation::decrypt *)

Returned(c, ok, txs, why) ==
  [client |-> c, ok |-> ok, ids |-> call[c].ids, txs |-> txs, why |-> why,
   sealed |-> call[c].sealed]

\* The calls of the clients in S return: with transactions, or with an error.
Return(S, ok, txs, why) ==
  /\ call' = [c \in Client |-> IF c \in S THEN NoCall ELSE call[c]]
  /\ \E c \in S : last' = {Returned(c, ok, txs, why)}

decrypt(c) ==
  /\ call[c] = NoCall
  /\ \E ids \in Queries :
       LET sealed == Range(ids) \subseteq txdb IN
       IF app = "running"
       THEN /\ call' = [call EXCEPT ![c] = [phase |-> "backlog", ids |-> ids, sealed |-> sealed]]
            /\ backlog' = Append(backlog, c)
            /\ last' = {}
       ELSE /\ last' = {[client |-> c, ok |-> FALSE, ids |-> ids, txs |-> <<>>,
                         why |-> "connect", sealed |-> sealed]}
            /\ UNCHANGED <<call, backlog>>
  /\ UNCHANGED <<serverVars, linkVars, attestationVars, enclave, app, session>>

\* The client checks the certificate, reads the challenge and sends its request.
client_request(c) ==
  /\ call[c].phase = "challenged"
  /\ IF verify_server_cert(session.cert)
     THEN /\ call' = [call EXCEPT ![c].phase = "requested"]
          /\ last' = {}
          /\ UNCHANGED session
     ELSE /\ Return({c}, FALSE, <<>>, "certificate")
          /\ session' = NoSession
  /\ UNCHANGED <<serverVars, linkVars, attestationVars, enclave, app, backlog>>

-----------------------------------------------------------------------------
(* The enclave: run_server *)

\* Lengths of the SCALE encoding: the prefix of a vector, a request (ids, view
\* key, challenge, signature), and a vector of sealed transactions.
Compact(n) == IF n < 64 THEN 1 ELSE IF n < 16384 THEN 2 ELSE 4

RequestLen(ids) == Compact(Len(ids)) + 32 * Len(ids) + 33 + 32 + 64

ElementLen(id) == Compact(SealedLen[id]) + SealedLen[id]

EncodedLen(data) ==
  LET first[k \in 0 .. Len(data)] ==
        IF k = 0 THEN Compact(Len(data)) ELSE first[k - 1] + ElementLen(data[k])
  IN  first[Len(data)]

\* Mutant: the buffer must be larger than the data.
TxsShort(ids, found) ==
  {data \in found : EncodedLen(data) < Len(ids) * TX_BUF}

\* The sealed transactions, unless one is missing or the buffer is too small.
ocall_get_txs(ids, found) ==
  {data \in found : EncodedLen(data) <= Len(ids) * TX_BUF}

\* The unsealed transactions that list the view key, in the order of the ids.
check_unseal(view_key, data) ==
  SelectSeq(data, LAMBDA id : view_key \in Tx[id].allowed_view)

\* A connection is accepted.  An aborted enclave serves nobody; a renewal that
\* fails panics under the cache's lock and aborts the enclave; a panic in an
\* ocall ends the process and with it every connection.
accept ==
  /\ app = "running"
  /\ session = NoSession
  /\ backlog # <<>>
  /\ LET c == Head(backlog) IN
     \/ /\ ~enclave
        /\ Return({c}, FALSE, <<>>, "enclave")
        /\ backlog' = Tail(backlog)
        /\ UNCHANGED <<racache, svrconfig, enclave, app, session>>
     \/ /\ enclave
        /\ \E result \in RenewalResults \cup {"cached"} :
             /\ get_tls_config(result)
             /\ IF result \in {"cached", "ok", "empty"}
                THEN /\ session' = [phase |-> "read", client |-> {c}, cert |-> racache', at |-> now]
                     /\ call' = [call EXCEPT ![c].phase = "challenged"]
                     /\ backlog' = Tail(backlog)
                     /\ last' = {}
                     /\ UNCHANGED <<enclave, app>>
                ELSE /\ enclave' = FALSE
                     /\ app' = IF result = "abort" THEN "down" ELSE app
                     /\ backlog' = IF result = "abort" THEN <<>> ELSE Tail(backlog)
                     /\ Return(IF result = "abort" THEN Range(backlog) ELSE {c},
                               FALSE, <<>>, "enclave")
                     /\ UNCHANGED session
  /\ UNCHANGED <<serverVars, linkVars, now>>

\* Mutant: the connection is not shut down.
TimeoutKeepsSession ==
  /\ session.phase = "read"
  /\ \E c \in session.client :
       /\ call[c].phase = "challenged"
       /\ Return({c}, FALSE, <<>>, "timeout")
  /\ UNCHANGED <<serverVars, linkVars, attestationVars, enclave, app, backlog, session>>

\* The read timeout: the client has not sent its request.
read_timeout ==
  /\ session.phase = "read"
  /\ \E c \in session.client :
       /\ call[c].phase = "challenged"
       /\ Return({c}, FALSE, <<>>, "timeout")
  /\ session' = NoSession
  /\ UNCHANGED <<serverVars, linkVars, attestationVars, enclave, app, backlog>>

\* A request longer than the buffer does not decode; another one is verified
\* and its ids are sent to the validation server.
read_request ==
  /\ session.phase = "read"
  /\ \E c \in session.client :
       /\ call[c].phase = "requested"
       /\ IF RequestLen(call[c].ids) > PLAIN_LEN
          THEN /\ Return({c}, FALSE, <<>>, "refused")
               /\ session' = NoSession
               /\ UNCHANGED <<waiting, inbox>>
          ELSE /\ send("tx-query", [type |-> "GetSealedTxData", txids |-> call[c].ids])
               /\ session' = [session EXCEPT !.phase = "lookup"]
               /\ last' = {}
               /\ UNCHANGED call
  /\ UNCHANGED <<serverVars, serving, replies, up, metadb, metadb_disk, verified, bereft, crashes,
                 attestationVars, enclave, app, backlog>>

\* The validation server answers; the client is sent its transactions, or the
\* connection is shut down.
process_request ==
  /\ session.phase = "lookup"
  /\ \E c \in session.client, a \in replies["tx-query"] :
       LET data == ocall_get_txs(call[c].ids, a) IN
       /\ recv("tx-query", a)
       /\ IF data = {}
          THEN Return({c}, FALSE, <<>>, "refused")
          ELSE \E d \in data : Return({c}, TRUE, check_unseal(c, d), "served")
  /\ session' = NoSession
  /\ UNCHANGED <<serverVars, inbox, serving, up, metadb, metadb_disk, verified, bereft, crashes,
                 attestationVars, enclave, app, backlog>>

\* Time passes, or the clock is set.
clock ==
  /\ now' \in {now - 1, now + 1} \cap 0 .. MaxTime
  /\ UNCHANGED <<serverVars, linkVars, racache, svrconfig, enclave, app, backlog, session, call>>
  /\ last' = {}

-----------------------------------------------------------------------------
\* The application and the clients do nothing.
Quiet == UNCHANGED queryVars /\ last' = {}

LinkStep ==
  \/ server_start
  \/ \E c \in Caller : recv_bytes(c)
  \/ \E c \in Caller : execute(c)
  \/ process_request_recv

QueryStep ==
  \/ init_query_enclave
  \/ token_updated
  \/ accept
  \/ read_timeout
  \/ read_request
  \/ process_request

Next ==
  \/ (LinkStep \/ process_request_send \/ server_crash) /\ Quiet
  \/ QueryStep
  \/ start_enclave
  \/ clock
  \/ \E c \in Client : decrypt(c) \/ client_request(c)

Spec == Init /\ [][Next]_vars

-----------------------------------------------------------------------------
(* Properties *)

\* A call that returns transactions returns exactly those of the requested
\* transactions that list the caller's view key, in the order of the request,
\* and only if every requested one is sealed: never a part of them, also when
\* the server has lost sealed data in a crash.
QueryExact ==
  \A r \in last :
    r.ok => /\ r.txs = SelectSeq(r.ids, LAMBDA id : r.client \in Tx[id].allowed_view)
            /\ \A k \in DOMAIN r.ids : HasOutputs(r.ids[k]) /\ r.ids[k] \in verified

\* As long as the server has not crashed, a request is refused only if it asks
\* for nothing, for more than one read holds, for an id that was not sealed when
\* the call began, or for a transaction that fills its share of the buffer.
RefusedForCause ==
  \A r \in last :
    r.why = "refused" /\ crashes = 0 =>
      \/ r.ids = <<>>
      \/ RequestLen(r.ids) > PLAIN_LEN
      \/ ~r.sealed
      \/ \E k \in DOMAIN r.ids : SealedLen[r.ids[k]] + 3 > TX_BUF

\* The certificate a session shows was made less than a day before the session
\* began and not after it, whichever way the clock was set, and the
\* configuration cache holds none of an earlier certificate.
CertCurrent ==
  /\ session.phase # "none" => session.cert.gen_time <= session.at /\ session.at - session.cert.gen_time < Day
  /\ svrconfig \subseteq {racache.serial}

\* A request is sent only to an enclave whose certificate carries a report, even
\* though a certificate made from an empty answer of the service is shown to
\* every client for a day.
RequestsAttested ==
  \A c \in session.client : call[c].phase = "requested" => session.cert.report

\* A decrypt call in progress waits in the backlog, once, or is the one being
\* served, and nobody else is: no client is dropped without an error or served
\* after its call has returned, whatever times out, fails or is lost.
CallsAccountedFor ==
  /\ IsInjective(backlog)
  /\ {c \in Client : call[c].phase = "backlog"} = Range(backlog)
  /\ {c \in Client : call[c].phase \notin {"out", "backlog"}} = session.client

\* attest.rs: "If RA renewal fails, we do not crash ... the old certificate is
\* used": the enclave of a running application is never aborted.
RenewalFailureSurvived == app = "running" => enclave
=============================================================================
