--------------------------- MODULE TxQueryProofs ----------------------------
(***************************************************************************)
(* The query enclave, its clients and the link to the validation server    *)
(* for every choice of the constants: any number of clients, transactions, *)
(* query lists, crashes and clock settings.                                *)
(*                                                                         *)
(* No property is inductive by itself.  What a call returns depends on the *)
(* reply that was on its way, which depends on the request the session had *)
(* sent and on what was sealed when the server looked; that the reply is   *)
(* the session's own depends on the link carrying one request per caller   *)
(* and on the application not being restarted under a session.             *)
(***************************************************************************)
EXTENDS TxQuery, WellFoundedInduction, TLAPS

-----------------------------------------------------------------------------
(* The inductive invariant *)

Call == [phase : {"out", "backlog", "challenged", "requested"}, ids : Seq(TxId), sealed : BOOLEAN]

\* A caller in recv has one request, in one place.
LinkInvariant ==
  /\ waiting = [c \in Caller |-> waiting[c]]
  /\ replies = [c \in Caller |-> replies[c]]
  /\ inbox \subseteq Caller
  /\ bereft \subseteq Caller
  /\ serving = {} \/ \E c \in Caller : serving = {c}
  /\ \A c \in Caller :
       /\ waiting[c] = {} \/ \E r \in waiting[c] : waiting[c] = {r}
       /\ c \in inbox => waiting[c] # {} /\ serving # {c} /\ replies[c] = {} /\ c \notin bereft
       /\ serving = {c} => waiting[c] # {} /\ replies[c] = {} /\ c \notin bereft
       /\ replies[c] # {} => waiting[c] # {} /\ c \notin bereft
       /\ c \in bereft => waiting[c] # {}
       /\ waiting[c] # {} => c \in inbox \/ serving = {c} \/ replies[c] # {} \/ c \in bereft

\* What is sealed was verified, has outputs, and is lost in a crash only.
SealedInvariant ==
  /\ crashes \in Nat
  /\ \A id \in txdb : id \in verified /\ HasOutputs(id)
  /\ \A c \in Client : crashes = 0 /\ call[c].sealed => Range(call[c].ids) \subseteq txdb

\* Every call in progress is in the backlog or is the one being served.
CallInvariant ==
  /\ call \in [Client -> Call]
  /\ backlog \in Seq(Client)
  /\ CallsAccountedFor
  /\ session # NoSession => app = "running"
  /\ \/ session = NoSession
     \/ /\ session.phase \in {"read", "lookup"}
        /\ \E c \in Client : session.client = {c}
  /\ session.phase = "lookup" => \A c \in session.client : call[c].phase = "requested"

\* The certificate shown was current, and a request was sent only if it carries
\* a report.
CertInvariant ==
  /\ now \in Int
  /\ racache.gen_time \in Int
  /\ CertCurrent
  /\ RequestsAttested

\* The reply on its way to the session is the answer to its own request.
LookupReply(c, a) ==
  LET ids == call[c].ids IN
  /\ a = {} \/ a = {ids}
  /\ a # {} => \A k \in DOMAIN ids : HasOutputs(ids[k]) /\ ids[k] \in verified
  /\ crashes = 0 /\ call[c].sealed => a # {}

LookupInvariant ==
  session.phase = "lookup" =>
    \A c \in session.client :
      /\ waiting["tx-query"] = {[type |-> "GetSealedTxData", txids |-> call[c].ids]}
      /\ \A a \in replies["tx-query"] : LookupReply(c, a)

QueryInvariant ==
  LinkInvariant /\ SealedInvariant /\ CallInvariant /\ CertInvariant /\ LookupInvariant

-----------------------------------------------------------------------------
(* The link *)

linkPlaces == <<waiting, inbox, serving, replies, bereft>>

\* A step that moves no request.
LEMMA SameLink == LinkInvariant /\ UNCHANGED linkPlaces => LinkInvariant'
BY DEF LinkInvariant, linkPlaces

\* A caller that waits for nothing sends: its request is in the inbox only.
LEMMA SendLink ==
  ASSUME LinkInvariant, NEW c \in Caller, NEW r, send(c, r), UNCHANGED <<serving, replies, bereft>>
  PROVE  LinkInvariant'
<1>1. /\ waiting[c] = {}
      /\ waiting' = [d \in Caller |-> IF d = c THEN {r} ELSE waiting[d]]
      /\ inbox' = inbox \cup {c}
  BY Zenon DEF send, LinkInvariant
<1> QED
  BY <1>1 DEF LinkInvariant

\* A caller that has its reply waits for nothing, and nothing is under way.
LEMMA RecvLink ==
  ASSUME LinkInvariant, NEW c \in Caller, NEW a, recv(c, a), UNCHANGED <<inbox, serving, bereft>>
  PROVE  LinkInvariant'
<1>1. /\ replies[c] # {}
      /\ waiting' = [d \in Caller |-> IF d = c THEN {} ELSE waiting[d]]
      /\ replies' = [d \in Caller |-> IF d = c THEN {} ELSE replies[d]]
  BY Zenon DEF recv, LinkInvariant
<1> QED
  BY <1>1 DEF LinkInvariant

\* The reply takes the place of the request in hand.
LEMMA ExecuteLink ==
  ASSUME LinkInvariant, NEW c \in Caller, execute(c)
  PROVE  LinkInvariant'
<1>1. PICK a : replies' = [replies EXCEPT ![c] = {a}]
  BY Zenon DEF execute
<1>2. serving = {c} /\ serving' = {} /\ UNCHANGED <<waiting, inbox, bereft>>
  BY DEF execute
<1> QED
  BY <1>1, <1>2, Zenon DEF LinkInvariant

\* Whatever the crash takes, what is left of a request is where it was, or the
\* caller is bereft.
LEMMA CrashLink ==
  ASSUME LinkInvariant, server_crash
  PROVE  LinkInvariant'
<1>1. PICK lost \in SUBSET Caller :
        /\ inbox' = inbox \ lost
        /\ replies' = [c \in Caller |-> IF c \in lost THEN {} ELSE replies[c]]
  BY DEF server_crash
<1>2. /\ serving' = {} /\ waiting' = waiting
      /\ bereft' = {c \in Caller : waiting[c] # {} /\ c \notin inbox' /\ replies'[c] = {}}
  BY DEF server_crash
<1> QED
  BY <1>1, <1>2 DEF LinkInvariant

\* The token has come: the application has failed, sends a new token, or runs.
LEMMA TokenLink ==
  ASSUME LinkInvariant, init_query_enclave
  PROVE  LinkInvariant'
<1>1. /\ replies["tx-query"] # {} /\ "tx-query" \in Caller
      /\ replies' = [d \in Caller |-> IF d = "tx-query" THEN {} ELSE replies[d]]
      /\ UNCHANGED <<serving, bereft>>
  BY Zenon DEF init_query_enclave, LinkInvariant, Caller
<1>2. \/ /\ waiting' = [waiting EXCEPT !["tx-query"] = {}]
         /\ inbox' = inbox
      \/ /\ \E r : waiting' = [waiting EXCEPT !["tx-query"] = {r}]
         /\ inbox' = inbox \cup {"tx-query"}
  BY Zenon DEF init_query_enclave
<1>3. CASE waiting' = [waiting EXCEPT !["tx-query"] = {}] /\ inbox' = inbox
  BY <1>1, <1>3, Zenon DEF LinkInvariant
<1>4. ASSUME NEW r, waiting' = [waiting EXCEPT !["tx-query"] = {r}],
             inbox' = inbox \cup {"tx-query"}
      PROVE  LinkInvariant'
  BY <1>1, <1>4, Zenon DEF LinkInvariant
<1> QED
  BY <1>2, <1>3, <1>4, Zenon

\* Every step keeps one request per caller, in one place.
LEMMA NextLink == LinkInvariant /\ [Next]_vars => LinkInvariant'
<1> SUFFICES ASSUME LinkInvariant, [Next]_vars
             PROVE  LinkInvariant'
  OBVIOUS
<1>0. "tx-query" \in Caller /\ "chain-abci" \in Caller
  BY DEF Caller
<1>1. CASE server_start
  BY <1>1, SameLink DEF server_start, linkPlaces
<1>2. ASSUME NEW c \in Caller, recv_bytes(c)
      PROVE  LinkInvariant'
  BY <1>2 DEF recv_bytes, LinkInvariant
<1>3. ASSUME NEW c \in Caller, execute(c)
      PROVE  LinkInvariant'
  BY <1>3, ExecuteLink
<1>4. CASE process_request_recv
  BY <1>0, <1>4, RecvLink DEF process_request_recv
<1>5. CASE process_request_send
  BY <1>0, <1>5, SendLink, Zenon DEF process_request_send
<1>6. CASE server_crash
  BY <1>6, CrashLink
<1>7. CASE init_query_enclave
  BY <1>7, TokenLink
<1>8. CASE token_updated
  BY <1>0, <1>8, RecvLink DEF token_updated
<1>9. CASE accept \/ read_timeout \/ clock
  BY <1>9, SameLink, Zenon DEF accept, read_timeout, clock, linkVars, linkPlaces
<1>10. CASE read_request
  <2>1. UNCHANGED <<serving, replies, bereft>>
    BY <1>10 DEF read_request
  <2>2. CASE UNCHANGED <<waiting, inbox>>
    BY <2>1, <2>2, SameLink DEF linkPlaces
  <2>3. CASE \E r : send("tx-query", r)
    BY <1>0, <2>1, <2>3, SendLink
  <2> QED
    BY <1>10, <2>2, <2>3, Zenon DEF read_request
<1>11. CASE process_request
  <2>1. PICK a \in replies["tx-query"] : recv("tx-query", a)
    BY <1>11 DEF process_request
  <2>2. UNCHANGED <<inbox, serving, bereft>>
    BY <1>11 DEF process_request
  <2> QED
    BY <1>0, <2>1, <2>2, RecvLink
<1>12. CASE start_enclave
  BY <1>0, <1>12, SendLink DEF start_enclave
<1>13. ASSUME NEW c \in Client, decrypt(c) \/ client_request(c)
       PROVE  LinkInvariant'
  BY <1>13, SameLink, Zenon DEF decrypt, client_request, linkVars, linkPlaces
<1>14. CASE UNCHANGED vars
  BY <1>14, SameLink DEF vars, linkVars, linkPlaces
<1> QED
  BY <1>1, <1>2, <1>3, <1>4, <1>5, <1>6, <1>7, <1>8, <1>9, <1>10, <1>11, <1>12, <1>13, <1>14
     DEF Next, LinkStep, QueryStep

\* What the recursion of Cardinality satisfies.
IsCard(f, S) == f = [T \in SUBSET S |-> IF T = {} THEN 0 ELSE 1 + f[T \ {CHOOSE x : x \in T}]]

LEMMA CardOfOne ==
  ASSUME NEW r
  PROVE  Cardinality({r}) = 1 /\ Cardinality({}) = 0
<1> DEFINE g == [T \in SUBSET {r} |-> IF T = {} THEN 0 ELSE 1]
           h == [T \in SUBSET {} |-> 0]
<1>1. \A S : Cardinality(S) = (CHOOSE f : IsCard(f, S))[S]
  BY DEF Cardinality, IsCard
<1>2. (CHOOSE x : x \in {r}) = r
  OBVIOUS
<1>3. IsCard(g, {r}) /\ IsCard(h, {})
  <2>1. SUBSET {r} = {{}, {r}} /\ SUBSET {} = {{}}
    OBVIOUS
  <2> QED
    BY <1>2, <2>1 DEF IsCard
<1> HIDE DEF g, h
<1>4. \E f : IsCard(f, {r})
  BY <1>3
<1>5. \E f : IsCard(f, {})
  BY <1>3
<1>6. PICK f : IsCard(f, {r}) /\ Cardinality({r}) = f[{r}]
  BY <1>1, <1>4
<1>7. PICK e : IsCard(e, {}) /\ Cardinality({}) = e[{}]
  BY <1>1, <1>5
<1>8. e[{}] = 0 /\ f[{}] = 0 /\ f[{r}] = 1 + f[{}]
  BY <1>2, <1>6, <1>7 DEF IsCard
<1> QED
  BY <1>6, <1>7, <1>8

\* A request of either caller is on its way, in hand, answered or lost, and only
\* one of these: for every sequence of requests, crashes and losses.
THEOREM RequestsAreAccountedFor == Spec => []RequestsAccountedFor
<1>1. Init => LinkInvariant
  BY DEF Init, LinkInit, LinkInvariant
<1>2. LinkInvariant => RequestsAccountedFor
  <2> SUFFICES ASSUME LinkInvariant, NEW c \in Caller
               PROVE  Cardinality(Whereabouts(c)) = Cardinality(waiting[c])
    BY DEF RequestsAccountedFor
  <2>1. CASE waiting[c] = {}
    <3>1. Whereabouts(c) = {}
      BY <2>1, Zenon DEF LinkInvariant, Whereabouts
    <3> QED
      BY <2>1, <3>1
  <2>2. CASE waiting[c] # {}
    <3>1. PICK r : waiting[c] = {r}
      BY <2>2 DEF LinkInvariant
    <3>2. CASE c \in inbox
      <4>1. Whereabouts(c) = {"inbox"}
        BY <3>2, Zenon DEF LinkInvariant, Whereabouts
      <4> QED
        BY <3>1, <4>1, CardOfOne, Zenon
    <3>3. CASE serving = {c}
      <4>1. Whereabouts(c) = {"serving"}
        BY <3>3, Zenon DEF LinkInvariant, Whereabouts
      <4> QED
        BY <3>1, <4>1, CardOfOne, Zenon
    <3>4. CASE replies[c] # {}
      <4>1. Whereabouts(c) = {"replied"}
        BY <3>4, Zenon DEF LinkInvariant, Whereabouts
      <4> QED
        BY <3>1, <4>1, CardOfOne, Zenon
    <3>5. CASE c \in bereft
      <4>1. Whereabouts(c) = {"lost"}
        BY <3>5, Zenon DEF LinkInvariant, Whereabouts
      <4> QED
        BY <3>1, <4>1, CardOfOne, Zenon
    <3> QED
      BY <2>2, <3>2, <3>3, <3>4, <3>5 DEF LinkInvariant
  <2> QED
    BY <2>1, <2>2
<1> QED
  BY <1>1, <1>2, NextLink, PTL DEF Spec

-----------------------------------------------------------------------------
(* The calls *)

\* Taking the first client off the backlog.
LEMMA BacklogTail ==
  ASSUME NEW q \in Seq(Client), IsInjective(q), q # <<>>
  PROVE  /\ Head(q) \in Client /\ Tail(q) \in Seq(Client)
         /\ IsInjective(Tail(q))
         /\ Range(Tail(q)) = Range(q) \ {Head(q)}
         /\ Head(q) \in Range(q)
<1>1. /\ Len(q) \in Nat /\ Len(q) > 0 /\ DOMAIN q = 1 .. Len(q)
      /\ Head(q) = q[1] /\ Tail(q) \in Seq(Client) /\ Len(Tail(q)) = Len(q) - 1
      /\ DOMAIN Tail(q) = 1 .. Len(q) - 1
      /\ \A k \in 1 .. Len(q) - 1 : Tail(q)[k] = q[k + 1]
  OBVIOUS
<1>2. \A i, j \in 1 .. Len(q) : q[i] = q[j] => i = j
  BY <1>1 DEF IsInjective
<1>3. \A k \in 2 .. Len(q) : k - 1 \in 1 .. Len(q) - 1 /\ Tail(q)[k - 1] = q[k]
  BY <1>1
<1>4. IsInjective(Tail(q))
  BY <1>1, <1>2 DEF IsInjective
<1>5. ASSUME NEW x \in Range(Tail(q))
      PROVE  x \in Range(q) \ {Head(q)}
  BY <1>1, <1>2, <1>5 DEF Range
<1>6. ASSUME NEW x \in Range(q), x # Head(q)
      PROVE  x \in Range(Tail(q))
  <2>1. PICK k \in 1 .. Len(q) : x = q[k]
    BY <1>1, <1>6 DEF Range
  <2>2. k \in 2 .. Len(q)
    BY <1>1, <1>6, <2>1
  <2> QED
    BY <1>1, <1>3, <2>1, <2>2, Zenon DEF Range
<1>7. Head(q) \in Range(q)
  BY <1>1 DEF Range
<1> QED
  BY <1>1, <1>4, <1>5, <1>6, <1>7

\* Putting a new client at its end.
LEMMA BacklogAppend ==
  ASSUME NEW q \in Seq(Client), IsInjective(q), NEW c \in Client, c \notin Range(q)
  PROVE  /\ Append(q, c) \in Seq(Client)
         /\ IsInjective(Append(q, c))
         /\ Range(Append(q, c)) = Range(q) \cup {c}
<1>1. /\ Len(q) \in Nat /\ DOMAIN q = 1 .. Len(q)
      /\ DOMAIN Append(q, c) = 1 .. Len(q) + 1
      /\ \A k \in 1 .. Len(q) : Append(q, c)[k] = q[k]
      /\ Append(q, c)[Len(q) + 1] = c
      /\ Append(q, c) \in Seq(Client)
  OBVIOUS
<1>2. \A k \in 1 .. Len(q) : q[k] # c
  BY <1>1 DEF Range
<1>3. IsInjective(Append(q, c))
  BY <1>1, <1>2 DEF IsInjective
<1>4. ASSUME NEW x \in Range(Append(q, c))
      PROVE  x \in Range(q) \cup {c}
  BY <1>1, <1>4 DEF Range
<1>5. ASSUME NEW x \in Range(q) \cup {c}
      PROVE  x \in Range(Append(q, c))
  BY <1>1, <1>5 DEF Range
<1> QED
  BY <1>1, <1>3, <1>4, <1>5

\* A client that calls nothing.
LEMMA NoCallType == NoCall \in Call /\ NoCall.phase = "out"
<1>1. <<>> \in Seq(TxId)
  OBVIOUS
<1> QED
  BY <1>1 DEF NoCall, Call

\* A step that leaves calls, backlog and session alone, in a state where the
\* application runs on or serves nobody.
LEMMA SameCalls ==
  ASSUME CallInvariant, UNCHANGED <<call, backlog, session>>,
         app' = "running" \/ app # "running" \/ app' = app
  PROVE  CallInvariant'
BY DEF CallInvariant, CallsAccountedFor

\* The call being served returns and the session ends.
LEMMA EndSession ==
  ASSUME CallInvariant, NEW c \in Client, session.client = {c},
         NEW ok, NEW txs, NEW why, Return({c}, ok, txs, why),
         session' = NoSession, UNCHANGED backlog
  PROVE  CallInvariant'
<1>1. call' = [d \in Client |-> IF d \in {c} THEN NoCall ELSE call[d]]
  BY DEF Return
<1>2. call' \in [Client -> Call]
  BY <1>1, NoCallType DEF CallInvariant
<1>3. call[c].phase \notin {"out", "backlog"}
  BY DEF CallInvariant, CallsAccountedFor
<1>4. CallsAccountedFor'
  <2>1. session'.client = {}
    BY DEF NoSession
  <2>2. \A d \in Client : call'[d] = IF d = c THEN NoCall ELSE call[d]
    BY <1>1
  <2>3. {d \in Client : call'[d].phase = "backlog"} = Range(backlog)
    BY <1>3, <2>2, NoCallType DEF CallInvariant, CallsAccountedFor
  <2>4. {d \in Client : call'[d].phase \notin {"out", "backlog"}} = {}
    BY <1>3, <2>2, NoCallType DEF CallInvariant, CallsAccountedFor
  <2> QED
    BY <2>1, <2>3, <2>4 DEF CallInvariant, CallsAccountedFor
<1>5. session'.phase = "none"
  BY DEF NoSession
<1> QED
  BY <1>2, <1>4, <1>5 DEF CallInvariant

\* A new call waits at the end of the backlog, or fails at once.
LEMMA DecryptCalls ==
  ASSUME CallInvariant, NEW c \in Client, decrypt(c)
  PROVE  CallInvariant'
<1>1. UNCHANGED <<app, session>> /\ call[c] = NoCall
  BY DEF decrypt
<1>2. CASE UNCHANGED <<call, backlog>>
  BY <1>1, <1>2, SameCalls
<1>3. ASSUME NEW ids \in Queries, NEW sealed \in BOOLEAN,
             call' = [call EXCEPT ![c] = [phase |-> "backlog", ids |-> ids, sealed |-> sealed]],
             backlog' = Append(backlog, c)
      PROVE  CallInvariant'
  <2> DEFINE new == [phase |-> "backlog", ids |-> ids, sealed |-> sealed]
  <2>1. new \in Call /\ new.phase = "backlog"
    <3>1. ids \in Seq(TxId)
      BY <1>3, QueryAssumption
    <3> QED
      BY <1>3, <3>1 DEF Call
  <2>2. call' = [call EXCEPT ![c] = new]
    BY <1>3
  <2> HIDE DEF new
  <2>3. call' \in [Client -> Call] /\ \A d \in Client : call'[d] = IF d = c THEN new ELSE call[d]
    BY <2>1, <2>2 DEF CallInvariant
  <2>4. c \notin Range(backlog) /\ c \notin session.client
    BY <1>1, NoCallType DEF CallInvariant, CallsAccountedFor
  <2>5. /\ backlog' \in Seq(Client) /\ IsInjective(backlog')
        /\ Range(backlog') = Range(backlog) \cup {c}
    BY <1>3, <2>4, BacklogAppend DEF CallInvariant, CallsAccountedFor
  <2>6. {d \in Client : call'[d].phase = "backlog"} = Range(backlog')
    BY <2>1, <2>3, <2>5 DEF CallInvariant, CallsAccountedFor
  <2>7. {d \in Client : call'[d].phase \notin {"out", "backlog"}} = session.client
    BY <2>1, <2>3, <2>4 DEF CallInvariant, CallsAccountedFor
  <2>8. CallsAccountedFor'
    BY <1>1, <2>5, <2>6, <2>7 DEF CallsAccountedFor
  <2>9. \A d \in session.client : d \in Client /\ call'[d] = call[d]
    BY <2>3, <2>4 DEF CallInvariant, NoSession
  <2> QED
    BY <1>1, <2>3, <2>5, <2>8, <2>9 DEF CallInvariant
<1> QED
  BY <1>2, <1>3, Zenon DEF decrypt

\* The client goes on with its session or leaves it.
LEMMA RequestCalls ==
  ASSUME CallInvariant, NEW c \in Client, client_request(c)
  PROVE  CallInvariant'
<1>1. call[c].phase = "challenged" /\ UNCHANGED <<app, backlog>>
  BY DEF client_request
<1>2. session.client = {c}
  BY <1>1 DEF CallInvariant, CallsAccountedFor, NoSession
<1>3. CASE call' = [call EXCEPT ![c].phase = "requested"] /\ session' = session
  <2> DEFINE new == [call[c] EXCEPT !.phase = "requested"]
  <2>1. new \in Call /\ new.phase = "requested"
    BY Zenon DEF Call, CallInvariant
  <2>2. call' = [call EXCEPT ![c] = new]
    BY <1>3
  <2> HIDE DEF new
  <2>3. call' \in [Client -> Call] /\ \A d \in Client : call'[d] = IF d = c THEN new ELSE call[d]
    BY <2>1, <2>2 DEF CallInvariant
  <2>4. {d \in Client : call'[d].phase = "backlog"} = {d \in Client : call[d].phase = "backlog"}
    BY <1>1, <2>1, <2>3
  <2>5. {d \in Client : call'[d].phase \notin {"out", "backlog"}}
          = {d \in Client : call[d].phase \notin {"out", "backlog"}}
    BY <1>1, <2>1, <2>3
  <2>6. CallsAccountedFor'
    BY <1>1, <1>3, <2>4, <2>5 DEF CallsAccountedFor, CallInvariant
  <2> QED
    BY <1>1, <1>2, <1>3, <2>1, <2>3, <2>6 DEF CallInvariant
<1>4. CASE Return({c}, FALSE, <<>>, "certificate") /\ session' = NoSession
  BY <1>1, <1>2, <1>4, EndSession, Zenon
<1> QED
  BY <1>3, <1>4, Zenon DEF client_request

\* The clients in S, all in the backlog, are refused and leave it.
LEMMA RefuseCalls ==
  ASSUME CallInvariant, NEW S \in SUBSET Range(backlog),
         NEW ok, NEW txs, NEW why, Return(S, ok, txs, why),
         session = NoSession, session' = NoSession,
         backlog' \in Seq(Client), IsInjective(backlog'), Range(backlog') = Range(backlog) \ S
  PROVE  CallInvariant'
<1>1. call' = [d \in Client |-> IF d \in S THEN NoCall ELSE call[d]]
  BY DEF Return
<1>2. call' \in [Client -> Call]
  BY <1>1, NoCallType DEF CallInvariant
<1>3. session.client = {} /\ session'.phase = "none"
  BY DEF NoSession
<1>4. {d \in Client : call'[d].phase = "backlog"} = Range(backlog')
  BY <1>1, NoCallType DEF CallInvariant, CallsAccountedFor
<1>5. {d \in Client : call'[d].phase \notin {"out", "backlog"}} = {}
  BY <1>1, <1>3, NoCallType DEF CallInvariant, CallsAccountedFor
<1>6. CallsAccountedFor'
  BY <1>3, <1>4, <1>5 DEF CallsAccountedFor
<1> QED
  BY <1>2, <1>3, <1>6 DEF CallInvariant

\* The first client gets the session, or is refused alone or with all the others.
LEMMA AcceptCalls ==
  ASSUME CallInvariant, accept
  PROVE  CallInvariant'
<1> DEFINE c == Head(backlog)
<1>1. app = "running" /\ session = NoSession /\ backlog # <<>>
  BY DEF accept
<1>2. /\ c \in Client /\ Tail(backlog) \in Seq(Client) /\ IsInjective(Tail(backlog))
      /\ Range(Tail(backlog)) = Range(backlog) \ {c} /\ c \in Range(backlog)
  BY <1>1, BacklogTail DEF CallInvariant, CallsAccountedFor
<1>3. ASSUME Return({c}, FALSE, <<>>, "enclave"), backlog' = Tail(backlog), session' = session
      PROVE  CallInvariant'
  <2>1. {c} \in SUBSET Range(backlog)
    BY <1>2
  <2> QED
    BY <1>1, <1>2, <1>3, <2>1, RefuseCalls, Zenon
<1>4. ASSUME Return(Range(backlog), FALSE, <<>>, "enclave"), backlog' = <<>>, session' = session
      PROVE  CallInvariant'
  <2>1. <<>> \in Seq(Client) /\ IsInjective(<<>>) /\ Range(<<>>) = {}
    BY DEF IsInjective, Range
  <2> QED
    BY <1>1, <1>4, <2>1, RefuseCalls, Zenon
<1>5. ASSUME session' = [phase |-> "read", client |-> {c}, cert |-> racache', at |-> now],
             call' = [call EXCEPT ![c].phase = "challenged"], backlog' = Tail(backlog), app' = app
      PROVE  CallInvariant'
  <2> DEFINE new == [call[c] EXCEPT !.phase = "challenged"]
  <2>1. new \in Call /\ new.phase = "challenged"
    BY <1>2, Zenon DEF Call, CallInvariant
  <2>2. call' = [call EXCEPT ![c] = new]
    BY <1>5
  <2>3. session'.phase = "read" /\ session'.client = {c} /\ session.client = {}
    BY <1>1, <1>5 DEF NoSession
  <2> HIDE DEF new, c
  <2>4. call' \in [Client -> Call] /\ \A d \in Client : call'[d] = IF d = c THEN new ELSE call[d]
    BY <1>2, <2>1, <2>2 DEF CallInvariant
  <2>5. {d \in Client : call'[d].phase = "backlog"} = Range(backlog')
    BY <1>2, <1>5, <2>1, <2>4 DEF CallInvariant, CallsAccountedFor
  <2>6. {d \in Client : call'[d].phase \notin {"out", "backlog"}} = {c}
    BY <1>2, <2>1, <2>3, <2>4 DEF CallInvariant, CallsAccountedFor
  <2>7. CallsAccountedFor'
    BY <1>2, <1>5, <2>3, <2>5, <2>6 DEF CallsAccountedFor
  <2> QED
    BY <1>1, <1>2, <1>5, <2>3, <2>4, <2>7 DEF CallInvariant
<1> QED
  BY <1>3, <1>4, <1>5, Zenon DEF accept

\* Every step keeps the calls accounted for.
LEMMA NextCalls == CallInvariant /\ [Next]_vars => CallInvariant'
<1> SUFFICES ASSUME CallInvariant, [Next]_vars
             PROVE  CallInvariant'
  OBVIOUS
<1>1. CASE UNCHANGED queryVars
  BY <1>1, SameCalls DEF queryVars
<1>2. CASE init_query_enclave \/ token_updated \/ start_enclave \/ clock
  BY <1>2, SameCalls DEF init_query_enclave, token_updated, start_enclave, clock
<1>3. CASE accept
  BY <1>3, AcceptCalls
<1>4. \A c \in session.client : c \in Client /\ session.client = {c}
  BY DEF CallInvariant, NoSession
<1>5. CASE read_timeout
  <2>1. PICK c \in session.client : Return({c}, FALSE, <<>>, "timeout")
    BY <1>5, Zenon DEF read_timeout
  <2> QED
    BY <1>4, <1>5, <2>1, EndSession, Zenon DEF read_timeout
<1>6. CASE read_request
  <2>1. PICK c \in session.client :
          /\ call[c].phase = "requested"
          /\ \/ Return({c}, FALSE, <<>>, "refused") /\ session' = NoSession
             \/ session' = [session EXCEPT !.phase = "lookup"] /\ call' = call
    BY <1>6, Zenon DEF read_request
  <2>2. UNCHANGED <<app, backlog>> /\ session.phase = "read"
    BY <1>6 DEF read_request
  <2>3. CASE Return({c}, FALSE, <<>>, "refused") /\ session' = NoSession
    BY <1>4, <2>1, <2>2, <2>3, EndSession, Zenon
  <2>4. CASE session' = [session EXCEPT !.phase = "lookup"] /\ call' = call
    <3>1. session'.phase = "lookup" /\ session'.client = session.client
      BY <2>2, <2>4, <1>4 DEF CallInvariant, NoSession
    <3>2. CallsAccountedFor' /\ session # NoSession
      BY <2>2, <2>4, <3>1 DEF CallInvariant, CallsAccountedFor, NoSession
    <3> QED
      BY <1>4, <2>1, <2>2, <2>4, <3>1, <3>2 DEF CallInvariant
  <2> QED
    BY <2>1, <2>3, <2>4, Zenon
<1>7. CASE process_request
  <2>1. PICK c \in session.client : \E ok, txs, why : Return({c}, ok, txs, why)
    BY <1>7, Zenon DEF process_request
  <2> QED
    BY <1>4, <1>7, <2>1, EndSession DEF process_request
<1>8. ASSUME NEW c \in Client, decrypt(c) \/ client_request(c)
      PROVE  CallInvariant'
  BY <1>8, DecryptCalls, RequestCalls
<1>9. CASE UNCHANGED vars
  BY <1>1, <1>9 DEF vars
<1> QED
  BY <1>1, <1>2, <1>3, <1>5, <1>6, <1>7, <1>8, <1>9 DEF Next, QueryStep, Quiet

-----------------------------------------------------------------------------
(* The certificate *)

\* A renewal comes to one of four results, "cached" not among them.
LEMMA RenewalResult == RenewalResults \subseteq {"ok", "empty", "err", "abort"}
<1>1. ASSUME NEW i \in Interaction
      PROVE  Renewal(i) \in {"ok", "empty", "err", "abort"}
  <2>1. sigrl_acquired(i.sigrl) \in {"ok", "err", "abort"}
    BY DEF sigrl_acquired
  <2> QED
    BY <2>1 DEF Renewal, create_attestation_report
<1> QED
  BY <1>1 DEF RenewalResults

\* A step that leaves the caches alone, and the session too or ends it.
LEMMA SameCert ==
  ASSUME CertInvariant, UNCHANGED <<racache, svrconfig>>, now' \in Int,
         \/ session' = NoSession
         \/ /\ session'.phase # "none" => session.phase # "none"
            /\ session'.cert = session.cert /\ session'.at = session.at
            /\ session'.client = session.client
            /\ \A c \in session.client :
                 call'[c].phase = "requested" => call[c].phase = "requested" \/ session.cert.report
  PROVE  CertInvariant'
<1>1. CASE session' = NoSession
  <2>1. session'.phase = "none" /\ session'.client = {}
    BY <1>1 DEF NoSession
  <2> QED
    BY <2>1 DEF CertInvariant, CertCurrent, RequestsAttested
<1>2. CASE session' # NoSession
  BY <1>2 DEF CertInvariant, CertCurrent, RequestsAttested
<1> QED
  BY <1>1, <1>2

\* The certificate of a new session is a cached one that is current, or new.
LEMMA AcceptCert ==
  ASSUME CallInvariant, CertInvariant, accept
  PROVE  CertInvariant'
<1> DEFINE c == Head(backlog)
<1>1. session = NoSession /\ now' = now /\ now \in Int
  BY DEF accept, CertInvariant
<1>2. CASE UNCHANGED <<racache, svrconfig, session>>
  BY <1>1, <1>2, SameCert
<1>3. ASSUME NEW result \in RenewalResults \cup {"cached"}, get_tls_config(result)
      PROVE  /\ result \notin {"cached", "ok", "empty"} => UNCHANGED <<racache, svrconfig>>
             /\ result \in {"cached", "ok", "empty"} =>
                  /\ racache'.gen_time \in Int
                  /\ racache'.gen_time <= now /\ now - racache'.gen_time < Day
             /\ svrconfig' \subseteq {racache'.serial}
  <2>1. result \in {"cached", "ok", "empty", "err", "abort"}
    BY <1>3, RenewalResult
  <2>2. racache.gen_time \in Int /\ svrconfig \subseteq {racache.serial} /\ Day \in Nat \ {0}
    BY ClockAssumption DEF CertInvariant, CertCurrent
  <2>3. CASE result = "cached"
    <3>1. is_tls_config_updated(racache.gen_time) /\ racache' = racache
      BY <1>3, <2>3, RenewalResult DEF get_tls_config, get_ra_cert
    <3>2. svrconfig' = svrconfig \cup {racache.serial}
      BY <1>3, <2>3 DEF get_tls_config
    <3> QED
      BY <2>2, <2>3, <3>1, <3>2 DEF is_tls_config_updated
  <2>4. CASE result \in {"ok", "empty"}
    <3>1. racache' = [serial |-> 1 - racache.serial, report |-> result = "ok", gen_time |-> now]
      BY <1>3, <2>4 DEF get_tls_config, get_ra_cert, renew_ra_cert
    <3>2. svrconfig' = {racache'.serial}
      BY <1>3, <2>4 DEF get_tls_config
    <3>3. racache'.gen_time = now
      BY <3>1
    <3> QED
      BY <1>1, <2>2, <2>4, <3>2, <3>3
  <2>5. CASE result \in {"err", "abort"}
    <3>1. racache' = racache
      BY <1>3, <2>5 DEF get_tls_config, get_ra_cert
    <3>2. svrconfig' = svrconfig
      BY <1>3, <2>5 DEF get_tls_config
    <3> QED
      BY <2>2, <2>5, <3>1, <3>2
  <2> QED
    BY <2>1, <2>3, <2>4, <2>5
<1>4. ASSUME NEW result \in RenewalResults \cup {"cached"}, get_tls_config(result),
             result \in {"cached", "ok", "empty"},
             session' = [phase |-> "read", client |-> {c}, cert |-> racache', at |-> now],
             call' = [call EXCEPT ![c].phase = "challenged"]
      PROVE  CertInvariant'
  <2>1. c \in Client
    BY BacklogTail DEF accept, CallInvariant, CallsAccountedFor
  <2>2. call'[c].phase = "challenged"
    BY <1>4, <2>1 DEF CallInvariant, Call
  <2>3. /\ session'.phase = "read" /\ session'.client = {c}
        /\ session'.cert = racache' /\ session'.at = now
    BY <1>4
  <2>4. /\ racache'.gen_time \in Int /\ svrconfig' \subseteq {racache'.serial}
        /\ racache'.gen_time <= now /\ now - racache'.gen_time < Day
    BY <1>3, <1>4
  <2> HIDE DEF c
  <2>5. CertCurrent' /\ RequestsAttested'
    BY <2>2, <2>3, <2>4 DEF CertCurrent, RequestsAttested
  <2> QED
    BY <1>1, <2>4, <2>5 DEF CertInvariant
<1>5. ASSUME NEW result \in RenewalResults \cup {"cached"}, get_tls_config(result),
             result \notin {"cached", "ok", "empty"}, session' = session
      PROVE  CertInvariant'
  BY <1>2, <1>3, <1>5
<1> QED
  BY <1>2, <1>4, <1>5, Zenon DEF accept

\* Every step keeps the certificate of the session current.
LEMMA NextCert == CallInvariant /\ CertInvariant /\ [Next]_vars => CertInvariant'
<1> SUFFICES ASSUME CallInvariant, CertInvariant, [Next]_vars
             PROVE  CertInvariant'
  OBVIOUS
<1>0. now \in Int
  BY DEF CertInvariant
<1>1. CASE UNCHANGED queryVars
  BY <1>0, <1>1, SameCert DEF queryVars, attestationVars
<1>2. CASE init_query_enclave \/ token_updated
  BY <1>0, <1>2, SameCert DEF init_query_enclave, token_updated, attestationVars
<1>3. CASE start_enclave
  <2>1. /\ racache' = NoCache /\ svrconfig' = {} /\ UNCHANGED <<now, session, call>>
    BY <1>3 DEF start_enclave
  <2>2. racache'.gen_time \in Int
    BY <2>1, ClockAssumption DEF NoCache
  <2> QED
    BY <2>1, <2>2 DEF CertInvariant, CertCurrent, RequestsAttested
<1>4. CASE clock
  <2>1. now' \in Int
    BY <1>0, <1>4 DEF clock
  <2> QED
    BY <1>4, <2>1, SameCert DEF clock
<1>5. CASE accept
  BY <1>5, AcceptCert
<1>6. CASE read_timeout \/ process_request
  BY <1>0, <1>6, SameCert, Zenon DEF read_timeout, process_request, attestationVars
<1>7. CASE read_request
  <2>1. UNCHANGED <<now, racache, svrconfig>> /\ session.phase = "read"
    BY <1>7 DEF read_request, attestationVars
  <2>2. CASE session' = NoSession
    BY <1>0, <2>1, <2>2, SameCert
  <2>3. CASE session' = [session EXCEPT !.phase = "lookup"] /\ call' = call
    <3>1. session'.client = session.client /\ session'.cert = session.cert /\ session'.at = session.at
      BY <2>3
    <3> QED
      BY <1>0, <2>1, <2>3, <3>1, SameCert
  <2> QED
    BY <1>7, <2>2, <2>3, Zenon DEF read_request
<1>8. ASSUME NEW c \in Client, decrypt(c)
      PROVE  CertInvariant'
  <2>1. UNCHANGED <<now, racache, svrconfig, session>> /\ call[c] = NoCall
    BY <1>8 DEF decrypt, attestationVars
  <2>2. c \notin session.client
    BY <2>1, NoCallType DEF CallInvariant, CallsAccountedFor
  <2>3. \A d \in session.client : call'[d] = call[d]
    BY <1>8, <2>2 DEF decrypt, CallInvariant, CallsAccountedFor
  <2> QED
    BY <1>0, <2>1, <2>3, SameCert
<1>9. ASSUME NEW c \in Client, client_request(c)
      PROVE  CertInvariant'
  <2>1. UNCHANGED <<now, racache, svrconfig>>
    BY <1>9 DEF client_request, attestationVars
  <2>2. session' = NoSession \/ (session' = session /\ session.cert.report)
    BY <1>9, Zenon DEF client_request, verify_server_cert, extract_sgx_quote_from_mra_cert, extract_att_parts
  <2> QED
    BY <1>0, <2>1, <2>2, SameCert
<1>10. CASE UNCHANGED vars
  BY <1>1, <1>10 DEF vars
<1> QED
  BY <1>1, <1>2, <1>3, <1>4, <1>5, <1>6, <1>7, <1>8, <1>9, <1>10 DEF Next, QueryStep, Quiet

-----------------------------------------------------------------------------
(* What is sealed *)

\* Without a crash nothing that is sealed is lost, and a call that has begun
\* keeps its list and what was sealed of it.
LEMMA SameSealed ==
  ASSUME SealedInvariant, crashes' = crashes, txdb \subseteq txdb',
         \A id \in txdb' : id \in verified' /\ HasOutputs(id),
         \A c \in Client : call'[c] = call[c] \/ ~call'[c].sealed
  PROVE  SealedInvariant'
BY DEF SealedInvariant

\* A call that returns leaves no list behind.
LEMMA ReturnSealed ==
  ASSUME SealedInvariant, UNCHANGED <<crashes, txdb, verified>>,
         NEW S, NEW ok, NEW txs, NEW why, Return(S, ok, txs, why)
  PROVE  SealedInvariant'
<1>1. \A c \in Client : call'[c] = call[c] \/ ~call'[c].sealed
  BY DEF Return, NoCall
<1> QED
  BY <1>1, SameSealed DEF SealedInvariant

\* Only VerifyTx seals, and it answers Ok for what it seals.
LEMMA ExecuteSealed ==
  ASSUME SealedInvariant, NEW c \in Caller, execute(c), call' = call
  PROVE  SealedInvariant'
<1>1. PICK r, a : Effect(r, a)
  BY DEF execute
<1>2. \/ InsertSealed(r.id) /\ verified' = verified \cup {r.id}
      \/ UNCHANGED <<txdb, verified>>
  BY <1>1 DEF Effect, CommitBlock, serverVars
<1>3. crashes' = crashes
  BY DEF execute
<1>4. CASE InsertSealed(r.id) /\ verified' = verified \cup {r.id}
  BY <1>3, <1>4, SameSealed DEF InsertSealed, SealedInvariant
<1>5. CASE UNCHANGED <<txdb, verified>>
  BY <1>3, <1>5, SameSealed DEF SealedInvariant
<1> QED
  BY <1>2, <1>4, <1>5

\* Every step keeps what is sealed verified.
LEMMA NextSealed == CallInvariant /\ SealedInvariant /\ [Next]_vars => SealedInvariant'
<1> SUFFICES ASSUME CallInvariant, SealedInvariant, [Next]_vars
             PROVE  SealedInvariant'
  OBVIOUS
<1>0. ASSUME UNCHANGED <<crashes, txdb, verified, call>>
      PROVE  SealedInvariant'
  BY <1>0, SameSealed DEF SealedInvariant
<1>1. ASSUME NEW c \in Caller, execute(c), Quiet
      PROVE  SealedInvariant'
  BY <1>1, ExecuteSealed DEF Quiet, queryVars
<1>2. CASE server_crash /\ Quiet
  <2>1. crashes' = crashes + 1 /\ verified' = verified /\ txdb' \subseteq txdb
    BY <1>2 DEF server_crash, ServerRestart
  <2>2. crashes' \in Nat /\ crashes' # 0
    BY <2>1 DEF SealedInvariant
  <2> QED
    BY <2>1, <2>2 DEF SealedInvariant
<1>3. CASE (server_start \/ process_request_recv \/ process_request_send) /\ Quiet
  BY <1>0, <1>3 DEF server_start, process_request_recv, process_request_send, Quiet, queryVars, serverVars
<1>4. ASSUME NEW c \in Caller, recv_bytes(c), Quiet
      PROVE  SealedInvariant'
  BY <1>0, <1>4 DEF recv_bytes, Quiet, queryVars, serverVars
<1>5. CASE init_query_enclave \/ token_updated \/ start_enclave \/ clock
  BY <1>0, <1>5 DEF init_query_enclave, token_updated, start_enclave, clock, serverVars, linkVars
<1>6. CASE accept
  <2>1. UNCHANGED <<crashes, txdb, verified>>
    BY <1>6 DEF accept, serverVars, linkVars
  <2>2. CASE \E S, ok, txs, why : Return(S, ok, txs, why)
    BY <2>1, <2>2, ReturnSealed
  <2>3. CASE call' = [call EXCEPT ![Head(backlog)].phase = "challenged"]
    <3>1. \A c \in Client : call'[c].sealed = call[c].sealed /\ call'[c].ids = call[c].ids
      BY <2>3 DEF CallInvariant, Call
    <3> QED
      BY <2>1, <3>1 DEF SealedInvariant
  <2> QED
    BY <1>6, <2>2, <2>3, Zenon DEF accept
<1>7. CASE read_timeout \/ process_request
  <2>1. UNCHANGED <<crashes, txdb, verified>>
    BY <1>7, Zenon DEF read_timeout, process_request, serverVars, linkVars
  <2>2. \E S, ok, txs, why : Return(S, ok, txs, why)
    BY <1>7, Zenon DEF read_timeout, process_request
  <2> QED
    BY <2>1, <2>2, ReturnSealed
<1>8. CASE read_request
  <2>1. UNCHANGED <<crashes, txdb, verified>>
    BY <1>8 DEF read_request, serverVars
  <2>2. call' = call \/ \E S, ok, txs, why : Return(S, ok, txs, why)
    BY <1>8, Zenon DEF read_request
  <2> QED
    BY <1>0, <2>1, <2>2, ReturnSealed
<1>9. ASSUME NEW c \in Client, decrypt(c)
      PROVE  SealedInvariant'
  <2>1. UNCHANGED <<crashes, txdb, verified>>
    BY <1>9 DEF decrypt, serverVars, linkVars
  <2>2. ASSUME NEW ids \in Queries,
               call' = [call EXCEPT ![c] = [phase |-> "backlog", ids |-> ids,
                                            sealed |-> Range(ids) \subseteq txdb]]
        PROVE  SealedInvariant'
    <3>1. \A d \in Client : d # c => call'[d] = call[d]
      BY <2>2, Zenon DEF CallInvariant
    <3>2. call'[c].ids = ids /\ call'[c].sealed = (Range(ids) \subseteq txdb)
      BY <2>2 DEF CallInvariant
    <3> QED
      BY <2>1, <3>1, <3>2, Zenon DEF SealedInvariant
  <2> QED
    BY <1>0, <1>9, <2>1, <2>2 DEF decrypt
<1>10. ASSUME NEW c \in Client, client_request(c)
       PROVE  SealedInvariant'
  <2>1. UNCHANGED <<crashes, txdb, verified>>
    BY <1>10 DEF client_request, serverVars, linkVars
  <2>2. CASE \E S, ok, txs, why : Return(S, ok, txs, why)
    BY <2>1, <2>2, ReturnSealed
  <2>3. CASE call' = [call EXCEPT ![c].phase = "requested"]
    <3>1. \A d \in Client : call'[d].sealed = call[d].sealed /\ call'[d].ids = call[d].ids
      BY <2>3 DEF CallInvariant, Call
    <3> QED
      BY <2>1, <3>1 DEF SealedInvariant
  <2> QED
    BY <1>10, <2>2, <2>3, Zenon DEF client_request
<1>11. CASE UNCHANGED vars
  BY <1>0, <1>11 DEF vars, serverVars, linkVars, queryVars
<1> QED
  BY <1>1, <1>2, <1>3, <1>4, <1>5, <1>6, <1>7, <1>8, <1>9, <1>10, <1>11
     DEF Next, LinkStep, QueryStep

-----------------------------------------------------------------------------
(* The lookup *)

\* A step that leaves the session and its request alone, and adds no reply.
LEMMA SameLookup ==
  ASSUME LookupInvariant, session' = session,
         waiting'["tx-query"] = waiting["tx-query"],
         replies'["tx-query"] \subseteq replies["tx-query"],
         verified \subseteq verified', crashes' = 0 => crashes = 0,
         \A c \in session.client : call'[c] = call[c]
  PROVE  LookupInvariant'
BY DEF LookupInvariant, LookupReply

\* The answer the server gives to the request of the session.
LEMMA ExecuteLookup ==
  ASSUME LinkInvariant, SealedInvariant, CallInvariant, LookupInvariant,
         NEW c \in Caller, execute(c), UNCHANGED <<session, call>>
  PROVE  LookupInvariant'
<1>0. PICK r \in waiting[c] : \E a : Effect(r, a) /\ replies' = [replies EXCEPT ![c] = {a}]
  BY Zenon DEF execute
<1>1. PICK a : Effect(r, a) /\ replies' = [replies EXCEPT ![c] = {a}]
  BY <1>0, Zenon
<1>2. verified \subseteq verified'
  BY <1>1 DEF Effect
<1>3. waiting' = waiting /\ crashes' = crashes
  BY Zenon DEF execute
<1>4. CASE c # "tx-query"
  <2>1. replies'["tx-query"] = replies["tx-query"]
    BY <1>1, <1>4 DEF LinkInvariant, Caller
  <2> QED
    BY <1>2, <1>3, <2>1, SameLookup
<1>5. CASE c = "tx-query"
  <2> SUFFICES ASSUME session.phase = "lookup", NEW d \in session.client
               PROVE  /\ waiting'["tx-query"] = {[type |-> "GetSealedTxData", txids |-> call'[d].ids]}
                      /\ \A b \in replies'["tx-query"] : LookupReply(d, b)'
    BY DEF LookupInvariant
  <2> DEFINE ids == call[d].ids
  <2>1. r.type = "GetSealedTxData" /\ r.txids = ids
    BY <1>1, <1>5 DEF LookupInvariant
  <2>2. a = lookup_txids(ids) /\ UNCHANGED <<txdb, verified>>
    BY <1>1, <2>1 DEF Effect, serverVars
  <2>3. replies'["tx-query"] = {a}
    BY <1>1, <1>5 DEF LinkInvariant, Caller
  <2>4. d \in Client
    BY DEF CallInvariant, CallsAccountedFor
  <2>5. a = {} \/ a = {ids}
    BY <2>2 DEF lookup_txids
  <2>6. a # {} => \A k \in DOMAIN ids : HasOutputs(ids[k]) /\ ids[k] \in verified
    BY <2>2 DEF lookup_txids, SealedInvariant
  <2>7. crashes = 0 /\ call[d].sealed => a # {}
    <3>1. crashes = 0 /\ call[d].sealed => \A k \in DOMAIN ids : ids[k] \in txdb
      BY <2>4 DEF SealedInvariant, Range
    <3> QED
      BY <2>2, <3>1 DEF lookup_txids
  <2>8. LookupReply(d, a)'
    BY <1>3, <2>2, <2>5, <2>6, <2>7 DEF LookupReply
  <2> QED
    BY <1>3, <2>3, <2>8, Zenon DEF LookupInvariant
<1> QED
  BY <1>4, <1>5

\* Every step keeps the reply the session's own.
LEMMA NextLookup ==
  LinkInvariant /\ SealedInvariant /\ CallInvariant /\ LookupInvariant /\ [Next]_vars
    => LookupInvariant'
<1> SUFFICES ASSUME LinkInvariant, SealedInvariant, CallInvariant, LookupInvariant, [Next]_vars
             PROVE  LookupInvariant'
  OBVIOUS
<1>0. ASSUME session'.phase # "lookup"
      PROVE  LookupInvariant'
  BY <1>0 DEF LookupInvariant
<1>1. ASSUME UNCHANGED <<waiting, replies, verified, crashes, session, call>>
      PROVE  LookupInvariant'
  BY <1>1, SameLookup
<1>2. CASE server_start /\ Quiet
  BY <1>1, <1>2 DEF server_start, Quiet, queryVars
<1>3. ASSUME NEW c \in Caller, recv_bytes(c), Quiet
      PROVE  LookupInvariant'
  BY <1>1, <1>3 DEF recv_bytes, Quiet, queryVars
<1>4. ASSUME NEW c \in Caller, execute(c), Quiet
      PROVE  LookupInvariant'
  BY <1>4, ExecuteLookup DEF Quiet, queryVars
<1>5. CASE (process_request_recv \/ process_request_send) /\ Quiet
  <2>1. UNCHANGED <<verified, crashes, session, call>>
    BY <1>5 DEF process_request_recv, process_request_send, Quiet, queryVars
  <2>2. waiting'["tx-query"] = waiting["tx-query"] /\ replies'["tx-query"] = replies["tx-query"]
    BY <1>5 DEF process_request_recv, process_request_send, recv, send, LinkInvariant, Caller
  <2> QED
    BY <2>1, <2>2, SameLookup
<1>6. CASE server_crash /\ Quiet
  <2>1. UNCHANGED <<verified, waiting, session, call>> /\ crashes' = crashes + 1
    BY <1>6 DEF server_crash, Quiet, queryVars
  <2>2. crashes' # 0
    BY <2>1 DEF SealedInvariant
  <2>3. replies'["tx-query"] \subseteq replies["tx-query"]
    BY <1>6 DEF server_crash, Caller
  <2> QED
    BY <2>1, <2>2, <2>3, SameLookup
<1>7. CASE init_query_enclave \/ token_updated \/ start_enclave
  <2>1. app # "running" /\ session' = session
    BY <1>7 DEF init_query_enclave, token_updated, start_enclave
  <2>2. session = NoSession
    BY <2>1 DEF CallInvariant
  <2> QED
    BY <1>0, <2>1, <2>2 DEF NoSession
<1>8. CASE clock
  BY <1>1, <1>8 DEF clock, linkVars
<1>9. CASE accept
  <2>1. session.phase = "none"
    BY <1>9 DEF accept, NoSession
  <2>2. CASE session' = session
    BY <1>0, <2>1, <2>2
  <2>3. CASE session' = [phase |-> "read", client |-> {Head(backlog)}, cert |-> racache', at |-> now]
    BY <1>0, <2>3
  <2> QED
    BY <1>9, <2>2, <2>3, Zenon DEF accept
<1>10. CASE read_timeout \/ process_request
  <2>1. session' = NoSession
    BY <1>10, Zenon DEF read_timeout, process_request
  <2> QED
    BY <1>0, <2>1 DEF NoSession
<1>11. CASE read_request
  <2>1. PICK c \in session.client :
          \/ session' = NoSession
          \/ /\ send("tx-query", [type |-> "GetSealedTxData", txids |-> call[c].ids])
             /\ session' = [session EXCEPT !.phase = "lookup"]
             /\ call' = call
    BY <1>11, Zenon DEF read_request
  <2>2. CASE session' = NoSession
    BY <1>0, <2>2 DEF NoSession
  <2>3. CASE /\ send("tx-query", [type |-> "GetSealedTxData", txids |-> call[c].ids])
             /\ session' = [session EXCEPT !.phase = "lookup"]
             /\ call' = call
    <3>1. session'.client = session.client /\ session.client = {c}
      BY <2>1, <2>3 DEF CallInvariant, NoSession
    <3>2. waiting["tx-query"] = {} /\ replies' = replies
      BY <1>11, <2>3 DEF send, read_request
    <3>3. replies'["tx-query"] = {}
      BY <3>2 DEF LinkInvariant, Caller
    <3>4. waiting'["tx-query"] = {[type |-> "GetSealedTxData", txids |-> call[c].ids]}
      BY <2>3 DEF send, LinkInvariant, Caller
    <3> QED
      BY <2>3, <3>1, <3>3, <3>4 DEF LookupInvariant
  <2> QED
    BY <2>1, <2>2, <2>3
<1>12. ASSUME NEW c \in Client, decrypt(c)
       PROVE  LookupInvariant'
  <2>1. UNCHANGED <<waiting, replies, verified, crashes, session>> /\ call[c] = NoCall
    BY <1>12 DEF decrypt, linkVars
  <2>2. c \notin session.client
    BY <2>1, NoCallType DEF CallInvariant, CallsAccountedFor
  <2>3. \A d \in session.client : call'[d] = call[d]
    BY <1>12, <2>2, Zenon DEF decrypt, CallInvariant, CallsAccountedFor
  <2> QED
    BY <2>1, <2>3, SameLookup
<1>13. ASSUME NEW c \in Client, client_request(c)
       PROVE  LookupInvariant'
  <2>1. call[c].phase = "challenged" /\ (session' = session \/ session' = NoSession)
    BY <1>13, Zenon DEF client_request
  <2>2. c \in session.client
    BY <2>1, Zenon DEF CallInvariant, CallsAccountedFor
  <2>3. session.phase # "lookup"
    BY <2>1, <2>2 DEF CallInvariant
  <2>4. session'.phase # "lookup"
    BY <2>1, <2>3 DEF NoSession
  <2> QED
    BY <1>0, <2>4
<1>14. CASE UNCHANGED vars
  BY <1>1, <1>14 DEF vars, linkVars, queryVars
<1> QED
  BY <1>2, <1>3, <1>4, <1>5, <1>6, <1>7, <1>8, <1>9, <1>10, <1>11, <1>12, <1>13, <1>14
     DEF Next, LinkStep, QueryStep

-----------------------------------------------------------------------------
(* The theorems *)

\* The invariant holds at the start
LEMMA InitQuery == Init => QueryInvariant
<1> SUFFICES ASSUME Init
             PROVE  QueryInvariant
  OBVIOUS
<1>1. LinkInvariant
  BY DEF Init, LinkInit, LinkInvariant
<1>2. SealedInvariant
  BY DEF Init, LinkInit, ServerInit, SealedInvariant, NoCall
<1>3. session.phase = "none" /\ session.client = {}
  BY DEF Init, NoSession
<1>4. CallInvariant
  <2>1. call \in [Client -> Call] /\ \A c \in Client : call[c].phase = "out"
    BY NoCallType DEF Init
  <2>2. backlog \in Seq(Client) /\ IsInjective(backlog) /\ Range(backlog) = {}
    BY DEF Init, IsInjective, Range
  <2>3. CallsAccountedFor
    BY <1>3, <2>1, <2>2 DEF CallsAccountedFor
  <2> QED
    BY <1>3, <2>1, <2>2, <2>3 DEF Init, CallInvariant
<1>5. CertInvariant
  BY <1>3, ClockAssumption DEF Init, CertInvariant, CertCurrent, RequestsAttested, NoCache
<1>6. LookupInvariant
  BY <1>3 DEF LookupInvariant
<1> QED
  BY <1>1, <1>2, <1>4, <1>5, <1>6 DEF QueryInvariant

\* and is kept by every step.
LEMMA NextQuery == QueryInvariant /\ [Next]_vars => QueryInvariant'
BY NextLink, NextSealed, NextCalls, NextCert, NextLookup DEF QueryInvariant

\* Every decrypt call in progress waits in the backlog, once, or is the one being
\* served: for any number of clients, timeouts, aborted enclaves and crashes.
THEOREM CallsAreAccountedFor == Spec => []CallsAccountedFor
<1>1. QueryInvariant => CallsAccountedFor
  BY DEF QueryInvariant, CallInvariant
<1> QED
  BY <1>1, InitQuery, NextQuery, PTL DEF Spec

\* The certificate a session shows was less than a day old when the session
\* began, whichever way the clock was set (get_ra_cert, get_tls_config).
THEOREM CertsAreCurrent == Spec => []CertCurrent
<1>1. QueryInvariant => CertCurrent
  BY DEF QueryInvariant, CertInvariant
<1> QED
  BY <1>1, InitQuery, NextQuery, PTL DEF Spec

\* A client sends its request only to an enclave whose certificate carries an
\* attestation report (verify_server_cert before the request is written).
THEOREM RequestsAreAttested == Spec => []RequestsAttested
<1>1. QueryInvariant => RequestsAttested
  BY DEF QueryInvariant, CertInvariant
<1> QED
  BY <1>1, InitQuery, NextQuery, PTL DEF Spec

\* The result of a call, if it returns transactions.
Exact(r) ==
  r.ok => /\ r.txs = check_unseal(r.client, r.ids)
          /\ \A k \in DOMAIN r.ids : HasOutputs(r.ids[k]) /\ r.ids[k] \in verified
LastExact == \A r \in last : Exact(r)

\* Only process_request returns transactions.
LEMMA NextExact == QueryInvariant /\ LastExact /\ [Next]_vars => LastExact'
<1> SUFFICES ASSUME QueryInvariant, LastExact, [Next]_vars
             PROVE  LastExact'
  OBVIOUS
<1>1. ASSUME last' = {} \/ \E r : last' = {r} /\ r.ok = FALSE
      PROVE  LastExact'
  BY <1>1 DEF LastExact, Exact
<1>2. ASSUME NEW S, NEW txs, NEW why, Return(S, FALSE, txs, why)
      PROVE  LastExact'
  <2>1. PICK c \in S : last' = {Returned(c, FALSE, txs, why)}
    BY <1>2, Zenon DEF Return
  <2>2. Returned(c, FALSE, txs, why).ok = FALSE
    BY DEF Returned
  <2> QED
    BY <1>1, <2>1, <2>2, Zenon
<1>3. CASE (LinkStep \/ process_request_send \/ server_crash) /\ Quiet
  BY <1>1, <1>3 DEF Quiet
<1>4. CASE init_query_enclave \/ token_updated \/ start_enclave \/ clock
  BY <1>1, <1>4, Zenon DEF init_query_enclave, token_updated, start_enclave, clock
<1>5. CASE accept
  BY <1>1, <1>2, <1>5, Zenon DEF accept
<1>6. CASE read_timeout \/ read_request
  BY <1>1, <1>2, <1>6, Zenon DEF read_timeout, read_request
<1>7. CASE process_request
  <2>1. PICK c \in session.client, a \in replies["tx-query"] :
          \/ Return({c}, FALSE, <<>>, "refused")
          \/ \E d \in ocall_get_txs(call[c].ids, a) : Return({c}, TRUE, check_unseal(c, d), "served")
    BY <1>7, Zenon DEF process_request
  <2> DEFINE ids == call[c].ids
  <2>2. ASSUME NEW d \in ocall_get_txs(ids, a), Return({c}, TRUE, check_unseal(c, d), "served")
        PROVE  LastExact'
    <3>1. LookupReply(c, a)
      BY <1>7, Zenon DEF QueryInvariant, LookupInvariant, process_request
    <3>2. d = ids /\ \A k \in DOMAIN ids : HasOutputs(ids[k]) /\ ids[k] \in verified
      BY <2>2, <3>1 DEF LookupReply, ocall_get_txs
    <3> DEFINE r == Returned(c, TRUE, check_unseal(c, d), "served")
    <3>3. last' = {r}
      BY <2>2, Zenon DEF Return
    <3>4. r.client = c /\ r.ids = ids /\ r.txs = check_unseal(c, d)
      BY Zenon DEF Returned
    <3>5. verified' = verified
      BY <1>7, Zenon DEF process_request
    <3> HIDE DEF r, ids
    <3> QED
      BY <3>2, <3>3, <3>4, <3>5, Zenon DEF LastExact, Exact
  <2> QED
    BY <1>2, <2>1, <2>2, Zenon
<1>8. ASSUME NEW c \in Client, decrypt(c)
      PROVE  LastExact'
  <2>1. ASSUME NEW ids, NEW sealed,
               last' = {[client |-> c, ok |-> FALSE, ids |-> ids, txs |-> <<>>,
                         why |-> "connect", sealed |-> sealed]}
        PROVE  LastExact'
    <3> DEFINE r == [client |-> c, ok |-> FALSE, ids |-> ids, txs |-> <<>>,
                     why |-> "connect", sealed |-> sealed]
    <3>1. r.ok = FALSE
      OBVIOUS
    <3>2. last' = {r}
      BY <2>1
    <3> HIDE DEF r
    <3> QED
      BY <1>1, <3>1, <3>2, Zenon
  <2> QED
    BY <1>1, <1>8, <2>1, Zenon DEF decrypt
<1>9. ASSUME NEW c \in Client, client_request(c)
      PROVE  LastExact'
  BY <1>1, <1>2, <1>9, Zenon DEF client_request
<1>10. CASE UNCHANGED vars
  BY <1>10 DEF vars, linkVars, LastExact, Exact
<1> QED
  BY <1>3, <1>4, <1>5, <1>6, <1>7, <1>8, <1>9, <1>10 DEF Next, QueryStep

\* A call that returns transactions returns exactly the requested ones that the
\* caller's view key may see, every requested one being verified and sealed.
THEOREM QueriesAreExact == Spec => []QueryExact
<1>1. Init => LastExact
  BY DEF Init, LastExact
<1>2. LastExact => QueryExact
  <2> SUFFICES ASSUME LastExact, NEW r \in last, r.ok
               PROVE  /\ r.txs = SelectSeq(r.ids, LAMBDA id : r.client \in Tx[id].allowed_view)
                      /\ \A k \in DOMAIN r.ids : HasOutputs(r.ids[k]) /\ r.ids[k] \in verified
    BY Zenon DEF QueryExact
  <2>1. r.txs = check_unseal(r.client, r.ids)
    BY DEF LastExact, Exact
  <2>2. \A k \in DOMAIN r.ids : HasOutputs(r.ids[k]) /\ r.ids[k] \in verified
    BY DEF LastExact, Exact
  <2>3. r.txs = SelectSeq(r.ids, LAMBDA id : r.client \in Tx[id].allowed_view)
    BY <2>1 DEF check_unseal
  <2> QED
    BY <2>2, <2>3
<1> QED
  BY <1>1, <1>2, NextExact, InitQuery, NextQuery, PTL DEF Spec

-----------------------------------------------------------------------------
(* Refusals *)

\* The recursion of EncodedLen: a prefix of c bytes, then the elements.
IsLength(f, c, data, n) ==
  f = [k \in 0 .. n |-> IF k = 0 THEN c ELSE f[k - 1] + ElementLen(data[k])]

\* It has a solution, which grows by at most b with each element.
LEMMA LengthBound ==
  ASSUME NEW c \in Nat, NEW b \in Nat, NEW m \in Nat, NEW data,
         \A k \in 1 .. m : ElementLen(data[k]) \in Nat /\ ElementLen(data[k]) <= b
  PROVE  /\ \E f : IsLength(f, c, data, m)
         /\ \A f : IsLength(f, c, data, m) => f[m] \in Nat /\ f[m] <= c + m * b
<1>1. ASSUME NEW F, 0 \in F, \A n \in Nat : n \in F => n + 1 \in F
      PROVE  m \in F
  <2> DEFINE D == Nat \ F
  <2> SUFFICES ASSUME D # {} PROVE FALSE
    OBVIOUS
  <2>1. \E x \in D : \A y \in D : ~ (<<y, x>> \in OpToRel(<, Nat))
    BY NatLessThanWellFounded, WFMin, Zenon
  <2>2. PICK x \in D : \A y \in D : ~ (y < x)
    BY <2>1, Zenon DEF OpToRel
  <2>3. x - 1 \in Nat /\ x - 1 \in F
    BY <1>1, <2>2
  <2> QED
    BY <1>1, <2>2, <2>3
<1>2. \E f : IsLength(f, c, data, m)
  <2> DEFINE F == {n \in Nat : n <= m => \E f : IsLength(f, c, data, n)}
  <2>1. 0 \in F
    <3>1. IsLength([k \in 0 .. 0 |-> c], c, data, 0)
      BY DEF IsLength
    <3> QED
      BY <3>1
  <2>2. ASSUME NEW n \in Nat, n \in F
        PROVE  n + 1 \in F
    <3> SUFFICES ASSUME n + 1 <= m PROVE \E f : IsLength(f, c, data, n + 1)
      OBVIOUS
    <3>1. PICK f : IsLength(f, c, data, n)
      BY <2>2
    <3> DEFINE g == [k \in 0 .. n + 1 |-> IF k = n + 1 THEN f[n] + ElementLen(data[n + 1]) ELSE f[k]]
    <3>2. IsLength(g, c, data, n + 1)
      <4>1. ASSUME NEW k \in 0 .. n + 1
            PROVE  g[k] = IF k = 0 THEN c ELSE g[k - 1] + ElementLen(data[k])
        BY <3>1 DEF IsLength
      <4> QED
        BY <4>1 DEF IsLength
    <3> QED
      BY <3>2
  <2> HIDE DEF F
  <2>3. m \in F
    BY <1>1, <2>1, <2>2
  <2> QED
    BY <2>3 DEF F
<1>3. ASSUME NEW f, IsLength(f, c, data, m)
      PROVE  f[m] \in Nat /\ f[m] <= c + m * b
  <2> DEFINE F == {n \in Nat : n <= m => f[n] \in Nat /\ f[n] <= c + n * b}
  <2>1. 0 \in F
    BY <1>3 DEF IsLength
  <2>2. ASSUME NEW n \in Nat, n \in F
        PROVE  n + 1 \in F
    <3> SUFFICES ASSUME n + 1 <= m
                 PROVE  f[n + 1] \in Nat /\ f[n + 1] <= c + (n + 1) * b
      OBVIOUS
    <3>1. f[n] \in Nat /\ f[n] <= c + n * b
      BY <2>2
    <3>2. f[n + 1] = f[n] + ElementLen(data[n + 1])
      BY <1>3 DEF IsLength
    <3>3. ElementLen(data[n + 1]) \in Nat /\ ElementLen(data[n + 1]) <= b
      OBVIOUS
    <3>4. (n + 1) * b = n * b + b /\ n * b \in Nat
      OBVIOUS
    <3> QED
      BY <3>1, <3>2, <3>3, <3>4
  <2> HIDE DEF F
  <2>3. m \in F
    BY <1>1, <2>1, <2>2
  <2> QED
    BY <2>3 DEF F
<1> QED
  BY <1>2, <1>3

\* A nonempty list of transactions that each leave three bytes of their share
\* fits the buffer, with the prefixes of the vector and of every element.
LEMMA EncodedFits ==
  ASSUME NEW ids \in Seq(TxId), ids # <<>>,
         \A k \in DOMAIN ids : SealedLen[ids[k]] + 3 <= TX_BUF
  PROVE  EncodedLen(ids) <= Len(ids) * TX_BUF
<1> DEFINE n == Len(ids)
           c == Compact(n)
           b == TX_BUF - 1
<1>1. n \in Nat /\ n > 0 /\ DOMAIN ids = 1 .. n
  OBVIOUS
<1>2. TX_BUF \in Nat /\ TX_BUF <= 16384 /\ \A k \in 1 .. n : SealedLen[ids[k]] \in Nat
  BY <1>1, QueryAssumption
<1>3. b \in Nat
  BY <1>1, <1>2
<1>4. ASSUME NEW k \in 1 .. n
      PROVE  ElementLen(ids[k]) \in Nat /\ ElementLen(ids[k]) <= b
  <2> DEFINE l == SealedLen[ids[k]]
  <2>1. l \in Nat /\ l + 3 <= TX_BUF
    BY <1>1, <1>2
  <2>2. ElementLen(ids[k]) = Compact(l) + l
    BY DEF ElementLen
  <2> HIDE DEF l
  <2>3. Compact(l) \in Nat /\ Compact(l) <= 2
    BY <1>2, <2>1 DEF Compact
  <2> QED
    BY <1>2, <2>1, <2>2, <2>3
<1>5. c \in Nat /\ c <= n
  BY <1>1 DEF Compact
<1>6. EncodedLen(ids) = (CHOOSE f : IsLength(f, c, ids, n))[n]
  BY DEF EncodedLen, IsLength
<1> HIDE DEF b, c, n
<1>7. /\ \E f : IsLength(f, c, ids, n)
      /\ \A f : IsLength(f, c, ids, n) => f[n] \in Nat /\ f[n] <= c + n * b
  BY <1>1, <1>3, <1>4, <1>5, LengthBound, Zenon
<1>8. EncodedLen(ids) \in Nat /\ EncodedLen(ids) <= c + n * b
  BY <1>6, <1>7, Zenon
<1>9. n * b + n = n * TX_BUF /\ n * b \in Nat
  BY <1>1, <1>2, <1>3 DEF b
<1> QED
  BY <1>1, <1>2, <1>5, <1>8, <1>9 DEF n

\* Only read_request and process_request refuse.
LEMMA NextRefused == QueryInvariant /\ RefusedForCause /\ [Next]_vars => RefusedForCause'
<1> SUFFICES ASSUME QueryInvariant, RefusedForCause, [Next]_vars
             PROVE  RefusedForCause'
  OBVIOUS
<1>1. ASSUME last' = {} \/ \E r : last' = {r} /\ r.why # "refused"
      PROVE  RefusedForCause'
  BY <1>1 DEF RefusedForCause
<1>2. ASSUME NEW S, NEW ok, NEW txs, NEW why, Return(S, ok, txs, why), why # "refused"
      PROVE  RefusedForCause'
  <2>1. PICK c \in S : last' = {Returned(c, ok, txs, why)}
    BY <1>2 DEF Return
  <2>2. Returned(c, ok, txs, why).why # "refused"
    BY <1>2 DEF Returned
  <2> QED
    BY <1>1, <2>1, <2>2
<1>3. ASSUME NEW c, Return({c}, FALSE, <<>>, "refused"), crashes' = crashes,
             \/ call[c].ids = <<>>
             \/ RequestLen(call[c].ids) > PLAIN_LEN
             \/ ~call[c].sealed
             \/ \E k \in DOMAIN call[c].ids : SealedLen[call[c].ids[k]] + 3 > TX_BUF
             \/ crashes # 0
      PROVE  RefusedForCause'
  <2> DEFINE r == Returned(c, FALSE, <<>>, "refused")
  <2>1. last' = {r}
    BY <1>3 DEF Return
  <2>2. r.ids = call[c].ids /\ r.sealed = call[c].sealed
    BY DEF Returned
  <2> HIDE DEF r
  <2> QED
    BY <1>3, <2>1, <2>2 DEF RefusedForCause
<1>4. CASE (LinkStep \/ process_request_send \/ server_crash) /\ Quiet
  BY <1>1, <1>4 DEF Quiet
<1>5. CASE init_query_enclave \/ token_updated \/ start_enclave \/ clock
  BY <1>1, <1>5, Zenon DEF init_query_enclave, token_updated, start_enclave, clock
<1>6. CASE accept
  BY <1>1, <1>2, <1>6, Zenon DEF accept
<1>7. CASE read_timeout
  BY <1>2, <1>7, Zenon DEF read_timeout
<1>8. CASE read_request
  BY <1>1, <1>3, <1>8, Zenon DEF read_request
<1>9. CASE process_request
  <2>1. PICK c \in session.client, a \in replies["tx-query"] :
          IF ocall_get_txs(call[c].ids, a) = {}
          THEN Return({c}, FALSE, <<>>, "refused")
          ELSE \E d \in ocall_get_txs(call[c].ids, a) : Return({c}, TRUE, check_unseal(c, d), "served")
    BY <1>9, Zenon DEF process_request
  <2>2. CASE ocall_get_txs(call[c].ids, a) # {}
    BY <1>2, <2>1, <2>2, Zenon
  <2>3. CASE ocall_get_txs(call[c].ids, a) = {}
    <3> DEFINE ids == call[c].ids
    <3>1. crashes' = crashes
      BY <1>9 DEF process_request
    <3>2. LookupReply(c, a)
      BY <1>9, Zenon DEF QueryInvariant, LookupInvariant, process_request
    <3>3. ids \in Seq(TxId)
      BY DEF QueryInvariant, CallInvariant, CallsAccountedFor, Call
    <3>4. crashes = 0 /\ call[c].sealed => ~ (EncodedLen(ids) <= Len(ids) * TX_BUF)
      BY <2>3, <3>2 DEF LookupReply, ocall_get_txs
    <3>5. ASSUME ids # <<>>, crashes = 0, call[c].sealed
          PROVE  \E k \in DOMAIN ids : ~ (SealedLen[ids[k]] + 3 <= TX_BUF)
      <4> HIDE DEF ids
      <4>1. ~ (EncodedLen(ids) <= Len(ids) * TX_BUF)
        BY <3>4, <3>5
      <4> QED
        BY <3>3, <3>5, <4>1, EncodedFits
    <3>6. \A k \in DOMAIN ids : SealedLen[ids[k]] + 3 <= TX_BUF \/ SealedLen[ids[k]] + 3 > TX_BUF
      <4>1. \A k \in DOMAIN ids : ids[k] \in TxId
        BY <3>3
      <4>2. \A id \in TxId : SealedLen[id] \in Nat
        BY QueryAssumption
      <4>3. \A l \in Nat : l + 3 <= TX_BUF \/ l + 3 > TX_BUF
        BY QueryAssumption
      <4> QED
        BY <4>1, <4>2, <4>3
    <3> HIDE DEF ids
    <3>7. \/ ids = <<>>
          \/ ~call[c].sealed
          \/ \E k \in DOMAIN ids : SealedLen[ids[k]] + 3 > TX_BUF
          \/ crashes # 0
      BY <3>5, <3>6
    <3> QED
      BY <1>3, <2>1, <2>3, <3>1, <3>7, Zenon DEF ids
  <2> QED
    BY <2>2, <2>3
<1>10. ASSUME NEW c \in Client, decrypt(c)
       PROVE  RefusedForCause'
  <2>1. ASSUME NEW ids, NEW sealed,
               last' = {[client |-> c, ok |-> FALSE, ids |-> ids, txs |-> <<>>,
                         why |-> "connect", sealed |-> sealed]}
        PROVE  RefusedForCause'
    <3> DEFINE r == [client |-> c, ok |-> FALSE, ids |-> ids, txs |-> <<>>,
                     why |-> "connect", sealed |-> sealed]
    <3>1. r.why = "connect"
      OBVIOUS
    <3>2. last' = {r}
      BY <2>1
    <3> HIDE DEF r
    <3> QED
      BY <1>1, <3>1, <3>2
  <2> QED
    BY <1>1, <1>10, <2>1, Zenon DEF decrypt
<1>11. ASSUME NEW c \in Client, client_request(c)
       PROVE  RefusedForCause'
  BY <1>1, <1>2, <1>11, Zenon DEF client_request
<1>12. CASE UNCHANGED vars
  BY <1>12, Zenon DEF vars, linkVars, RefusedForCause
<1> QED
  BY <1>4, <1>5, <1>6, <1>7, <1>8, <1>9, <1>10, <1>11, <1>12 DEF Next, QueryStep

\* Without a crash of the server, a request is refused only for a cause the
\* client can see: for every list, and every length of its transactions.
THEOREM RefusalsHaveCause == Spec => []RefusedForCause
<1>1. Init => RefusedForCause
  BY DEF Init, RefusedForCause
<1> QED
  BY <1>1, NextRefused, InitQuery, NextQuery, PTL DEF Spec
=============================================================================
