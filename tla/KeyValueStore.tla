---------------------------- MODULE KeyValueStore ---------------------------
(***************************************************************************)
(* What client storage promises the services: every request takes effect   *)
(* at one instant between its call and its answer.                         *)
(***************************************************************************)
EXTENDS SecureStorage

VARIABLES store, request, answer, denied

vars == <<store, request, answer, denied>>

Outcome(r, ans) ==
  \/ /\ denied \/ (r.op # "contains_key" /\ r.op # "clear" /\ ~ Opens(store[r.key], r))
     /\ ans = Failed /\ UNCHANGED store
  \/ /\ r.op = "fetch_and_update_secure" /\ ~ Updates(store[r.key], r)
     /\ ans = Failed /\ UNCHANGED store
  \/ /\ ~ denied /\ r.op = "get_secure" /\ Opens(store[r.key], r)
     /\ ans = Ok(store[r.key]) /\ UNCHANGED store
  \/ /\ ~ denied /\ r.op = "contains_key"
     /\ ans = Ok(store[r.key]) /\ UNCHANGED store
  \/ /\ ~ denied /\ r.op = "clear"
     /\ ans = Ok({}) /\ store' = [k \in Key |-> {}]
  \* The old value set_secure answers with may be out of date.
  \/ /\ ~ denied /\ r.op = "set_secure"
     /\ \E old \in Cell : ans = Ok(old)
     /\ store' = [store EXCEPT ![r.key] = Fresh(r)]
  \/ /\ ~ denied /\ r.op = "fetch_and_update_secure" /\ Updates(store[r.key], r)
     /\ ans = Ok(store[r.key])
     /\ store' = [store EXCEPT ![r.key] = Updated(store[r.key], r)]

Invoke(t) ==
  /\ request[t] = {}
  /\ \E r \in Request : request' = [request EXCEPT ![t] = {r}]
  /\ UNCHANGED <<store, answer, denied>>

Respond(t) ==
  \E r \in request[t] : \E ans \in Answer :
    /\ Outcome(r, ans)
    /\ request' = [request EXCEPT ![t] = {}]
    /\ answer' = [answer EXCEPT ![t] = {ans}]
    /\ UNCHANGED denied

Init ==
  /\ store = [k \in Key |-> {}]
  /\ request = [t \in Thread |-> {}]
  /\ answer = [t \in Thread |-> {}]
  /\ denied \in BOOLEAN

Next == \E t \in Thread : Invoke(t) \/ Respond(t)

Spec == Init /\ [][Next]_vars
=============================================================================
