---------------------------- MODULE ClientStorage ---------------------------
(***************************************************************************)
(* Client storage as its back ends implement it (client-common/storage),   *)
(* used by several threads: MemoryStorage under a lock, SledStorage with a *)
(* compare-and-swap loop, UnauthorizedStorage, and the secure operations   *)
(* on top of any of them.  A step is one operation on the database.        *)
(***************************************************************************)
EXTENDS SecureStorage, Integers

CONSTANTS
  Backends,        \* back ends to choose from
  MaxCalls         \* calls of a thread

ASSUME BackendsAssumption == Backends \subseteq {"memory", "sled", "unauthorized"}
ASSUME MaxCallsAssumption == MaxCalls \in Nat

VARIABLES
  backend,
  store,
  request,         \* what each thread has asked for
  pc,              \* where in the request it is
  current,         \* what it has read
  answer,
  calls

storageVars == <<backend, store, request, pc, current, answer, calls>>

-----------------------------------------------------------------------------

Call(t, r) ==
  /\ request[t] = {}
  /\ calls[t] < MaxCalls
  /\ calls' = [calls EXCEPT ![t] = @ + 1]
  /\ request' = [request EXCEPT ![t] = {r}]
  /\ pc' = [pc EXCEPT ![t] = "start"]
  /\ UNCHANGED <<backend, store, current, answer>>

Return(t, ans) ==
  /\ request' = [request EXCEPT ![t] = {}]
  /\ pc' = [pc EXCEPT ![t] = "idle"]
  /\ current' = [current EXCEPT ![t] = {}]
  /\ answer' = [answer EXCEPT ![t] = {ans}]
  /\ UNCHANGED <<backend, calls>>

Goto(t, label, read) ==
  /\ pc' = [pc EXCEPT ![t] = label]
  /\ current' = [current EXCEPT ![t] = read]
  /\ UNCHANGED <<backend, store, request, answer, calls>>

PermissionDenied(t) ==
  /\ pc[t] = "start" /\ backend = "unauthorized"
  /\ Return(t, Failed) /\ UNCHANGED store

Started(t, r, op) == r \in request[t] /\ pc[t] = "start" /\ r.op = op /\ backend # "unauthorized"

get_secure(t, r) ==
  /\ Started(t, r, "get_secure")
  /\ Return(t, IF Opens(store[r.key], r) THEN Ok(store[r.key]) ELSE Failed)
  /\ UNCHANGED store

contains_key(t, r) ==
  /\ Started(t, r, "contains_key")
  /\ Return(t, Ok(store[r.key]))
  /\ UNCHANGED store

clear(t, r) ==
  /\ Started(t, r, "clear")
  /\ store' = [k \in Key |-> {}]
  /\ Return(t, Ok({}))

\* set_secure first reads the old value, and fails if it does not open.
set_secure(t, r) ==
  /\ Started(t, r, "set_secure")
  /\ IF Opens(store[r.key], r) THEN Goto(t, "set", store[r.key])
     ELSE Return(t, Failed) /\ UNCHANGED store

set(t, r) ==
  /\ r \in request[t] /\ pc[t] = "set"
  /\ store' = [store EXCEPT ![r.key] = Fresh(r)]
  /\ Return(t, Ok(current[t]))

\* A value is read and the update computed from it.
fetch(t, r) ==
  IF Updates(store[r.key], r) THEN Goto(t, "cas", store[r.key])
  ELSE Return(t, Failed) /\ UNCHANGED store

\* MemoryStorage holds the lock from reading to writing.
fetch_and_update_locked(t, r) ==
  /\ Started(t, r, "fetch_and_update_secure") /\ backend = "memory"
  /\ \/ /\ ~ Updates(store[r.key], r)
        /\ Return(t, Failed) /\ UNCHANGED store
     \/ /\ Updates(store[r.key], r)
        /\ store' = [store EXCEPT ![r.key] = Updated(@, r)]
        /\ Return(t, Ok(store[r.key]))

fetch_and_update(t, r) ==
  /\ Started(t, r, "fetch_and_update_secure") /\ backend = "sled"
  /\ fetch(t, r)

\* Mutant: the update is written without comparing.
SwapAlways(t, r) ==
  /\ r \in request[t] /\ pc[t] = "cas"
  /\ store' = [store EXCEPT ![r.key] = Updated(current[t], r)]
  /\ Return(t, Ok(current[t]))
\* Mutant: a failed compare-and-swap is tried again with the same old value.
RetryStale(t, r) ==
  /\ r \in request[t] /\ pc[t] = "cas"
  /\ IF store[r.key] = current[t]
     THEN /\ store' = [store EXCEPT ![r.key] = Updated(current[t], r)]
          /\ Return(t, Ok(current[t]))
     ELSE Goto(t, "cas", current[t])

\* The compare-and-swap; a failure gives the new current value.
cas(t, r) ==
  /\ r \in request[t] /\ pc[t] = "cas"
  /\ IF store[r.key] = current[t]
     THEN /\ store' = [store EXCEPT ![r.key] = Updated(current[t], r)]
          /\ Return(t, Ok(current[t]))
     ELSE fetch(t, r)

-----------------------------------------------------------------------------

StorageInit ==
  /\ backend \in Backends
  /\ store = [k \in Key |-> {}]
  /\ request = [t \in Thread |-> {}]
  /\ pc = [t \in Thread |-> "idle"]
  /\ current = [t \in Thread |-> {}]
  /\ answer = [t \in Thread |-> {}]
  /\ calls = [t \in Thread |-> 0]

StorageStep(t) ==
  \/ PermissionDenied(t)
  \/ \E r \in request[t] :
       \/ get_secure(t, r) \/ contains_key(t, r) \/ clear(t, r)
       \/ set_secure(t, r) \/ set(t, r)
       \/ fetch_and_update_locked(t, r) \/ fetch_and_update(t, r) \/ cas(t, r)

StorageNext == \E t \in Thread : StorageStep(t) \/ \E r \in Request : Call(t, r)

StorageSpec == StorageInit /\ [][StorageNext]_storageVars

\* A thread that is inside a storage operation goes on.
FairStorage == StorageSpec /\ \A t \in Thread : WF_storageVars(StorageStep(t))

-----------------------------------------------------------------------------
(* Properties *)

Labels == {"idle", "start", "set", "cas"}

\* The type invariant, with what a thread's place in a request implies: inside
\* the compare-and-swap loop it holds a value the update succeeds on.
StorageTypeOK ==
  /\ backend \in {"memory", "sled", "unauthorized"}
  /\ store \in [Key -> Cell]
  /\ request \in [Thread -> Requests]
  /\ pc \in [Thread -> Labels]
  /\ current \in [Thread -> Cell]
  /\ answer \in [Thread -> {{}} \cup {{a} : a \in Answer}]
  /\ calls \in [Thread -> Nat]
  /\ \A t \in Thread :
       /\ (pc[t] = "idle") <=> (request[t] = {})
       /\ \A r \in request[t] :
            /\ pc[t] = "set" => r.op = "set_secure" /\ backend # "unauthorized"
            /\ pc[t] = "cas" => /\ r.op = "fetch_and_update_secure" /\ backend # "unauthorized"
                                /\ Updates(current[t], r)

Abstract == INSTANCE KeyValueStore WITH denied <- (backend = "unauthorized")

\* Every request takes effect at one instant: in particular no update is lost,
\* however the threads' compare-and-swap loops interleave, and the value an
\* update answers with is the one it replaced.
ImplementsStore == Abstract!Spec

\* A thread is not kept in its compare-and-swap loop: each failure is the
\* success of another thread, and there are finitely many calls.
CallsReturn == \A t \in Thread : request[t] # {} ~> request[t] = {}

\* set_secure answers with the value it replaces ("Set a key to a new value
\* (after encryption) in given keyspace and return old value").
OldValueReturned ==
  [][\A t \in Thread : \A r \in request[t] :
       set(t, r) => answer'[t] = {Ok(store[r.key])}]_storageVars
=============================================================================
