--------------------------- MODULE MultiSigSession --------------------------
(***************************************************************************)
(* Signing one message with several keys (multi_sig_session_service).      *)
(* Each signer has a session of their own in their own storage; values are *)
(* carried from client to client by the users, in any order, any number of *)
(* times and also under the wrong public key.                              *)
(*                                                                         *)
(* nonce_commitment, nonce and partial_signature read the session, add the *)
(* signer's own value and write the session back: two steps.  The add_     *)
(* operations are one atomic fetch_and_update.  If Concurrent, they may    *)
(* come between the two steps (the services are shared between threads);   *)
(* the RPC server's single HTTP thread never lets them.                    *)
(***************************************************************************)
EXTENDS Integers, FiniteSets

CONSTANTS
  Signer,         \* public keys of the signers
  Concurrent

ASSUME SignerAssumption == \E p, q \in Signer : p # q

VARIABLES
  open,           \* signers that have a session
  session,        \* the stored session of each signer
  pending,        \* what an operation of a signer is about to write back
  commitments, nonces, partials,   \* values that have been handed out
  signature       \* final signatures, by signer

sessionVars == <<open, session, pending, commitments, nonces, partials, signature>>

\* A commitment or nonce is known by the signer it is from; a partial signature
\* by its signer and the nonces it was made with, slot by slot.
Partial == [signer : Signer, nonces : [Signer -> Signer]]

\* The slots of a session.
Option(S) == {{}} \cup {{v} : v \in S}
Session == [nonce_commitment : [Signer -> Option(Signer)],
            nonce : [Signer -> Option(Signer)],
            partial_signature : [Signer -> Option(Partial)]]

NoneYet == [q \in Signer |-> {}]
EmptySession == [nonce_commitment |-> NoneYet, nonce |-> NoneYet, partial_signature |-> NoneYet]

Missing(slots) == \E q \in Signer : slots[q] = {}

-----------------------------------------------------------------------------
(* Methods of a session *)

\* Mutant: what is added is lost if it comes late.
NotAdded(slots, q, v) == slots

\* add_nonce_commitment, add_nonce and add_partial_signature fail when the slot
\* is taken; the callers that check it first keep what is there.
AddToSlot(slots, q, v) == [slots EXCEPT ![q] = IF @ = {} THEN {v} ELSE @]

\* Mutant: the commitments are not waited for.
NonceAnyTime(x) == TRUE

\* MultiSigSession::nonce needs every commitment.
CanRevealNonce(x) == ~ Missing(x.nonce_commitment)

\* MultiSigSession::partial_signature needs every nonce too, and setting a
\* nonce that is not the one committed to fails.
CanSign(x) ==
  /\ ~ Missing(x.nonce_commitment)
  /\ ~ Missing(x.nonce)
  /\ \A q \in Signer : x.nonce[q] = x.nonce_commitment[q]

NoncesOf(x) == [q \in Signer |-> CHOOSE v \in x.nonce[q] : TRUE]
\* Mutant: signed with the signer's own nonce in every slot.
PartialOwnNonce(s, x) == [signer |-> s, nonces |-> [q \in Signer |-> s]]

PartialOf(s, x) == [signer |-> s, nonces |-> NoncesOf(x)]

-----------------------------------------------------------------------------
(* The service *)

Idle(s) == s \in open /\ (Concurrent \/ pending[s] = {})

new_session(s) ==
  /\ s \notin open
  /\ open' = open \cup {s}
  /\ session' = [session EXCEPT ![s] = EmptySession]
  /\ UNCHANGED <<pending, commitments, nonces, partials, signature>>

\* The first half of an operation on the signer's own value: get_session.
Begin(s, x, op, value) ==
  /\ s \in open
  /\ pending[s] = {}
  /\ pending' = [pending EXCEPT ![s] = {[op |-> op, session |-> x, value |-> value]}]
  /\ UNCHANGED <<open, session, commitments, nonces, partials, signature>>

nonce_commitment(s) ==
  Begin(s, [session[s] EXCEPT !.nonce_commitment = AddToSlot(@, s, s)], "nonce_commitment", s)

nonce(s) ==
  /\ CanRevealNonce(session[s])
  /\ Begin(s, [session[s] EXCEPT !.nonce = AddToSlot(@, s, s)], "nonce", s)

partial_signature(s) ==
  /\ CanSign(session[s])
  /\ LET p == PartialOf(s, session[s])
     IN Begin(s, [session[s] EXCEPT !.partial_signature = AddToSlot(@, s, p)], "partial_signature", p)

\* The second half: set_session, and the value is returned.
set_session(s) ==
  \E w \in pending[s] :
    /\ session' = [session EXCEPT ![s] = w.session]
    /\ pending' = [pending EXCEPT ![s] = {}]
    /\ commitments' = IF w.op = "nonce_commitment" THEN commitments \cup {w.value} ELSE commitments
    /\ nonces' = IF w.op = "nonce" THEN nonces \cup {w.value} ELSE nonces
    /\ partials' = IF w.op = "partial_signature" THEN partials \cup {w.value} ELSE partials
    /\ UNCHANGED <<open, signature>>

\* A value that was handed out reaches signer s, under the public key q.
add_nonce_commitment(s, q, v) ==
  /\ Idle(s) /\ v \in commitments
  /\ session[s].nonce_commitment[q] = {}
  /\ session' = [session EXCEPT ![s].nonce_commitment = AddToSlot(@, q, v)]
  /\ UNCHANGED <<open, pending, commitments, nonces, partials, signature>>

add_nonce(s, q, v) ==
  /\ Idle(s) /\ v \in nonces
  /\ session[s].nonce[q] = {}
  /\ session' = [session EXCEPT ![s].nonce = AddToSlot(@, q, v)]
  /\ UNCHANGED <<open, pending, commitments, nonces, partials, signature>>

add_partial_signature(s, q, v) ==
  /\ Idle(s) /\ v \in partials
  /\ session[s].partial_signature[q] = {}
  /\ session' = [session EXCEPT ![s].partial_signature = AddToSlot(@, q, v)]
  /\ UNCHANGED <<open, pending, commitments, nonces, partials, signature>>

\* MultiSigSession::signature combines the partial signatures; it does not
\* verify them.
combine(s) ==
  /\ Idle(s)
  /\ CanSign(session[s])
  /\ ~ Missing(session[s].partial_signature)
  /\ signature' = [signature EXCEPT ![s] =
       @ \cup {[q \in Signer |-> CHOOSE v \in session[s].partial_signature[q] : TRUE]}]
  /\ UNCHANGED <<open, session, pending, commitments, nonces, partials>>

\* The process of a signer is killed inside an operation.
Killed(s) ==
  /\ pending[s] # {}
  /\ pending' = [pending EXCEPT ![s] = {}]
  /\ UNCHANGED <<open, session, commitments, nonces, partials, signature>>

SessionInit ==
  /\ open = {}
  /\ session = [s \in Signer |-> EmptySession]
  /\ pending = [s \in Signer |-> {}]
  /\ commitments = {}
  /\ nonces = {}
  /\ partials = {}
  /\ signature = [s \in Signer |-> {}]

OwnValue(s) == nonce_commitment(s) \/ nonce(s) \/ partial_signature(s)

Deliver(s, q) ==
  \/ \E v \in Signer : add_nonce_commitment(s, q, v) \/ add_nonce(s, q, v)
  \/ \E v \in partials : add_partial_signature(s, q, v)

SessionNext ==
  \E s \in Signer :
    \/ new_session(s) \/ OwnValue(s) \/ set_session(s) \/ combine(s) \/ Killed(s)
    \/ \E q \in Signer : Deliver(s, q)

SessionSpec == SessionInit /\ [][SessionNext]_sessionVars

\* An operation whose value is not out yet is begun, and completed.
Unfinished(s, op) ==
  CASE op = "nonce_commitment" -> s \notin commitments
    [] op = "nonce" -> s \notin nonces
    [] op = "partial_signature" -> \A p \in partials : p.signer # s
Begun(s) ==
  \/ Unfinished(s, "nonce_commitment") /\ nonce_commitment(s)
  \/ Unfinished(s, "nonce") /\ nonce(s)
  \/ Unfinished(s, "partial_signature") /\ partial_signature(s)
Completed(s) == set_session(s) /\ \E w \in pending[s] : Unfinished(s, w.op)

\* Users go on calling until they have the value, whatever else they call and
\* however often they are killed; values are delivered.
FairSession ==
  /\ SessionSpec
  /\ \A s \in Signer : SF_sessionVars(Begun(s)) /\ SF_sessionVars(Completed(s)) /\ WF_sessionVars(set_session(s))
  /\ WF_sessionVars(\E s \in Signer : new_session(s))
  /\ SF_sessionVars(\E s, q \in Signer : Deliver(s, q))
  /\ SF_sessionVars(\E s \in Signer : signature[s] = {} /\ combine(s))

-----------------------------------------------------------------------------
(* Properties *)

Operations == {"nonce_commitment", "nonce", "partial_signature"}
Write == [op : Operations, session : Session, value : Signer \cup Partial]

SessionTypeOK ==
  /\ open \subseteq Signer
  /\ session \in [Signer -> Session]
  /\ pending \in [Signer -> SUBSET Write]
  /\ \A s \in Signer : \A w \in pending[s] :
       IF w.op = "partial_signature" THEN w.value \in Partial /\ w.value.signer = s
       ELSE w.value = s
  /\ commitments \subseteq Signer
  /\ nonces \subseteq Signer
  /\ partials \subseteq Partial
  /\ signature \in [Signer -> SUBSET [Signer -> Partial]]

\* A signer's nonce is out only when the signer has, and keeps, a commitment
\* from every signer ("This function will fail if nonce commitments from all
\* co-signers are not received").
NonceAfterCommitments ==
  \A s \in nonces : ~ Missing(session[s].nonce_commitment)

\* A signer hands out partial signatures for one combination of nonces only,
\* however often partial_signature is called and whatever is delivered.
OnePartialPerSigner ==
  \A p1, p2 \in partials : p1.signer = p2.signer => p1 = p2

Right(q) == [signer |-> q, nonces |-> [r \in Signer |-> r]]

\* A value is stored under the public key of another signer than it is from.
Misplaced ==
  \E s, q \in Signer :
    \/ \E v \in session[s].nonce_commitment[q] \cup session[s].nonce[q] : v # q
    \/ \E p \in session[s].partial_signature[q] : p.signer # q

\* Unless a value has been stored under a wrong key, a final signature is valid: it
\* combines a partial signature of each signer, all made with the same nonces,
\* each signer's own.  MultiSigSession::signature verifies none of this.
SignaturesValid ==
  ~ Misplaced => \A s \in Signer : \A sig \in signature[s] : \A q \in Signer : sig[q] = Right(q)

Kept(old, new) == \A q \in Signer : old[q] # {} => new[q] = old[q]
Grows(x, y) ==
  /\ Kept(x.nonce_commitment, y.nonce_commitment)
  /\ Kept(x.nonce, y.nonce)
  /\ Kept(x.partial_signature, y.partial_signature)

\* What was added to a session stays in it ("Adds nonce to current signer if
\* not already added").
AddedStays == [][\A s \in Signer : Grows(session[s], session'[s])]_sessionVars

MadeWith(p) == \A q \in Signer : session[p.signer].nonce[q] = {p.nonces[q]}

\* With operations on a session one at a time: what is about to be written
\* extends the stored session, and what was handed out was made from slots that
\* are still filled with the same values.
SessionInvariant ==
  /\ SessionTypeOK
  /\ \A s \in Signer : s \notin open => session[s] = EmptySession /\ pending[s] = {}
  /\ \A s \in Signer : \A w \in pending[s] :
       /\ Grows(session[s], w.session)
       /\ w.op = "nonce" => ~ Missing(session[s].nonce_commitment)
       /\ w.op = "partial_signature" => MadeWith(w.value)
  /\ NonceAfterCommitments
  /\ \A p \in partials : MadeWith(p)

\* No order of calls gets a session stuck: every signer gets the signature, unless
\* a value is stored under a wrong key.
EventuallySigned == \A s \in Signer : <>(signature[s] # {} \/ Misplaced)
=============================================================================
