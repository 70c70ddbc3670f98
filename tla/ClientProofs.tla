---------------------------- MODULE ClientProofs ----------------------------
(***************************************************************************)
(* The client's services, for every choice of the constants.               *)
(*                                                                         *)
(* Multi-sig sessions, for any set of signers.  The central fact is that   *)
(* sessions only grow when operations on a session do not overlap: what an *)
(* operation is about to write extends what is stored.  What was handed    *)
(* out depends on filled slots only, so it stays right.                    *)
(*                                                                         *)
(* Client storage implements the atomic key-value store, for any number of *)
(* threads, keys, passphrases, values and calls.                           *)
(***************************************************************************)
EXTENDS ClientStorage, MultiSigSession, TLAPS

-----------------------------------------------------------------------------
(* Multi-sig sessions *)

LEMMA SlotFacts ==
  ASSUME NEW S, NEW slots \in [Signer -> Option(S)], NEW q \in Signer, NEW v \in S
  PROVE  /\ AddToSlot(slots, q, v) \in [Signer -> Option(S)]
         /\ Kept(slots, AddToSlot(slots, q, v))
         /\ \A r \in Signer : AddToSlot(slots, q, v)[r] = slots[r]
                              \/ (r = q /\ AddToSlot(slots, q, v)[r] = {v})
  BY DEF AddToSlot, Kept, Option

LEMMA GrowsRefl == \A x : Grows(x, x)
  BY DEF Grows, Kept

LEMMA EmptyIsSession == EmptySession \in Session
  BY DEF EmptySession, Session, NoneYet, Option

\* Filling a slot of a session gives a session that extends it.
LEMMA CommitmentAdded ==
  ASSUME NEW x \in Session, NEW q \in Signer, NEW v \in Signer
  PROVE  LET y == [x EXCEPT !.nonce_commitment = AddToSlot(@, q, v)]
         IN y \in Session /\ Grows(x, y)
  <1> DEFINE a == AddToSlot(x.nonce_commitment, q, v)
             y == [x EXCEPT !.nonce_commitment = a]
  <1>1. a \in [Signer -> Option(Signer)] /\ Kept(x.nonce_commitment, a)
    BY SlotFacts DEF Session
  <1> HIDE DEF a
  <1>2. y \in Session
    BY <1>1 DEF Session
  <1>3. y.nonce_commitment = a /\ y.nonce = x.nonce /\ y.partial_signature = x.partial_signature
    BY DEF Session
  <1>4. Grows(x, y)
    BY <1>1, <1>3 DEF Grows, Kept
  <1> QED BY <1>2, <1>4 DEF a

LEMMA NonceAdded ==
  ASSUME NEW x \in Session, NEW q \in Signer, NEW v \in Signer
  PROVE  LET y == [x EXCEPT !.nonce = AddToSlot(@, q, v)]
         IN y \in Session /\ Grows(x, y)
  <1> DEFINE a == AddToSlot(x.nonce, q, v)
             y == [x EXCEPT !.nonce = a]
  <1>1. a \in [Signer -> Option(Signer)] /\ Kept(x.nonce, a)
    BY SlotFacts DEF Session
  <1> HIDE DEF a
  <1>2. y \in Session
    BY <1>1 DEF Session
  <1>3. y.nonce = a /\ y.nonce_commitment = x.nonce_commitment /\ y.partial_signature = x.partial_signature
    BY DEF Session
  <1>4. Grows(x, y)
    BY <1>1, <1>3 DEF Grows, Kept
  <1> QED BY <1>2, <1>4 DEF a

LEMMA PartialAdded ==
  ASSUME NEW x \in Session, NEW q \in Signer, NEW v \in Partial
  PROVE  LET y == [x EXCEPT !.partial_signature = AddToSlot(@, q, v)]
         IN y \in Session /\ Grows(x, y)
  <1> DEFINE a == AddToSlot(x.partial_signature, q, v)
             y == [x EXCEPT !.partial_signature = a]
  <1>1. a \in [Signer -> Option(Partial)] /\ Kept(x.partial_signature, a)
    BY SlotFacts DEF Session
  <1> HIDE DEF a
  <1>2. y \in Session
    BY <1>1 DEF Session
  <1>3. y.partial_signature = a /\ y.nonce_commitment = x.nonce_commitment /\ y.nonce = x.nonce
    BY DEF Session
  <1>4. Grows(x, y)
    BY <1>1, <1>3 DEF Grows, Kept
  <1> QED BY <1>2, <1>4 DEF a

\* The nonces of a session that can sign are the contents of its slots.
LEMMA SignedNonces ==
  ASSUME NEW x \in Session, CanSign(x), NEW s \in Signer
  PROVE  /\ PartialOf(s, x) \in Partial
         /\ PartialOf(s, x).signer = s
         /\ \A q \in Signer : x.nonce[q] = {PartialOf(s, x).nonces[q]}
  <1>1. \A q \in Signer : \E v \in Signer : x.nonce[q] = {v}
    BY DEF CanSign, Missing, Session, Option
  <1>2. \A q \in Signer : NoncesOf(x)[q] \in Signer /\ x.nonce[q] = {NoncesOf(x)[q]}
    BY <1>1 DEF NoncesOf
  <1>3. NoncesOf(x) \in [Signer -> Signer]
    BY <1>2 DEF NoncesOf
  <1> QED BY <1>2, <1>3 DEF PartialOf, Partial

-----------------------------------------------------------------------------

LEMMA InitSession == SessionInit => SessionInvariant
  BY EmptyIsSession DEF SessionInit, SessionInvariant, SessionTypeOK, NonceAfterCommitments

\* What the first half of an operation prepares.
LEMMA Prepared ==
  ASSUME SessionInvariant, NEW s \in Signer, NEW x, NEW op \in Operations, NEW value,
         Begin(s, x, op, value),
         x \in Session, Grows(session[s], x),
         IF op = "partial_signature" THEN value \in Partial /\ value.signer = s ELSE value = s,
         op = "nonce" => ~ Missing(session[s].nonce_commitment),
         op = "partial_signature" => MadeWith(value)
  PROVE  SessionInvariant' /\ UNCHANGED session
  <1> DEFINE w == [op |-> op, session |-> x, value |-> value]
  <1>1. UNCHANGED <<open, session, commitments, nonces, partials, signature>>
        /\ pending' = [pending EXCEPT ![s] = {w}]
    BY DEF Begin
  <1>2. w \in Write /\ w.op = op /\ w.session = x /\ w.value = value
    BY DEF Write
  <1> HIDE DEF w
  <1>3. pending' \in [Signer -> SUBSET Write]
    BY <1>1, <1>2 DEF SessionInvariant, SessionTypeOK
  <1>4. \A r \in Signer : \A u \in pending'[r] : u \in pending[r] \/ (r = s /\ u = w)
    BY <1>1 DEF SessionInvariant, SessionTypeOK
  <1>5. SessionTypeOK'
    BY <1>1, <1>2, <1>3, <1>4 DEF SessionInvariant, SessionTypeOK
  <1>6. \A r \in Signer : r \notin open' => session'[r] = EmptySession /\ pending'[r] = {}
    BY <1>1 DEF SessionInvariant, SessionTypeOK, Begin
  <1>7. \A r \in Signer : \A u \in pending'[r] :
          /\ Grows(session'[r], u.session)
          /\ u.op = "nonce" => ~ Missing(session'[r].nonce_commitment)
          /\ u.op = "partial_signature" => MadeWith(u.value)'
    BY <1>1, <1>2, <1>4 DEF SessionInvariant, MadeWith
  <1>8. NonceAfterCommitments' /\ \A p \in partials' : MadeWith(p)'
    BY <1>1 DEF SessionInvariant, NonceAfterCommitments, MadeWith
  <1> QED BY <1>1, <1>5, <1>6, <1>7, <1>8 DEF SessionInvariant

LEMMA NonceCommitmentStep ==
  ASSUME SessionInvariant, NEW s \in Signer, nonce_commitment(s)
  PROVE  SessionInvariant' /\ UNCHANGED session
  <1> DEFINE x == [session[s] EXCEPT !.nonce_commitment = AddToSlot(@, s, s)]
  <1>1. session[s] \in Session
    BY DEF SessionInvariant, SessionTypeOK
  <1>2. x \in Session /\ Grows(session[s], x)
    BY <1>1, CommitmentAdded
  <1>3. Begin(s, x, "nonce_commitment", s)
    BY DEF nonce_commitment
  <1> HIDE DEF x
  <1> QED BY <1>2, <1>3, Prepared DEF Operations

LEMMA NonceStep ==
  ASSUME SessionInvariant, NEW s \in Signer, nonce(s)
  PROVE  SessionInvariant' /\ UNCHANGED session
  <1> DEFINE x == [session[s] EXCEPT !.nonce = AddToSlot(@, s, s)]
  <1>1. session[s] \in Session
    BY DEF SessionInvariant, SessionTypeOK
  <1>2. x \in Session /\ Grows(session[s], x)
    BY <1>1, NonceAdded
  <1>3. Begin(s, x, "nonce", s) /\ ~ Missing(session[s].nonce_commitment)
    BY DEF nonce, CanRevealNonce
  <1> HIDE DEF x
  <1> QED BY <1>2, <1>3, Prepared DEF Operations

LEMMA PartialSignatureStep ==
  ASSUME SessionInvariant, NEW s \in Signer, partial_signature(s)
  PROVE  SessionInvariant' /\ UNCHANGED session
  <1> DEFINE p == PartialOf(s, session[s])
             x == [session[s] EXCEPT !.partial_signature = AddToSlot(@, s, p)]
  <1>1. session[s] \in Session
    BY DEF SessionInvariant, SessionTypeOK
  <1>2. p \in Partial /\ p.signer = s /\ MadeWith(p)
    BY <1>1, SignedNonces DEF partial_signature, MadeWith
  <1>3. Begin(s, x, "partial_signature", p)
    BY DEF partial_signature
  <1> HIDE DEF p
  <1>4. x \in Session /\ Grows(session[s], x)
    BY <1>1, <1>2, PartialAdded
  <1> HIDE DEF x
  <1> QED BY <1>2, <1>3, <1>4, Prepared DEF Operations

-----------------------------------------------------------------------------

\* What is known of a session stays true when it grows.
LEMMA GrowsKeeps ==
  ASSUME NEW x \in Session, NEW y \in Session, Grows(x, y)
  PROVE  /\ ~ Missing(x.nonce_commitment) => ~ Missing(y.nonce_commitment)
         /\ \A q \in Signer : \A v : x.nonce[q] = {v} => y.nonce[q] = {v}
  BY Zenon DEF Grows, Kept, Missing, Session

\* A session is written, and nothing else is about to be written to it.
LEMMA Written ==
  ASSUME SessionInvariant, NEW s \in Signer, NEW y \in Session, s \in open,
         Grows(session[s], y),
         session' = [session EXCEPT ![s] = y],
         pending' = [pending EXCEPT ![s] = {}],
         open' = open, signature' = signature,
         commitments' \subseteq Signer, nonces' \subseteq Signer, partials' \subseteq Partial,
         \A q \in nonces' : q \in nonces \/ (q = s /\ ~ Missing(session[s].nonce_commitment)),
         \A p \in partials' : MadeWith(p)
  PROVE  SessionInvariant' /\ \A r \in Signer : Grows(session[r], session'[r])
  <1>1. \A r \in Signer : /\ session[r] \in Session /\ session'[r] \in Session
                          /\ Grows(session[r], session'[r])
                          /\ r # s => session'[r] = session[r]
    BY GrowsRefl DEF SessionInvariant, SessionTypeOK
  <1>2. \A r \in Signer : \A u \in pending'[r] : r # s /\ u \in pending[r]
    BY DEF SessionInvariant, SessionTypeOK
  <1>3. \A p \in Partial : MadeWith(p) => MadeWith(p)'
    <2> SUFFICES ASSUME NEW p \in Partial, MadeWith(p), NEW q \in Signer
                 PROVE  session'[p.signer].nonce[q] = {p.nonces[q]}
      BY DEF MadeWith
    <2>1. p.signer \in Signer /\ session[p.signer].nonce[q] = {p.nonces[q]}
      BY DEF Partial, MadeWith
    <2>2. /\ session[p.signer] \in Session /\ session'[p.signer] \in Session
          /\ Grows(session[p.signer], session'[p.signer])
      BY <1>1, <2>1
    <2>3. \A v : session[p.signer].nonce[q] = {v} => session'[p.signer].nonce[q] = {v}
      BY <2>2, GrowsKeeps
    <2> QED BY <2>1, <2>3
  <1>4. SessionTypeOK'
    <2>1. session' \in [Signer -> Session] /\ pending' \in [Signer -> SUBSET Write]
      BY DEF SessionInvariant, SessionTypeOK
    <2> QED BY <1>2, <2>1 DEF SessionInvariant, SessionTypeOK
  <1>5. \A r \in Signer : r \notin open' => session'[r] = EmptySession /\ pending'[r] = {}
    BY <1>1, <1>2 DEF SessionInvariant
  <1>6. ASSUME NEW r \in Signer, NEW u \in pending'[r]
        PROVE  /\ Grows(session'[r], u.session)
               /\ u.op = "nonce" => ~ Missing(session'[r].nonce_commitment)
               /\ u.op = "partial_signature" => MadeWith(u.value)'
    <2>1. u \in pending[r] /\ session'[r] = session[r]
      BY <1>1, <1>2
    <2>2. u.op = "partial_signature" => u.value \in Partial /\ MadeWith(u.value)
      BY <2>1 DEF SessionInvariant, SessionTypeOK
    <2> QED BY <1>3, <2>1, <2>2 DEF SessionInvariant
  <1>7. NonceAfterCommitments'
    <2> SUFFICES ASSUME NEW q \in nonces' PROVE ~ Missing(session'[q].nonce_commitment)
      BY DEF NonceAfterCommitments
    <2>1. q \in Signer /\ ~ Missing(session[q].nonce_commitment)
      BY DEF SessionInvariant, NonceAfterCommitments
    <2> QED BY <1>1, <2>1, GrowsKeeps
  <1>8. \A p \in partials' : MadeWith(p)'
    BY <1>3
  <1> QED BY <1>1, <1>4, <1>5, <1>6, <1>7, <1>8 DEF SessionInvariant

LEMMA SetSessionStep ==
  ASSUME SessionInvariant, NEW s \in Signer, set_session(s)
  PROVE  SessionInvariant' /\ \A r \in Signer : Grows(session[r], session'[r])
  <1>1. PICK w \in pending[s] :
           /\ session' = [session EXCEPT ![s] = w.session]
           /\ pending' = [pending EXCEPT ![s] = {}]
           /\ commitments' = IF w.op = "nonce_commitment" THEN commitments \cup {w.value} ELSE commitments
           /\ nonces' = IF w.op = "nonce" THEN nonces \cup {w.value} ELSE nonces
           /\ partials' = IF w.op = "partial_signature" THEN partials \cup {w.value} ELSE partials
           /\ UNCHANGED <<open, signature>>
    BY Zenon DEF set_session
  <1>2. w \in Write /\ s \in open
    BY DEF SessionInvariant, SessionTypeOK
  <1>3. w.session \in Session /\ Grows(session[s], w.session)
    BY <1>2 DEF SessionInvariant, Write
  <1>4. IF w.op = "partial_signature" THEN w.value \in Partial /\ MadeWith(w.value) ELSE w.value = s
    BY DEF SessionInvariant, SessionTypeOK
  <1>5. w.op = "nonce" => w.value = s /\ ~ Missing(session[s].nonce_commitment)
    BY <1>4 DEF SessionInvariant
  <1>6. commitments' \subseteq Signer /\ nonces' \subseteq Signer /\ partials' \subseteq Partial
    BY <1>1, <1>4 DEF SessionInvariant, SessionTypeOK
  <1>7. /\ \A q \in nonces' : q \in nonces \/ (q = s /\ ~ Missing(session[s].nonce_commitment))
        /\ \A p \in partials' : MadeWith(p)
    BY <1>1, <1>4, <1>5 DEF SessionInvariant
  <1> QED BY <1>1, <1>2, <1>3, <1>6, <1>7, Written, Zenon

\* A value is added to session s, on which no other operation is under way.
LEMMA AddedStep ==
  ASSUME SessionInvariant, NEW s \in Signer, ~ Concurrent, Idle(s),
         NEW y \in Session, Grows(session[s], y),
         session' = [session EXCEPT ![s] = y],
         UNCHANGED <<open, pending, commitments, nonces, partials, signature>>
  PROVE  SessionInvariant' /\ \A r \in Signer : Grows(session[r], session'[r])
  <1>1. s \in open /\ pending' = [pending EXCEPT ![s] = {}]
    BY DEF Idle, SessionInvariant, SessionTypeOK
  <1>2. commitments' \subseteq Signer /\ nonces' \subseteq Signer /\ partials' \subseteq Partial
    BY DEF SessionInvariant, SessionTypeOK
  <1>3. /\ \A q \in nonces' : q \in nonces \/ (q = s /\ ~ Missing(session[s].nonce_commitment))
        /\ \A p \in partials' : MadeWith(p)
    BY DEF SessionInvariant
  <1> QED BY <1>1, <1>2, <1>3, Written, Zenon

LEMMA DeliverStep ==
  ASSUME SessionInvariant, NEW s \in Signer, NEW q \in Signer, ~ Concurrent, Deliver(s, q)
  PROVE  SessionInvariant' /\ \A r \in Signer : Grows(session[r], session'[r])
  <1>1. session \in [Signer -> Session] /\ session[s] \in Session /\ partials \subseteq Partial
    BY DEF SessionInvariant, SessionTypeOK
  <1>2. ASSUME NEW v \in Signer, add_nonce_commitment(s, q, v)
        PROVE  SessionInvariant' /\ \A r \in Signer : Grows(session[r], session'[r])
    <2> DEFINE y == [session[s] EXCEPT !.nonce_commitment = AddToSlot(@, q, v)]
    <2>1. y \in Session /\ Grows(session[s], y)
      BY <1>1, CommitmentAdded
    <2>2. session' = [session EXCEPT ![s] = y]
      BY <1>1, <1>2 DEF add_nonce_commitment
    <2> HIDE DEF y
    <2> QED BY <1>2, <2>1, <2>2, AddedStep, Zenon DEF add_nonce_commitment
  <1>3. ASSUME NEW v \in Signer, add_nonce(s, q, v)
        PROVE  SessionInvariant' /\ \A r \in Signer : Grows(session[r], session'[r])
    <2> DEFINE y == [session[s] EXCEPT !.nonce = AddToSlot(@, q, v)]
    <2>1. y \in Session /\ Grows(session[s], y)
      BY <1>1, NonceAdded
    <2>2. session' = [session EXCEPT ![s] = y]
      BY <1>1, <1>3 DEF add_nonce
    <2> HIDE DEF y
    <2> QED BY <1>3, <2>1, <2>2, AddedStep, Zenon DEF add_nonce
  <1>4. ASSUME NEW v \in partials, add_partial_signature(s, q, v)
        PROVE  SessionInvariant' /\ \A r \in Signer : Grows(session[r], session'[r])
    <2> DEFINE y == [session[s] EXCEPT !.partial_signature = AddToSlot(@, q, v)]
    <2>1. y \in Session /\ Grows(session[s], y)
      BY <1>1, PartialAdded
    <2>2. session' = [session EXCEPT ![s] = y]
      BY <1>1, <1>4 DEF add_partial_signature
    <2> HIDE DEF y
    <2> QED BY <1>4, <2>1, <2>2, AddedStep, Zenon DEF add_partial_signature
  <1> QED BY <1>2, <1>3, <1>4 DEF Deliver

LEMMA NewSessionStep ==
  ASSUME SessionInvariant, NEW s \in Signer, new_session(s)
  PROVE  SessionInvariant' /\ UNCHANGED session
  <1>1. session' = session
    BY DEF new_session, SessionInvariant, SessionTypeOK
  <1> QED BY <1>1 DEF new_session, SessionInvariant, SessionTypeOK, NonceAfterCommitments, MadeWith

LEMMA CombineStep ==
  ASSUME SessionInvariant, NEW s \in Signer, combine(s)
  PROVE  SessionInvariant' /\ UNCHANGED session
  <1> DEFINE c == [q \in Signer |-> CHOOSE v \in session[s].partial_signature[q] : TRUE]
  <1>1. session[s] \in Session
    BY DEF SessionInvariant, SessionTypeOK
  <1>2. \A q \in Signer : \E v \in Partial : session[s].partial_signature[q] = {v}
    <2>1. \A q \in Signer : session[s].partial_signature[q] \in Option(Partial)
      BY <1>1 DEF Session
    <2>2. \A q \in Signer : session[s].partial_signature[q] # {}
      BY DEF combine, Missing
    <2> QED BY <2>1, <2>2 DEF Option
  <1>3. c \in [Signer -> Partial]
    BY <1>2
  <1>4. signature' = [signature EXCEPT ![s] = @ \cup {c}]
    BY DEF combine
  <1> HIDE DEF c
  <1>5. signature' \in [Signer -> SUBSET [Signer -> Partial]]
    BY <1>3, <1>4 DEF SessionInvariant, SessionTypeOK
  <1>6. UNCHANGED <<open, session, pending, commitments, nonces, partials>>
    BY DEF combine
  <1>7. SessionTypeOK'
    BY <1>5, <1>6 DEF SessionInvariant, SessionTypeOK
  <1>8. \A p : MadeWith(p)' = MadeWith(p)
    BY <1>6 DEF MadeWith
  <1> QED BY <1>6, <1>7, <1>8 DEF SessionInvariant, NonceAfterCommitments

LEMMA KilledStep ==
  ASSUME SessionInvariant, NEW s \in Signer, Killed(s)
  PROVE  SessionInvariant' /\ UNCHANGED session
  <1>1. /\ pending' \in [Signer -> SUBSET Write]
        /\ \A r \in Signer : pending'[r] \subseteq pending[r]
    BY DEF Killed, SessionInvariant, SessionTypeOK
  <1>2. SessionTypeOK'
    BY <1>1 DEF Killed, SessionInvariant, SessionTypeOK
  <1> QED BY <1>1, <1>2 DEF Killed, SessionInvariant, NonceAfterCommitments, MadeWith

-----------------------------------------------------------------------------

LEMMA SessionStep ==
  ASSUME SessionInvariant, ~ Concurrent, [SessionNext]_sessionVars
  PROVE  SessionInvariant' /\ \A r \in Signer : Grows(session[r], session'[r])
  <1>1. CASE UNCHANGED sessionVars
    BY <1>1, GrowsRefl DEF sessionVars, SessionInvariant, SessionTypeOK, NonceAfterCommitments, MadeWith
  <1>2. ASSUME NEW s \in Signer, new_session(s) \/ OwnValue(s) \/ combine(s) \/ Killed(s)
        PROVE  SessionInvariant' /\ \A r \in Signer : Grows(session[r], session'[r])
    <2>1. SessionInvariant' /\ UNCHANGED session
      BY <1>2, NewSessionStep, NonceCommitmentStep, NonceStep, PartialSignatureStep, CombineStep,
         KilledStep DEF OwnValue
    <2> QED BY <2>1, GrowsRefl
  <1>3. ASSUME NEW s \in Signer, set_session(s)
        PROVE  SessionInvariant' /\ \A r \in Signer : Grows(session[r], session'[r])
    BY <1>3, SetSessionStep
  <1>4. ASSUME NEW s \in Signer, NEW q \in Signer, Deliver(s, q)
        PROVE  SessionInvariant' /\ \A r \in Signer : Grows(session[r], session'[r])
    BY <1>4, DeliverStep
  <1> QED BY <1>1, <1>2, <1>3, <1>4 DEF SessionNext

\* The inductive invariant: what MultiSigSessionService is about to write
\* extends what it has stored, and what it handed out was made from slots that
\* are still the same.
THEOREM SessionInvariantHolds ==
  ASSUME ~ Concurrent
  PROVE  SessionSpec => []SessionInvariant
  <1>1. SessionInvariant /\ [SessionNext]_sessionVars => SessionInvariant'
    BY SessionStep
  <1> QED BY <1>1, InitSession, PTL DEF SessionSpec

\* MultiSigSession::nonce gives a nonce out only after every commitment is in,
\* and the commitments stay.
THEOREM NonceIsAfterCommitments ==
  ASSUME ~ Concurrent
  PROVE  SessionSpec => []NonceAfterCommitments
  <1>1. SessionInvariant => NonceAfterCommitments
    BY DEF SessionInvariant
  <1> QED BY <1>1, SessionInvariantHolds, PTL

\* MultiSigSession::partial_signature never gives out two different partial
\* signatures of a signer, for any number of signers and calls.
THEOREM PartialIsUnique ==
  ASSUME ~ Concurrent
  PROVE  SessionSpec => []OnePartialPerSigner
  <1>1. SessionInvariant => OnePartialPerSigner
    <2> SUFFICES ASSUME SessionInvariant, NEW p1 \in partials, NEW p2 \in partials,
                        p1.signer = p2.signer
                 PROVE  p1 = p2
      BY DEF OnePartialPerSigner
    <2>1. p1 \in Partial /\ p2 \in Partial
      BY DEF SessionInvariant, SessionTypeOK
    <2>2. \A q \in Signer : {p1.nonces[q]} = {p2.nonces[q]}
      BY DEF SessionInvariant, MadeWith
    <2>3. \A q \in Signer : p1.nonces[q] = p2.nonces[q]
      BY <2>2
    <2>4. p1.nonces = p2.nonces
      BY <2>1, <2>3 DEF Partial
    <2> QED BY <2>1, <2>4 DEF Partial
  <1> QED BY <1>1, SessionInvariantHolds, PTL

\* No operation of MultiSigSessionService takes a value out of a session or
\* replaces it, when operations on a session do not overlap.
THEOREM AddedValuesStay ==
  ASSUME ~ Concurrent
  PROVE  SessionSpec => AddedStays
  <1>1. SessionInvariant /\ [SessionNext]_sessionVars => [\A s \in Signer : Grows(session[s], session'[s])]_sessionVars
    BY SessionStep
  <1> QED BY <1>1, SessionInvariantHolds, PTL DEF SessionSpec, AddedStays

-----------------------------------------------------------------------------
(* Final signatures *)

\* What is stored in partial signature slots, or about to be, was made with the
\* nonces its signer has stored; a final signature is what the slots hold.
SignedInvariant ==
  /\ \A s \in Signer : \A q \in Signer : \A p \in session[s].partial_signature[q] : MadeWith(p)
  /\ \A s \in Signer : \A w \in pending[s] : \A q \in Signer :
       \A p \in w.session.partial_signature[q] : MadeWith(p)
  /\ \A s \in Signer : \A sig \in signature[s] : \A q \in Signer :
       session[s].partial_signature[q] = {sig[q]}

\* MadeWith stays true as sessions grow.
LEMMA MadeWithStays ==
  ASSUME SessionInvariant, SessionInvariant', \A r \in Signer : Grows(session[r], session'[r]),
         NEW p \in Partial, MadeWith(p)
  PROVE  MadeWith(p)'
  <1>1. p.signer \in Signer
    BY DEF Partial
  <1>2. Grows(session[p.signer], session'[p.signer])
    BY <1>1
  <1>3. \A q \in Signer : \A v : session[p.signer].nonce[q] = {v} => session'[p.signer].nonce[q] = {v}
    BY <1>2 DEF Grows, Kept
  <1> QED BY <1>3 DEF MadeWith

\* It is enough to look at what a step puts into slots.
LEMMA SignedStep ==
  ASSUME SessionInvariant, SessionInvariant', SignedInvariant,
         \A r \in Signer : Grows(session[r], session'[r]),
         \A r \in Signer : \A q \in Signer : \A p \in session'[r].partial_signature[q] : MadeWith(p),
         \A r \in Signer : \A w \in pending'[r] : \A q \in Signer :
           \A p \in w.session.partial_signature[q] : MadeWith(p),
         \A r \in Signer : \A sig \in signature'[r] :
           sig \in signature[r] \/ \A q \in Signer : session'[r].partial_signature[q] = {sig[q]}
  PROVE  SignedInvariant'
  <1>1. \A r \in Signer : session[r] \in Session /\ session'[r] \in Session
    BY DEF SessionInvariant, SessionTypeOK
  <1>2. \A r \in Signer : \A q \in Signer : session'[r].partial_signature[q] \subseteq Partial
    <2>1. \A r \in Signer : \A q \in Signer : session'[r].partial_signature[q] \in Option(Partial)
      BY <1>1 DEF Session
    <2> QED BY <2>1 DEF Option
  <1>3. \A r \in Signer : \A w \in pending'[r] : \A q \in Signer :
          w.session.partial_signature[q] \subseteq Partial
    <2> TAKE r \in Signer
    <2> TAKE w \in pending'[r]
    <2>1. w \in Write
      BY DEF SessionInvariant, SessionTypeOK
    <2>2. w.session \in Session
      BY <2>1 DEF Write
    <2> QED BY <2>2 DEF Session, Option
  <1>4. \A r \in Signer : \A q \in Signer : \A p \in session'[r].partial_signature[q] : MadeWith(p)'
    BY <1>2, MadeWithStays
  <1>5. \A r \in Signer : \A w \in pending'[r] : \A q \in Signer :
          \A p \in w.session.partial_signature[q] : MadeWith(p)'
    BY <1>3, MadeWithStays
  <1>6. \A r \in Signer : \A sig \in signature'[r] : \A q \in Signer :
          session'[r].partial_signature[q] = {sig[q]}
    <2>1. \A r \in Signer : \A q \in Signer :
            session[r].partial_signature[q] # {}
              => session'[r].partial_signature[q] = session[r].partial_signature[q]
      BY DEF Grows, Kept
    <2>2. \A r \in Signer : \A sig \in signature[r] : \A q \in Signer :
            session[r].partial_signature[q] = {sig[q]}
      BY DEF SignedInvariant
    <2>3. \A r \in Signer : \A sig \in signature[r] : \A q \in Signer :
            session'[r].partial_signature[q] = {sig[q]}
      BY <2>1, <2>2
    <2> QED BY <2>3
  <1> QED BY <1>4, <1>5, <1>6 DEF SignedInvariant

\* The first half of an operation of signer s.
LEMMA SignedOwn ==
  ASSUME SessionInvariant, SignedInvariant, NEW s \in Signer, OwnValue(s)
  PROVE  \A r \in Signer : \A w \in pending'[r] : \A q \in Signer :
           \A p \in w.session.partial_signature[q] : MadeWith(p)
  <1>1. session[s] \in Session /\ pending \in [Signer -> SUBSET Write]
    BY DEF SessionInvariant, SessionTypeOK
  <1>2. ASSUME NEW x \in Session, NEW op, NEW value, Begin(s, x, op, value),
               \A q \in Signer : \A p \in x.partial_signature[q] : MadeWith(p)
        PROVE  \A r \in Signer : \A w \in pending'[r] : \A q \in Signer :
                 \A p \in w.session.partial_signature[q] : MadeWith(p)
    <2> DEFINE u == [op |-> op, session |-> x, value |-> value]
    <2>1. pending' = [pending EXCEPT ![s] = {u}] /\ u.session = x
      BY <1>2 DEF Begin
    <2> HIDE DEF u
    <2>2. \A r \in Signer : \A w \in pending'[r] : w \in pending[r] \/ w = u
      BY <1>1, <2>1
    <2> QED BY <1>2, <2>1, <2>2 DEF SignedInvariant
  <1>3. CASE nonce_commitment(s)
    <2> DEFINE x == [session[s] EXCEPT !.nonce_commitment = AddToSlot(@, s, s)]
    <2>1. x \in Session /\ x.partial_signature = session[s].partial_signature
      BY <1>1, CommitmentAdded, Zenon DEF Session
    <2>2. Begin(s, x, "nonce_commitment", s)
      BY <1>3 DEF nonce_commitment
    <2> HIDE DEF x
    <2> QED BY <1>2, <2>1, <2>2 DEF SignedInvariant
  <1>4. CASE nonce(s)
    <2> DEFINE x == [session[s] EXCEPT !.nonce = AddToSlot(@, s, s)]
    <2>1. x \in Session /\ x.partial_signature = session[s].partial_signature
      BY <1>1, NonceAdded, Zenon DEF Session
    <2>2. Begin(s, x, "nonce", s)
      BY <1>4 DEF nonce
    <2> HIDE DEF x
    <2> QED BY <1>2, <2>1, <2>2 DEF SignedInvariant
  <1>5. CASE partial_signature(s)
    <2> DEFINE v == PartialOf(s, session[s])
               a == AddToSlot(session[s].partial_signature, s, v)
               x == [session[s] EXCEPT !.partial_signature = a]
    <2>1. v \in Partial /\ v.signer = s /\ MadeWith(v)
      BY <1>1, <1>5, SignedNonces DEF partial_signature, MadeWith
    <2>2. Begin(s, x, "partial_signature", v)
      BY <1>5 DEF partial_signature
    <2> HIDE DEF v
    <2>3. x \in Session /\ x.partial_signature = a
      BY <1>1, <2>1, PartialAdded, Zenon DEF Session
    <2>4. \A q \in Signer : a[q] = session[s].partial_signature[q] \/ a[q] = {v}
      <3>1. session[s].partial_signature \in [Signer -> Option(Partial)]
        BY <1>1 DEF Session
      <3> QED BY <2>1, <3>1, SlotFacts
    <2> HIDE DEF a, x
    <2> QED BY <1>2, <2>1, <2>2, <2>3, <2>4 DEF SignedInvariant
  <1> QED BY <1>3, <1>4, <1>5 DEF OwnValue

\* A delivery to signer s.
LEMMA SignedDeliver ==
  ASSUME SessionInvariant, SignedInvariant, NEW s \in Signer, NEW t \in Signer, Deliver(s, t)
  PROVE  /\ \A r \in Signer : \A q \in Signer : \A p \in session'[r].partial_signature[q] : MadeWith(p)
         /\ UNCHANGED <<pending, signature>>
  <1>1. session \in [Signer -> Session] /\ session[s] \in Session /\ partials \subseteq Partial
    BY DEF SessionInvariant, SessionTypeOK
  <1>2. ASSUME NEW y, session' = [session EXCEPT ![s] = y],
               \A q \in Signer : \A p \in y.partial_signature[q] : MadeWith(p)
        PROVE  \A r \in Signer : \A q \in Signer : \A p \in session'[r].partial_signature[q] : MadeWith(p)
    BY <1>1, <1>2 DEF SignedInvariant
  <1>3. ASSUME NEW v \in Signer, add_nonce_commitment(s, t, v)
        PROVE  \A r \in Signer : \A q \in Signer : \A p \in session'[r].partial_signature[q] : MadeWith(p)
    <2> DEFINE y == [session[s] EXCEPT !.nonce_commitment = AddToSlot(@, t, v)]
    <2>1. y.partial_signature = session[s].partial_signature
      BY <1>1 DEF Session
    <2>2. session' = [session EXCEPT ![s] = y]
      BY <1>1, <1>3 DEF add_nonce_commitment
    <2> HIDE DEF y
    <2> QED BY <1>2, <2>1, <2>2 DEF SignedInvariant
  <1>4. ASSUME NEW v \in Signer, add_nonce(s, t, v)
        PROVE  \A r \in Signer : \A q \in Signer : \A p \in session'[r].partial_signature[q] : MadeWith(p)
    <2> DEFINE y == [session[s] EXCEPT !.nonce = AddToSlot(@, t, v)]
    <2>1. y.partial_signature = session[s].partial_signature
      BY <1>1 DEF Session
    <2>2. session' = [session EXCEPT ![s] = y]
      BY <1>1, <1>4 DEF add_nonce
    <2> HIDE DEF y
    <2> QED BY <1>2, <2>1, <2>2 DEF SignedInvariant
  <1>5. ASSUME NEW v \in partials, add_partial_signature(s, t, v)
        PROVE  \A r \in Signer : \A q \in Signer : \A p \in session'[r].partial_signature[q] : MadeWith(p)
    <2> DEFINE a == AddToSlot(session[s].partial_signature, t, v)
               y == [session[s] EXCEPT !.partial_signature = a]
    <2>1. MadeWith(v) /\ v \in Partial
      BY <1>1 DEF SessionInvariant
    <2>2. session' = [session EXCEPT ![s] = y]
      BY <1>1, <1>5 DEF add_partial_signature
    <2>3. \A q \in Signer : a[q] = session[s].partial_signature[q] \/ a[q] = {v}
      <3>1. session[s].partial_signature \in [Signer -> Option(Partial)]
        BY <1>1 DEF Session
      <3> QED BY <3>1 DEF AddToSlot
    <2> HIDE DEF a
    <2>4. y.partial_signature = a
      BY <1>1 DEF Session
    <2> HIDE DEF y
    <2> QED BY <1>2, <2>1, <2>2, <2>3, <2>4 DEF SignedInvariant
  <1>6. UNCHANGED <<pending, signature>>
    BY DEF Deliver, add_nonce_commitment, add_nonce, add_partial_signature
  <1> QED BY <1>3, <1>4, <1>5, <1>6 DEF Deliver

LEMMA SignedNext ==
  ASSUME SessionInvariant, SignedInvariant, ~ Concurrent, [SessionNext]_sessionVars
  PROVE  SignedInvariant'
  <1>1. SessionInvariant' /\ \A r \in Signer : Grows(session[r], session'[r])
    BY SessionStep
  <1>2. CASE UNCHANGED sessionVars
    BY <1>2 DEF sessionVars, SignedInvariant, MadeWith
  <1>3. ASSUME NEW s \in Signer, new_session(s) PROVE SignedInvariant'
    <2>1. session' = session /\ UNCHANGED <<pending, signature>>
      BY <1>3, NewSessionStep, Zenon DEF new_session
    <2>2. \A p : MadeWith(p)' = MadeWith(p)
      BY <2>1 DEF MadeWith
    <2> QED BY <2>1, <2>2 DEF SignedInvariant
  <1>4. ASSUME NEW s \in Signer, OwnValue(s) PROVE SignedInvariant'
    <2>1. UNCHANGED <<session, signature>>
      BY <1>4 DEF OwnValue, nonce_commitment, nonce, partial_signature, Begin
    <2> QED BY <1>1, <1>4, <2>1, SignedOwn, SignedStep DEF SignedInvariant
  <1>5. ASSUME NEW s \in Signer, set_session(s) PROVE SignedInvariant'
    <2>1. PICK w \in pending[s] : /\ session' = [session EXCEPT ![s] = w.session]
                                  /\ pending' = [pending EXCEPT ![s] = {}]
                                  /\ UNCHANGED signature
      BY <1>5, Zenon DEF set_session
    <2>2. session \in [Signer -> Session] /\ pending \in [Signer -> SUBSET Write]
      BY DEF SessionInvariant, SessionTypeOK
    <2>3. \A r \in Signer : session'[r] = session[r] \/ (r = s /\ session'[r] = w.session)
      BY <2>1, <2>2
    <2>4. \A r \in Signer : pending'[r] \subseteq pending[r]
      BY <2>1, <2>2
    <2>5. \A r \in Signer : \A q \in Signer : \A p \in session'[r].partial_signature[q] : MadeWith(p)
      BY <2>3 DEF SignedInvariant
    <2>6. \A r \in Signer : \A u \in pending'[r] : \A q \in Signer :
            \A p \in u.session.partial_signature[q] : MadeWith(p)
      BY <2>4 DEF SignedInvariant
    <2> QED BY <1>1, <2>1, <2>5, <2>6, SignedStep
  <1>6. ASSUME NEW s \in Signer, combine(s) PROVE SignedInvariant'
    <2> DEFINE c == [q \in Signer |-> CHOOSE v \in session[s].partial_signature[q] : TRUE]
    <2>1. session[s] \in Session /\ signature \in [Signer -> SUBSET [Signer -> Partial]]
      BY DEF SessionInvariant, SessionTypeOK
    <2>2. \A q \in Signer : \E v \in Partial : session[s].partial_signature[q] = {v}
      BY <1>6, <2>1 DEF combine, Missing, Session, Option
    <2>3. \A q \in Signer : session[s].partial_signature[q] = {c[q]}
      BY <2>2
    <2>4. signature' = [signature EXCEPT ![s] = @ \cup {c}] /\ UNCHANGED <<session, pending>>
      BY <1>6 DEF combine
    <2> HIDE DEF c
    <2>5. \A r \in Signer : \A sig \in signature'[r] : sig \in signature[r] \/ (r = s /\ sig = c)
      BY <2>1, <2>4
    <2> QED BY <1>1, <2>3, <2>4, <2>5, SignedStep DEF SignedInvariant
  <1>7. ASSUME NEW s \in Signer, Killed(s) PROVE SignedInvariant'
    <2>1. \A r \in Signer : pending'[r] \subseteq pending[r]
      BY <1>7 DEF Killed, SessionInvariant, SessionTypeOK
    <2>2. UNCHANGED <<session, signature>>
      BY <1>7 DEF Killed
    <2>3. \A r \in Signer : \A w \in pending'[r] : \A q \in Signer :
            \A p \in w.session.partial_signature[q] : MadeWith(p)
      BY <2>1 DEF SignedInvariant
    <2> QED BY <1>1, <2>2, <2>3, SignedStep DEF SignedInvariant
  <1>8. ASSUME NEW s \in Signer, NEW q \in Signer, Deliver(s, q) PROVE SignedInvariant'
    BY <1>1, <1>8, SignedDeliver, SignedStep, Zenon DEF SignedInvariant
  <1> QED BY <1>2, <1>3, <1>4, <1>5, <1>6, <1>7, <1>8 DEF SessionNext

\* A final signature of MultiSigSession::signature, which verifies nothing,
\* combines the right partial signatures unless a value is stored under a key it
\* is not from, for any number of signers, when operations on a session do not
\* overlap.
THEOREM FinalSignaturesValid ==
  ASSUME ~ Concurrent
  PROVE  SessionSpec => []SignaturesValid
  <1>1. SessionInit => SignedInvariant
    BY DEF SessionInit, SignedInvariant, EmptySession, NoneYet
  <1>2. SessionInvariant /\ SignedInvariant /\ [SessionNext]_sessionVars => SignedInvariant'
    BY SignedNext
  <1>3. SessionInvariant /\ SignedInvariant => SignaturesValid
    <2> SUFFICES ASSUME SessionInvariant, SignedInvariant, ~ Misplaced, NEW s \in Signer,
                        NEW sig \in signature[s], NEW q \in Signer
                 PROVE  sig[q] = Right(q)
      BY DEF SignaturesValid
    <2>1. sig[q] \in Partial /\ session \in [Signer -> Session]
      BY DEF SessionInvariant, SessionTypeOK
    <2>2. sig[q] \in session[s].partial_signature[q]
      BY DEF SignedInvariant
    <2>3. sig[q].signer = q /\ MadeWith(sig[q])
      BY <2>2 DEF SignedInvariant, Misplaced
    <2>4. \A r \in Signer : sig[q].nonces[r] \in session[q].nonce[r]
      BY <2>3 DEF MadeWith
    <2>5. \A r \in Signer : sig[q].nonces[r] = r
      BY <2>4 DEF Misplaced
    <2>6. sig[q].nonces = [r \in Signer |-> r]
      BY <2>1, <2>5 DEF Partial
    <2> QED BY <2>1, <2>3, <2>6 DEF Partial, Right
  <1> QED BY <1>1, <1>2, <1>3, SessionInvariantHolds, PTL DEF SessionSpec
-----------------------------------------------------------------------------
(* Client storage *)

LEMMA CellFacts ==
  ASSUME NEW cell \in Cell, NEW r \in Request
  PROVE  Fresh(r) \in Cell /\ Updated(cell, r) \in Cell /\ Ok(cell) \in Answer /\ Failed \in Answer
  <1>1. Fresh(r) \in Cell /\ Failed \in Answer /\ Ok(cell) \in Answer
    BY DEF Fresh, Cell, Sealed, Request, Failed, Answer, Ok
  <1>2. CASE cell = {}
    BY <1>1, <1>2 DEF Updated, Cell
  <1>3. ASSUME NEW c \in Sealed, cell = {c} PROVE Updated(cell, r) \in Cell
    <2>1. [content |-> c.content \cup {r.elem}, pass |-> r.pass] \in Sealed
      BY DEF Sealed, Request
    <2>2. Updated(cell, r) = {[content |-> c.content \cup {r.elem}, pass |-> r.pass]}
      BY <1>3 DEF Updated
    <2> QED BY <2>1, <2>2 DEF Cell
  <1> QED BY <1>1, <1>2, <1>3 DEF Cell

\* What Return and Goto do to the invariant.
LEMMA ReturnTypeOK ==
  ASSUME StorageTypeOK, NEW t \in Thread, NEW ans \in Answer, Return(t, ans), store' \in [Key -> Cell]
  PROVE  StorageTypeOK'
  BY DEF StorageTypeOK, Return, Labels, Requests, Cell

LEMMA GotoTypeOK ==
  ASSUME StorageTypeOK, NEW t \in Thread, NEW r \in request[t], NEW cell \in Cell,
         backend # "unauthorized",
         \/ Goto(t, "set", cell) /\ r.op = "set_secure"
         \/ Goto(t, "cas", cell) /\ r.op = "fetch_and_update_secure" /\ Updates(cell, r)
  PROVE  StorageTypeOK'
  <1>1. request[t] = {r} /\ UNCHANGED <<backend, store, request, answer, calls>>
    BY DEF StorageTypeOK, Requests, Goto
  <1>2. pc' \in [Thread -> Labels] /\ current' \in [Thread -> Cell]
    BY DEF StorageTypeOK, Goto, Labels
  <1>3. ASSUME NEW u \in Thread
        PROVE  /\ (pc'[u] = "idle") <=> (request'[u] = {})
               /\ \A s \in request'[u] :
                    /\ pc'[u] = "set" => s.op = "set_secure" /\ backend' # "unauthorized"
                    /\ pc'[u] = "cas" => /\ s.op = "fetch_and_update_secure"
                                         /\ backend' # "unauthorized"
                                         /\ Updates(current'[u], s)
    BY <1>1 DEF StorageTypeOK, Goto
  <1> QED BY <1>1, <1>2, <1>3 DEF StorageTypeOK

-----------------------------------------------------------------------------

LEMMA CallStep ==
  ASSUME StorageTypeOK, NEW t \in Thread, NEW r \in Request, Call(t, r)
  PROVE  StorageTypeOK' /\ Abstract!Next
  <1>1. StorageTypeOK'
    <2>1. calls' \in [Thread -> Nat] /\ request' \in [Thread -> Requests] /\ pc' \in [Thread -> Labels]
      BY DEF StorageTypeOK, Call, Requests, Labels
    <2> QED BY <2>1, Zenon DEF StorageTypeOK, Call
  <1>2. Abstract!Invoke(t)
    BY Zenon DEF Call, Abstract!Invoke, Request, Abstract!Request
  <1> QED BY <1>1, <1>2 DEF Abstract!Next

\* A step that returns is an atomic response of the abstract store if the
\* answer is one it allows now.
LEMMA RespondStep ==
  ASSUME StorageTypeOK, NEW t \in Thread, NEW r \in request[t], NEW ans \in Answer,
         Return(t, ans), store' \in [Key -> Cell], Abstract!Outcome(r, ans)
  PROVE  StorageTypeOK' /\ Abstract!Next
  <1>1. StorageTypeOK'
    BY ReturnTypeOK
  <1>2. ans \in Abstract!Answer
    BY DEF Answer, Abstract!Answer, Cell, Abstract!Cell, Sealed, Abstract!Sealed
  <1>3. Abstract!Respond(t)
    BY <1>2, Zenon DEF Abstract!Respond, Return
  <1> QED BY <1>1, <1>3, Zenon DEF Abstract!Next

\* The definitions of the two copies of SecureStorage agree.
LEMMA SameData ==
  /\ Abstract!Failed = Failed /\ Abstract!Cell = Cell
  /\ \A c : Abstract!Ok(c) = Ok(c)
  /\ \A c, r : Abstract!Opens(c, r) <=> Opens(c, r)
  /\ \A c, r : Abstract!Updates(c, r) <=> Updates(c, r)
  /\ \A c, r : Abstract!Updated(c, r) = Updated(c, r)
  /\ \A r : Abstract!Fresh(r) = Fresh(r)
  BY DEF Abstract!Failed, Failed, Abstract!Cell, Cell, Abstract!Sealed, Sealed, Abstract!Ok, Ok,
     Abstract!Opens, Opens, Abstract!Updates, Updates, Abstract!Updated, Updated,
     Abstract!Fresh, Fresh

LEMMA RequestFacts ==
  ASSUME StorageTypeOK, NEW t \in Thread, NEW r \in request[t]
  PROVE  r \in Request /\ r.key \in Key /\ store[r.key] \in Cell /\ current[t] \in Cell
  BY DEF StorageTypeOK, Requests, Request

LEMMA DeniedStep ==
  ASSUME StorageTypeOK, NEW t \in Thread, PermissionDenied(t)
  PROVE  StorageTypeOK' /\ Abstract!Next
  <1>1. PICK r \in request[t] : TRUE
    BY DEF PermissionDenied, StorageTypeOK
  <1>2. Abstract!Outcome(r, Failed)
    BY SameData, Zenon DEF Abstract!Outcome, PermissionDenied
  <1>3. Failed \in Answer
    BY CellFacts, RequestFacts, Zenon
  <1> QED BY <1>2, <1>3, RespondStep, Zenon DEF PermissionDenied, StorageTypeOK

LEMMA ReadStep ==
  ASSUME StorageTypeOK, NEW t \in Thread, NEW r \in request[t], get_secure(t, r) \/ contains_key(t, r)
  PROVE  StorageTypeOK' /\ Abstract!Next
  <1>1. Ok(store[r.key]) \in Answer /\ Failed \in Answer /\ store' \in [Key -> Cell]
    BY CellFacts, RequestFacts DEF get_secure, contains_key, StorageTypeOK
  <1>2. CASE get_secure(t, r) /\ ~ Opens(store[r.key], r)
    <2>1. Return(t, Failed) /\ r.op = "get_secure" /\ UNCHANGED store
      BY <1>2, Zenon DEF get_secure, Started
    <2>2. Abstract!Outcome(r, Failed)
      BY <1>2, <2>1, SameData, Zenon DEF Abstract!Outcome
    <2> QED BY <1>1, <2>1, <2>2, RespondStep, Zenon
  <1>3. CASE get_secure(t, r) /\ Opens(store[r.key], r)
    <2>1. Return(t, Ok(store[r.key])) /\ r.op = "get_secure" /\ UNCHANGED store
          /\ backend # "unauthorized"
      BY <1>3, Zenon DEF get_secure, Started
    <2>2. Abstract!Outcome(r, Ok(store[r.key]))
      BY <1>3, <2>1, SameData, Zenon DEF Abstract!Outcome
    <2> QED BY <1>1, <2>1, <2>2, RespondStep, Zenon
  <1>4. CASE contains_key(t, r)
    <2>1. Return(t, Ok(store[r.key])) /\ r.op = "contains_key" /\ UNCHANGED store
          /\ backend # "unauthorized"
      BY <1>4 DEF contains_key, Started
    <2>2. Abstract!Outcome(r, Ok(store[r.key]))
      BY <2>1, SameData, Zenon DEF Abstract!Outcome
    <2> QED BY <1>1, <2>1, <2>2, RespondStep, Zenon
  <1> QED BY <1>2, <1>3, <1>4, Zenon

LEMMA ClearStep ==
  ASSUME StorageTypeOK, NEW t \in Thread, NEW r \in request[t], clear(t, r)
  PROVE  StorageTypeOK' /\ Abstract!Next
  <1>1. Return(t, Ok({})) /\ r.op = "clear" /\ store' = [k \in Key |-> {}] /\ backend # "unauthorized"
    BY DEF clear, Started
  <1>2. Ok({}) \in Answer /\ store' \in [Key -> Cell]
    BY <1>1 DEF Ok, Answer, Cell
  <1>3. Abstract!Outcome(r, Ok({}))
    BY <1>1, SameData, Zenon DEF Abstract!Outcome
  <1> QED BY <1>1, <1>2, <1>3, RespondStep, Zenon

LEMMA SetSecureStep ==
  ASSUME StorageTypeOK, NEW t \in Thread, NEW r \in request[t], set_secure(t, r)
  PROVE  StorageTypeOK' /\ (Abstract!Next \/ UNCHANGED Abstract!vars)
  <1>1. r.op = "set_secure" /\ backend # "unauthorized"
    BY DEF set_secure, Started
  <1>2. CASE Opens(store[r.key], r)
    <2>1. Goto(t, "set", store[r.key])
      BY <1>2 DEF set_secure
    <2>2. StorageTypeOK'
      BY <1>1, <2>1, GotoTypeOK, RequestFacts, Zenon
    <2> QED BY <2>1, <2>2 DEF Goto, Abstract!vars
  <1>3. CASE ~ Opens(store[r.key], r)
    <2>1. Return(t, Failed) /\ UNCHANGED store
      BY <1>3 DEF set_secure
    <2>2. Abstract!Outcome(r, Failed)
      BY <1>1, <1>3, <2>1, SameData, Zenon DEF Abstract!Outcome
    <2>3. Failed \in Answer /\ store' \in [Key -> Cell]
      BY <2>1, CellFacts, RequestFacts DEF StorageTypeOK
    <2> QED BY <2>1, <2>2, <2>3, RespondStep
  <1> QED BY <1>2, <1>3

LEMMA SetStep ==
  ASSUME StorageTypeOK, NEW t \in Thread, NEW r \in request[t], set(t, r)
  PROVE  StorageTypeOK' /\ Abstract!Next
  <1>1. /\ r.op = "set_secure" /\ backend # "unauthorized"
        /\ Return(t, Ok(current[t])) /\ store' = [store EXCEPT ![r.key] = Fresh(r)]
    BY DEF set, StorageTypeOK
  <1>2. Ok(current[t]) \in Answer /\ store' \in [Key -> Cell]
    BY <1>1, CellFacts, RequestFacts DEF StorageTypeOK
  <1>3. Abstract!Outcome(r, Ok(current[t]))
    BY <1>1, SameData, RequestFacts, Zenon DEF Abstract!Outcome
  <1> QED BY <1>1, <1>2, <1>3, RespondStep, Zenon

\* A read inside fetch_and_update: an error is its answer, otherwise nothing
\* has happened yet.
LEMMA FetchStep ==
  ASSUME StorageTypeOK, NEW t \in Thread, NEW r \in request[t], fetch(t, r),
         r.op = "fetch_and_update_secure", backend # "unauthorized"
  PROVE  StorageTypeOK' /\ (Abstract!Next \/ UNCHANGED Abstract!vars)
  <1>1. CASE Updates(store[r.key], r)
    <2>1. Goto(t, "cas", store[r.key])
      BY <1>1 DEF fetch
    <2>2. StorageTypeOK'
      BY <1>1, <2>1, GotoTypeOK, RequestFacts
    <2> QED BY <2>1, <2>2 DEF Goto, Abstract!vars
  <1>2. CASE ~ Updates(store[r.key], r)
    <2>1. Return(t, Failed) /\ UNCHANGED store
      BY <1>2 DEF fetch
    <2>2. Abstract!Outcome(r, Failed)
      BY <1>2, <2>1, SameData, Zenon DEF Abstract!Outcome
    <2>3. Failed \in Answer /\ store' \in [Key -> Cell]
      BY <2>1, CellFacts, RequestFacts DEF StorageTypeOK
    <2> QED BY <2>1, <2>2, <2>3, RespondStep
  <1> QED BY <1>1, <1>2

\* An update that succeeds, with the lock held or by compare-and-swap.
LEMMA UpdateStep ==
  ASSUME StorageTypeOK, NEW t \in Thread, NEW r \in request[t],
         r.op = "fetch_and_update_secure", backend # "unauthorized",
         Updates(store[r.key], r),
         store' = [store EXCEPT ![r.key] = Updated(store[r.key], r)],
         Return(t, Ok(store[r.key]))
  PROVE  StorageTypeOK' /\ Abstract!Next
  <1>1. Ok(store[r.key]) \in Answer /\ store' \in [Key -> Cell]
    BY CellFacts, RequestFacts DEF StorageTypeOK
  <1>2. Abstract!Outcome(r, Ok(store[r.key]))
    BY SameData, Zenon DEF Abstract!Outcome
  <1> QED BY <1>1, <1>2, RespondStep, Zenon

LEMMA LockedStep ==
  ASSUME StorageTypeOK, NEW t \in Thread, NEW r \in request[t], fetch_and_update_locked(t, r)
  PROVE  StorageTypeOK' /\ (Abstract!Next \/ UNCHANGED Abstract!vars)
  <1>1. r.op = "fetch_and_update_secure" /\ backend # "unauthorized"
    BY DEF fetch_and_update_locked, Started
  <1>2. CASE ~ Updates(store[r.key], r)
    BY <1>1, <1>2, FetchStep DEF fetch_and_update_locked, fetch
  <1>3. CASE Updates(store[r.key], r)
    BY <1>1, <1>3, UpdateStep DEF fetch_and_update_locked
  <1> QED BY <1>2, <1>3

LEMMA CasStep ==
  ASSUME StorageTypeOK, NEW t \in Thread, NEW r \in request[t], cas(t, r)
  PROVE  StorageTypeOK' /\ (Abstract!Next \/ UNCHANGED Abstract!vars)
  <1>1. r.op = "fetch_and_update_secure" /\ backend # "unauthorized" /\ Updates(current[t], r)
    BY DEF cas, StorageTypeOK
  <1>2. CASE store[r.key] = current[t]
    BY <1>1, <1>2, UpdateStep DEF cas
  <1>3. CASE store[r.key] # current[t]
    BY <1>1, <1>3, FetchStep DEF cas
  <1> QED BY <1>2, <1>3

-----------------------------------------------------------------------------

LEMMA NextStep ==
  ASSUME StorageTypeOK, [StorageNext]_storageVars
  PROVE  StorageTypeOK' /\ [Abstract!Next]_(Abstract!vars)
  <1>1. CASE UNCHANGED storageVars
    BY <1>1 DEF storageVars, StorageTypeOK, Abstract!vars
  <1>2. ASSUME NEW t \in Thread, NEW r \in request[t], fetch_and_update(t, r)
        PROVE  StorageTypeOK' /\ (Abstract!Next \/ UNCHANGED Abstract!vars)
    BY <1>2, FetchStep DEF fetch_and_update, Started
  <1> QED
    BY <1>1, <1>2, CallStep, DeniedStep, ReadStep, ClearStep, SetSecureStep, SetStep, LockedStep,
       CasStep, Zenon DEF StorageNext, StorageStep

LEMMA InitStep ==
  ASSUME StorageInit
  PROVE  StorageTypeOK /\ Abstract!Init
  <1>1. StorageTypeOK
    BY BackendsAssumption DEF StorageInit, StorageTypeOK, Cell, Requests, Labels
  <1>2. Abstract!Init
    BY DEF StorageInit, Abstract!Init
  <1> QED BY <1>1, <1>2

\* In the compare-and-swap loop of SledStorage a thread always holds a value its
\* update succeeds on.
THEOREM StorageTyped == StorageSpec => []StorageTypeOK
  <1>1. StorageInit => StorageTypeOK
    BY InitStep
  <1>2. StorageTypeOK /\ [StorageNext]_storageVars => StorageTypeOK'
    BY NextStep
  <1> QED BY <1>1, <1>2, PTL DEF StorageSpec

\* The back ends and the secure operations of client-common/storage implement
\* the atomic store: no update is lost.
THEOREM StorageIsAtomic == StorageSpec => ImplementsStore
  <1>1. StorageInit => Abstract!Init
    BY InitStep
  <1>2. StorageTypeOK /\ [StorageNext]_storageVars => [Abstract!Next]_(Abstract!vars)
    BY NextStep
  <1> QED BY <1>1, <1>2, StorageTyped, PTL DEF StorageSpec, ImplementsStore, Abstract!Spec

=============================================================================
