---------------------------- MODULE SecureStorage ---------------------------
(***************************************************************************)
(* The values of client storage, sealed under a passphrase, and the        *)
(* requests the services make (client-common/storage).  A value is the set *)
(* of what has been put into a wallet or a session; the key it is stored   *)
(* under is authenticated with it, so a sealed value has no meaning under  *)
(* another key and the model gives it none.                                *)
(***************************************************************************)
CONSTANTS Thread, Key, Passphrase, Elem

Sealed == [content : SUBSET Elem, pass : Passphrase]
Cell == {{}} \cup {{c} : c \in Sealed}

Request == [op : {"get_secure", "set_secure", "fetch_and_update_secure", "contains_key", "clear"},
            key : Key, pass : Passphrase, elem : Elem]
Requests == {{}} \cup {{r} : r \in Request}

\* An answer: an error, or what was stored before.
Answer == [ok : BOOLEAN, old : Cell]
Failed == [ok |-> FALSE, old |-> {}]
Ok(cell) == [ok |-> TRUE, old |-> cell]

\* Decryption under the request's passphrase: of nothing, it succeeds.
Opens(cell, r) == \A c \in cell : c.pass = r.pass

\* What set_secure writes.
Fresh(r) == {[content |-> {r.elem}, pass |-> r.pass]}

\* The update the services make fails when there is nothing to update
\* (WalletNotFound, SessionNotFound) and otherwise adds to what is there.
Updates(cell, r) == cell # {} /\ Opens(cell, r)
Updated(cell, r) == {[content |-> c.content \cup {r.elem}, pass |-> r.pass] : c \in cell}
=============================================================================
