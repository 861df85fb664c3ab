-------------------------- MODULE WalletStatusList --------------------------
(***************************************************************************)
(* GET /wallets?user_ids=...: the wallets of the users of one page of the  *)
(* dashboard.  The database reads the ids as UUIDs and returns the rows it *)
(* finds in any order; they are then joined with the requested ids as      *)
(* texts.                                                                  *)
(*                                                                         *)
(* Abstracted: an id is a user and how it is written, where "upper" stands *)
(* for every other spelling that PostgreSQL reads as the same UUID; of a   *)
(* wallet's columns is_enabled stands for all.                             *)
(***************************************************************************)
EXTENDS Naturals, Sequences

CONSTANTS Users,      \* user ids
          Spellings   \* ways to write them, of those in SpellingAssumption

ASSUME SpellingAssumption == Spellings \subseteq {"canonical", "upper", "malformed"}

Id == [user : Users, as : Spellings]

\* What table wallets may hold: is_enabled of the users who have a row.
Wallets == UNION {[S -> BOOLEAN] : S \in SUBSET Users}

\* One id that is no UUID makes the whole statement fail.
Readable(ids) == \A i \in DOMAIN ids : ids[i].as # "malformed"

\* WHERE user_id = ANY($1)
Found(ids, wallets) ==
    {[user |-> u, enabled |-> wallets[u]] :
       u \in {x \in DOMAIN wallets : \E i \in DOMAIN ids : ids[i].user = x}}

NoWallet(id) == [id |-> id, exists |-> FALSE]
Status(id, w) == [id |-> id, exists |-> TRUE, enabled |-> w.enabled]

\* The key of a found wallet in byUserID.
Key(w) == [user |-> w.user, as |-> "canonical"]

Entry(id, found) ==
    IF \E w \in found : Key(w) = id
       THEN Status(id, CHOOSE w \in found : Key(w) = id)
       ELSE NoWallet(id)

\* Mutation: a wallet is taken out of the map when it is used.
EachWalletOnce(ids, found) ==
    [i \in DOMAIN ids |->
       IF \E j \in 1 .. i - 1 : ids[j] = ids[i] THEN NoWallet(ids[i]) ELSE Entry(ids[i], found)]

NewWalletStatusList(ids, found) == [i \in DOMAIN ids |-> Entry(ids[i], found)]
=============================================================================
