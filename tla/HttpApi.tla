------------------------------ MODULE HttpApi ------------------------------
(***************************************************************************)
(* One HTTP request on its way through gin: the chain of its route, the    *)
(* two middlewares, and what its handler makes of what the service says.   *)
(*                                                                         *)
(* gin runs the functions of a chain one after the other; a function that  *)
(* has answered must call Abort, or the next one runs all the same.        *)
(*                                                                         *)
(* Abstracted: the service is its outcomes (WalletTransactions and         *)
(* FraudFlag say when); a body binds or does not; only the list of wallet  *)
(* statuses is built (WalletStatusList).                                   *)
(***************************************************************************)
EXTENDS WalletStatusList

CONSTANT MaxIds   \* bound on the user_ids of a request

ASSUME IdsAssumption == MaxIds \in Nat

Public == {"health", "ready"}
Own == {"create", "create_wallet", "get_mine", "top_up"}
AdminOnly == {"list", "flag", "unflag", "list_wallets", "set_enabled"}
Routes == Public \union Own \union AdminOnly

\* Routes whose body, or user_ids parameter, has to bind.
Binding == {"create", "top_up", "set_enabled", "list_wallets"}

Roles == {"user", "admin"}
\* What the Authorization header may hold; of a genuine token its role.
Headers == {"none", "forged", "expired"} \union Roles

VARIABLES
    route,    \* what is asked for
    header,   \* the Authorization header
    binds,    \* whether the request binds
    ids,      \* its user_ids; none if there is no such parameter
    wallets,  \* the table, while the request is served
    next,     \* the functions of the chain still to run
    claims,   \* the role of the claims stored in the context, as a set
    codes,    \* the status codes written so far
    done,     \* the service did what was asked
    entries   \* the wallet statuses in the answer

input == <<route, header, binds, ids, wallets>>
vars == <<input, next, claims, codes, done, entries>>

Chain(r) ==
    CASE r \in Public -> <<"handler">>
      [] r \in Own -> <<"auth", "handler">>
      [] r \in AdminOnly -> <<"auth", "requireAdmin", "handler">>

TypeOK ==
    /\ route \in Routes /\ header \in Headers /\ binds \in BOOLEAN
    /\ \E i \in 1 .. Len(Chain(route)) + 1 : next = SubSeq(Chain(route), i, Len(Chain(route)))
    /\ claims \subseteq Roles
    /\ codes \in Seq({200, 201, 400, 401, 403, 404, 409, 500, 503})
    /\ done \in BOOLEAN
    /\ Len(ids) <= MaxIds /\ wallets \in Wallets

\* user_ids="" is the same as none.
Init ==
    /\ route \in Routes /\ header \in Headers /\ binds \in BOOLEAN
    /\ \/ /\ route = "list_wallets"
          /\ ids \in UNION {[1 .. n -> Id] : n \in 0 .. MaxIds}
          /\ binds = (ids # <<>>)
          /\ wallets \in Wallets
       \/ route # "list_wallets" /\ ids = <<>> /\ wallets = <<>>
    /\ next = Chain(route)
    /\ claims = {} /\ codes = <<>> /\ done = FALSE /\ entries = <<>>

-----------------------------------------------------------------------------
Runs(f) == next # <<>> /\ Head(next) = f

Write(code) == codes' = Append(codes, code)
Continue == next' = Tail(next)
Abort == next' = <<>>

\* Mutation: the error of token.Parse is not looked at.
AuthAnyToken ==
    /\ Runs("auth")
    /\ \/ header # "none" /\ claims' = {header} /\ Continue /\ UNCHANGED codes
       \/ header = "none" /\ Write(401) /\ Abort /\ UNCHANGED claims
    /\ UNCHANGED <<input, done, entries>>

Auth ==
    /\ Runs("auth")
    /\ \/ header \in Roles /\ claims' = {header} /\ Continue /\ UNCHANGED codes
       \/ header \notin Roles /\ Write(401) /\ Abort /\ UNCHANGED claims
    /\ UNCHANGED <<input, done, entries>>

\* Mutation: the refusal is written and the chain goes on.
RequireAdminNoAbort ==
    /\ Runs("requireAdmin")
    /\ Continue
    /\ \/ claims = {"admin"} /\ UNCHANGED codes
       \/ claims # {"admin"} /\ Write(403)
    /\ UNCHANGED <<input, claims, done, entries>>

\* Mutation: any caller with claims is let through.
RequireClaims ==
    /\ Runs("requireAdmin")
    /\ \/ claims # {} /\ Continue /\ UNCHANGED codes
       \/ claims = {} /\ Write(403) /\ Abort
    /\ UNCHANGED <<input, claims, done, entries>>

RequireAdmin ==
    /\ Runs("requireAdmin")
    /\ \/ claims = {"admin"} /\ Continue /\ UNCHANGED codes
       \/ claims # {"admin"} /\ Write(403) /\ Abort
    /\ UNCHANGED <<input, claims, done, entries>>

(* What the service may return, by whether it did what was asked.          *)

Refusals(r) ==
    CASE r = "create" -> {"invalid_amount", "receiver_not_found", "receiver_inactive",
                          "insufficient", "wallet_not_found", "disabled"}
      [] r = "top_up" -> {"invalid_amount", "wallet_not_found", "disabled"}
      [] r = "create_wallet" -> {"already_exists"}
      [] r \in {"get_mine", "set_enabled"} -> {"wallet_not_found"}
      [] r \in {"flag", "unflag"} -> {"transaction_not_found", "not_eligible"}
      [] r = "ready" -> {"ping"}
      [] OTHER -> {}

\* A statement or a call fails before or after it took effect, or a change of
\* status is committed and its message not published.
Failures(r) ==
    IF r \in Public THEN {}
    ELSE {"failed"} \union (IF r \in {"flag", "unflag"} THEN {"not_published"} ELSE {})

Outcomes(r) ==
    {x \in {[error |-> "", did |-> TRUE]} : Readable(ids)} \union
    [error : Refusals(r), did : {FALSE}] \union [error : Failures(r), did : BOOLEAN]

\* The switches of the handlers.
TransactionCodes ==
    [invalid_amount |-> 400, receiver_not_found |-> 404, receiver_inactive |-> 400,
     insufficient |-> 400, wallet_not_found |-> 400, disabled |-> 403,
     transaction_not_found |-> 404, not_eligible |-> 409]

WalletCodes ==
    [invalid_amount |-> 400, wallet_not_found |-> 404, disabled |-> 403, already_exists |-> 409]

ReadyCodes == [ping |-> 503]

Codes(r) ==
    CASE r \in {"create", "flag", "unflag", "list"} -> TransactionCodes
      [] r \in {"create_wallet", "get_mine", "top_up", "list_wallets", "set_enabled"} -> WalletCodes
      [] r \in Public -> ReadyCodes

Success(r) == IF r \in {"create", "create_wallet"} THEN 201 ELSE 200

\* Mutation: whatever a switch does not name is a conflict.
CodeOrConflict(r, error) ==
    CASE error = "" -> Success(r)
      [] error \in DOMAIN Codes(r) -> Codes(r)[error]
      [] OTHER -> 409

Code(r, error) ==
    CASE error = "" -> Success(r)
      [] error \in DOMAIN Codes(r) -> Codes(r)[error]
      [] OTHER -> 500

Serve ==
    \E outcome \in Outcomes(route) :
       /\ done' = outcome.did
       /\ Write(Code(route, outcome.error))
       /\ entries' = IF outcome.error = "" THEN NewWalletStatusList(ids, Found(ids, wallets))
                                           ELSE <<>>

Handler ==
    /\ Runs("handler")
    /\ Continue
    /\ \/ route \in Own /\ claims = {} /\ Write(401) /\ UNCHANGED <<done, entries>>
       \/ /\ route \in Own => claims # {}
          /\ route \in Binding /\ ~binds
          /\ Write(400) /\ UNCHANGED <<done, entries>>
       \/ /\ route \in Own => claims # {}
          /\ route \in Binding => binds
          /\ Serve
    /\ UNCHANGED <<input, claims>>

Sent == next = <<>> /\ UNCHANGED vars

Next == Auth \/ RequireAdmin \/ Handler \/ Sent

Spec == Init /\ [][Next]_vars

-----------------------------------------------------------------------------
(* Properties. *)

\* Nothing is done for a caller whose token is not genuine, and nothing that is
\* admin-only for one whose token does not say admin: the handlers behind
\* RequireAdmin look at no claims themselves.
OnlyAdmitted ==
    done => \/ route \in Public
            \/ route \in Own /\ header \in Roles
            \/ route \in AdminOnly /\ header = "admin"

\* Every request is answered once: no refusal is followed by the answer of a
\* function that ran on behind it, and none is forgotten.
AnsweredOnce == Len(codes) <= 1 /\ (next = <<>> => Len(codes) = 1)

\* The code tells the client what happened: after 2xx it is done, after 4xx or
\* 503 it is not and may be tried again, and only a 500 leaves it open.
CodeTellsOutcome ==
    \A i \in DOMAIN codes :
       /\ codes[i] < 300 => done
       /\ codes[i] \in 400 .. 499 \union {503} => ~done

\* Entry i speaks of the i-th id asked for, with the state of its wallet, also
\* when ids repeat or some have no wallet; what it says of a wallet is true, and
\* a wallet asked for by the canonical spelling of its id is not missed.
EntriesMatchIds ==
    route = "list_wallets" /\ codes = <<200>> =>
       /\ Len(entries) = Len(ids)
       /\ \A i \in DOMAIN ids :
             LET u == ids[i].user IN
             /\ entries[i].id = ids[i]
             /\ entries[i].exists => u \in DOMAIN wallets /\ entries[i].enabled = wallets[u]
             /\ ids[i].as = "canonical" /\ u \in DOMAIN wallets => entries[i].exists
=============================================================================
