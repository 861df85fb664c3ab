------------------------------ MODULE TxnList ------------------------------
(***************************************************************************)
(* GET /transactions: an administrator walks through the list page by page *)
(* while transfers commit and other administrators change statuses.        *)
(*                                                                         *)
(* One request is two statements on two snapshots, the count and the page. *)
(* A row's created_at is the time its transaction began, so rows may       *)
(* appear below newer ones, and two rows may have the same.                *)
(*                                                                         *)
(* Abstracted: a search text, free of ILIKE's wildcards, is the ids that   *)
(* contain it; a statement that fails changes nothing.                     *)
(***************************************************************************)
EXTENDS Integers, Sequences, FiniteSets

CONSTANTS Txns,         \* transaction ids
          Users,        \* user ids
          Sender,       \* sender_id and receiver_id of each transaction
          Receiver,
          Filters,      \* the queries administrators may walk through
          DefaultLimit  \* 20

\* No status is ""; text and users are sets so that they can be left out.
Filter == [status : {"", "completed", "flagged"},
           text : {{}} \union {{ids} : ids \in SUBSET Txns},
           users : SUBSET Users, limit : Int, offset : Int]

ASSUME TxnsAssumption == IsFiniteSet(Txns)
ASSUME PartyAssumption == Sender \in [Txns -> Users] /\ Receiver \in [Txns -> Users]
ASSUME FilterAssumption == Filters \subseteq Filter
ASSUME LimitAssumption == DefaultLimit \in Nat \ {0}

VARIABLES
    created,   \* created_at of each transaction; 0 before it begins
    visible,   \* transactions that have committed
    status,    \* transactions.status
    filter,    \* what the walk asks for, offset included
    pc,        \* "count" or "page", the next statement; "done"
    total,     \* what the count returned
    page,      \* the page last received
    seen,      \* rows received so far
    first      \* rows the walk should find: those there when it began

rows == <<created, visible, status>>
walk == <<filter, pc, total, page, seen, first>>
vars == <<rows, walk>>

Init ==
    /\ created = [t \in Txns |-> 0]
    /\ visible = {}
    /\ status = [t \in Txns |-> "completed"]
    /\ filter \in Filters
    /\ pc = "idle" /\ total = 0 /\ page = <<>> /\ seen = {} /\ first = {}

-----------------------------------------------------------------------------
(* The table. *)

Begin(t) ==
    /\ created[t] = 0
    /\ \E now \in 1 .. Cardinality(Txns) :
          /\ \A u \in Txns : created[u] <= now
          /\ created' = [created EXCEPT ![t] = now]
    /\ UNCHANGED <<visible, status, walk>>

Commit(t) ==
    /\ created[t] > 0 /\ t \notin visible
    /\ visible' = visible \union {t}
    /\ UNCHANGED <<created, status, walk>>

\* Flag and Unflag.
ChangeStatus(t) ==
    /\ t \in visible
    /\ status' = [status EXCEPT ![t] = IF @ = "completed" THEN "flagged" ELSE "completed"]
    /\ UNCHANGED <<created, visible, walk>>

-----------------------------------------------------------------------------
(* buildTransactionFilter: the arguments in the order of their numbers, and *)
(* conditions that name them by number.  Conditions are and-ed, the tests  *)
(* of one condition or-ed.                                                 *)

StatusArgs == IF filter.status = "" THEN <<>> ELSE <<filter.status>>
TextArgs == IF filter.text = {} THEN <<>> ELSE <<CHOOSE x \in filter.text : TRUE>>
UserArgs == IF filter.users = {} THEN <<>> ELSE <<filter.users>>

Args == StatusArgs \o TextArgs \o UserArgs

Test(column, arg) == [column |-> column, arg |-> arg]

StatusTests == {Test("status", n) : n \in 1 .. Len(StatusArgs)}

SearchTests ==
    {Test("id", Len(StatusArgs) + n) : n \in 1 .. Len(TextArgs)} \union
    {Test("user", Len(Args)) : n \in 1 .. Len(UserArgs)}

\* Mutation: one condition per test, and-ed.
EveryTest == {{x} : x \in StatusTests \union SearchTests}

Conditions == {StatusTests, SearchTests} \ {{}}

Holds(test, t) ==
    LET arg == Args[test.arg] IN
    CASE test.column = "status" -> status[t] = arg
      [] test.column = "id" -> t \in arg
      [] test.column = "user" -> Sender[t] \in arg \/ Receiver[t] \in arg

Selected == {t \in visible : \A c \in Conditions : \E x \in c : Holds(x, t)}

-----------------------------------------------------------------------------
(* List. *)

Limit == IF filter.limit <= 0 THEN DefaultLimit ELSE filter.limit
Offset == IF filter.offset < 0 THEN 0 ELSE filter.offset

\* Mutation: append(args, offset, limit).
SwappedArgs == Args \o <<Offset, Limit>>

ListArgs == Args \o <<Limit, Offset>>

\* The orders in which ORDER BY created_at DESC may return S.
Orders(S) ==
    {s \in [1 .. Cardinality(S) -> S] :
       \A i, j \in 1 .. Cardinality(S) : i < j => s[i] # s[j] /\ created[s[i]] >= created[s[j]]}

Count ==
    /\ pc \in {"idle", "count"}
    /\ total' = Cardinality(Selected)
    /\ first' = IF pc = "idle" THEN Selected ELSE first
    /\ pc' = "page"
    /\ UNCHANGED <<rows, filter, page, seen>>

\* The client goes on behind the rows it got, until it gets none.
Page ==
    LET limit == ListArgs[Len(Args) + 1]
        offset == ListArgs[Len(Args) + 2]
    IN
    /\ pc = "page"
    /\ \E s \in Orders(Selected) :
          page' = SubSeq(s, offset + 1,
                         IF offset + limit < Len(s) THEN offset + limit ELSE Len(s))
    /\ seen' = seen \union {page'[i] : i \in DOMAIN page'}
    /\ filter' = [filter EXCEPT !.offset = Offset + Len(page')]
    /\ pc' = IF page' = <<>> THEN "done" ELSE "count"
    /\ UNCHANGED <<rows, total, first>>

Finished == pc = "done" /\ UNCHANGED vars

Next ==
    \/ \E t \in Txns : Begin(t) \/ Commit(t) \/ ChangeStatus(t)
    \/ Count \/ Page \/ Finished

Spec == Init /\ [][Next]_vars

-----------------------------------------------------------------------------
(* Properties. *)

\* The rows an administrator asks for: of the status, if one is given, whose id
\* contains the text or whose sender or receiver is one of the users, if there
\* is a text or a user (transaction_repository.go:41-47).
Wanted ==
    {t \in visible :
       /\ filter.status \in {"", status[t]}
       /\ \/ filter.text = {} /\ filter.users = {}
          \/ \E ids \in filter.text : t \in ids
          \/ {Sender[t], Receiver[t]} \cap filter.users # {}}

\* A positive limit and an offset that is not negative are taken as asked for;
\* anything else means the default and the top of the list.
AskedLimit == IF filter.limit \in Nat \ {0} THEN filter.limit ELSE DefaultLimit
AskedOffset == IF filter.offset \in Nat THEN filter.offset ELSE 0

\* p is a page of the wanted rows: newest first, as many as the limit and the
\* offset leave, with exactly offset rows left out that may come before it.
IsPage(p) ==
    LET got == {p[i] : i \in DOMAIN p}
        others == Wanted \ got
        left == Cardinality(Wanted) - AskedOffset
    IN
    /\ got \subseteq Wanted /\ Cardinality(got) = Len(p)
    /\ Len(p) = IF left < 0 THEN 0 ELSE IF left < AskedLimit THEN left ELSE AskedLimit
    /\ \A i, j \in DOMAIN p : i < j => created[p[i]] >= created[p[j]]
    /\ p # <<>> =>
          /\ Cardinality({t \in others : created[t] >= created[p[1]]}) >= AskedOffset
          /\ Cardinality({t \in others : created[t] > created[p[Len(p)]]}) <= AskedOffset

\* Every page is the part of the list that was asked for, as the list is at
\* that moment: the numbers of the placeholders fit, whichever filters are set.
\* The total that comes with it was counted before and may be too small; it is
\* never too large unless rows leave the list with their status.
PageIsRight ==
    [][pc = "page" /\ pc' # "page" =>
          IsPage(page') /\ (filter.status = "" => total <= Cardinality(Wanted))]_vars

\* Rows that commit during a walk push others back but never out of it: without
\* a status filter, and as long as no two rows are of the same time, every row
\* that was there at the start has been received at the end.
NothingMissed ==
    /\ pc = "done" /\ filter.status = ""
    /\ \A t, u \in visible : created[t] = created[u] => t = u
    => first \subseteq seen
=============================================================================
