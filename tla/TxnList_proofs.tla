--------------------------- MODULE TxnList_proofs ---------------------------
(***************************************************************************)
(* Proofs about the transaction list, for any transactions, users and      *)
(* filters.                                                                *)
(***************************************************************************)
EXTENDS TxnList, FiniteSetTheorems, FunctionTheorems, SequenceTheorems, TLAPS

TypeInv ==
    /\ created \in [Txns -> Nat]
    /\ visible \subseteq Txns
    /\ status \in [Txns -> {"completed", "flagged"}]
    /\ filter \in Filter
    /\ pc \in {"idle", "count", "page", "done"}
    /\ \A t \in visible : created[t] > 0

-----------------------------------------------------------------------------
(* The numbers of the placeholders fit: the rows that the conditions select *)
(* are those that were asked for.                                          *)

\* A group of one argument or none.
LEMMA OneArgument ==
    ASSUME NEW S, NEW a \in S, NEW no \in BOOLEAN, NEW p, p = IF no THEN <<>> ELSE <<a>>
    PROVE  /\ p \in Seq(S)
           /\ Len(p) = IF no THEN 0 ELSE 1
           /\ ~no => p[1] = a
  OBVIOUS

\* Arguments keep their places when the groups are put together.
LEMMA PlacesOfArguments ==
    ASSUME NEW S, NEW p \in Seq(S), NEW q \in Seq(S), NEW r \in Seq(S),
           Len(p) \in {0, 1}, Len(q) \in {0, 1}, Len(r) \in {0, 1}
    PROVE  /\ p \o q \o r \in Seq(S)
           /\ Len(p) = 1 => (p \o q \o r)[1] = p[1]
           /\ Len(q) = 1 => (p \o q \o r)[Len(p) + 1] = q[1]
           /\ Len(r) = 1 => (p \o q \o r)[Len(p \o q \o r)] = r[1]
  OBVIOUS

\* And so they do when LIMIT and OFFSET are appended.
LEMMA PlacesOfLimits ==
    ASSUME NEW S, NEW p \in Seq(S), NEW x \in S, NEW y \in S
    PROVE  (p \o <<x, y>>)[Len(p) + 1] = x /\ (p \o <<x, y>>)[Len(p) + 2] = y
<1>1. <<x, y>> \in Seq(S) /\ Len(<<x, y>>) = 2 /\ <<x, y>>[1] = x /\ <<x, y>>[2] = y
  OBVIOUS
<1> QED
  BY <1>1

\* A filter gives at most one text.
LEMMA OneText ==
    ASSUME TypeInv, filter.text # {}
    PROVE  filter.text = {CHOOSE x \in filter.text : TRUE}
<1>1. PICK ids : filter.text = {ids}
  BY DEF TypeInv, Filter
<1> QED
  BY <1>1

\* What each number of a placeholder stands for.
LEMMA Numbering ==
    /\ Len(StatusArgs) = (IF filter.status = "" THEN 0 ELSE 1)
    /\ Len(TextArgs) = (IF filter.text = {} THEN 0 ELSE 1)
    /\ Len(UserArgs) = (IF filter.users = {} THEN 0 ELSE 1)
    /\ filter.status # "" => Args[1] = filter.status
    /\ filter.text # {} => Args[Len(StatusArgs) + 1] = CHOOSE x \in filter.text : TRUE
    /\ filter.users # {} => Args[Len(Args)] = filter.users
    /\ ListArgs[Len(Args) + 1] = Limit
    /\ ListArgs[Len(Args) + 2] = Offset
<1> DEFINE ids == CHOOSE x \in filter.text : TRUE
           S == {filter.status, ids, filter.users, Limit, Offset}
           noStatus == filter.status = ""
           noText == filter.text = {}
           noUsers == filter.users = {}
<1>1. /\ noStatus \in BOOLEAN /\ noText \in BOOLEAN /\ noUsers \in BOOLEAN
      /\ filter.status \in S /\ ids \in S /\ filter.users \in S /\ Limit \in S /\ Offset \in S
  OBVIOUS
<1>2. /\ StatusArgs = IF noStatus THEN <<>> ELSE <<filter.status>>
      /\ TextArgs = IF noText THEN <<>> ELSE <<ids>>
      /\ UserArgs = IF noUsers THEN <<>> ELSE <<filter.users>>
  BY DEF StatusArgs, TextArgs, UserArgs
<1> HIDE DEF S, ids, noStatus, noText, noUsers
<1>3. /\ StatusArgs \in Seq(S) /\ Len(StatusArgs) = (IF noStatus THEN 0 ELSE 1)
      /\ ~noStatus => StatusArgs[1] = filter.status
  BY ONLY <1>1, <1>2, OneArgument
<1>4. /\ TextArgs \in Seq(S) /\ Len(TextArgs) = (IF noText THEN 0 ELSE 1)
      /\ ~noText => TextArgs[1] = ids
  BY ONLY <1>1, <1>2, OneArgument
<1>5. /\ UserArgs \in Seq(S) /\ Len(UserArgs) = (IF noUsers THEN 0 ELSE 1)
      /\ ~noUsers => UserArgs[1] = filter.users
  BY ONLY <1>1, <1>2, OneArgument
<1>6. /\ Args \in Seq(S)
      /\ Len(StatusArgs) = 1 => Args[1] = StatusArgs[1]
      /\ Len(TextArgs) = 1 => Args[Len(StatusArgs) + 1] = TextArgs[1]
      /\ Len(UserArgs) = 1 => Args[Len(Args)] = UserArgs[1]
  <2>1. Len(StatusArgs) \in {0, 1} /\ Len(TextArgs) \in {0, 1} /\ Len(UserArgs) \in {0, 1}
    BY ONLY <1>3, <1>4, <1>5
  <2> QED
    BY ONLY <1>3, <1>4, <1>5, <2>1, PlacesOfArguments DEF Args
<1>7. ListArgs[Len(Args) + 1] = Limit /\ ListArgs[Len(Args) + 2] = Offset
  BY ONLY <1>1, <1>6, PlacesOfLimits DEF ListArgs
<1>8. /\ ~noStatus => Args[1] = filter.status
      /\ ~noText => Args[Len(StatusArgs) + 1] = ids
      /\ ~noUsers => Args[Len(Args)] = filter.users
  BY ONLY <1>3, <1>4, <1>5, <1>6
<1> QED
  BY <1>3, <1>4, <1>5, <1>7, <1>8 DEF noStatus, noText, noUsers, ids

\* What each test compares.
LEMMA Tests ==
    ASSUME NEW n, NEW t
    PROVE  /\ Holds(Test("status", n), t) <=> status[t] = Args[n]
           /\ Holds(Test("id", n), t) <=> t \in Args[n]
           /\ Holds(Test("user", n), t) <=> Sender[t] \in Args[n] \/ Receiver[t] \in Args[n]
<1>1. /\ Test("status", n).column = "status" /\ Test("status", n).arg = n
      /\ Test("id", n).column = "id" /\ Test("id", n).arg = n
      /\ Test("user", n).column = "user" /\ Test("user", n).arg = n
  BY DEF Test
<1> QED
  BY <1>1 DEF Holds

LEMMA StatusIsSelected ==
    ASSUME NEW t
    PROVE  (StatusTests = {} \/ \E x \in StatusTests : Holds(x, t))
             <=> filter.status \in {"", status[t]}
<1>1. CASE filter.status = ""
  <2>1. Len(StatusArgs) = 0
    BY <1>1, Numbering
  <2>2. StatusTests = {}
    BY <2>1 DEF StatusTests
  <2> QED
    BY <1>1, <2>2
<1>2. CASE filter.status # ""
  <2>1. Len(StatusArgs) = 1 /\ Args[1] = filter.status
    BY <1>2, Numbering
  <2>2. StatusTests = {Test("status", 1)}
    BY <2>1 DEF StatusTests
  <2>3. Holds(Test("status", 1), t) <=> status[t] = filter.status
    BY <2>1, Tests
  <2> QED
    BY <1>2, <2>2, <2>3
<1> QED
  BY <1>1, <1>2

LEMMA SearchIsSelected ==
    ASSUME TypeInv, NEW t
    PROVE  (SearchTests = {} \/ \E x \in SearchTests : Holds(x, t))
             <=> \/ filter.text = {} /\ filter.users = {}
                 \/ \E ids \in filter.text : t \in ids
                 \/ {Sender[t], Receiver[t]} \cap filter.users # {}
<1> DEFINE ids == {Test("id", Len(StatusArgs) + n) : n \in 1 .. Len(TextArgs)}
           users == {Test("user", Len(Args)) : n \in 1 .. Len(UserArgs)}
<1>1. SearchTests = ids \union users
  BY DEF SearchTests
<1>2. /\ filter.text = {} => ids = {}
      /\ filter.text # {} => /\ ids # {}
                             /\ (\E x \in ids : Holds(x, t)) <=> (\E i \in filter.text : t \in i)
  <2>1. CASE filter.text = {}
    <3>1. Len(TextArgs) = 0
      BY <2>1, Numbering
    <3> QED
      BY <2>1, <3>1
  <2>2. CASE filter.text # {}
    <3>1. Len(TextArgs) = 1 /\ Args[Len(StatusArgs) + 1] = CHOOSE x \in filter.text : TRUE
      BY <2>2, Numbering
    <3>2. ids = {Test("id", Len(StatusArgs) + 1)}
      BY <3>1
    <3>3. Holds(Test("id", Len(StatusArgs) + 1), t) <=> t \in CHOOSE x \in filter.text : TRUE
      <4>1. Holds(Test("id", Len(StatusArgs) + 1), t) <=> t \in Args[Len(StatusArgs) + 1]
        BY Tests
      <4> QED
        BY ONLY <3>1, <4>1
    <3>4. filter.text = {CHOOSE x \in filter.text : TRUE}
      BY <2>2, OneText
    <3> QED
      BY <2>2, <3>2, <3>3, <3>4
  <2> QED
    BY <2>1, <2>2
<1>3. /\ filter.users = {} => users = {}
      /\ filter.users # {} =>
            /\ users # {}
            /\ (\E x \in users : Holds(x, t)) <=> {Sender[t], Receiver[t]} \cap filter.users # {}
  <2>1. CASE filter.users = {}
    <3>1. Len(UserArgs) = 0
      BY <2>1, Numbering
    <3> QED
      BY <2>1, <3>1
  <2>2. CASE filter.users # {}
    <3>1. Len(UserArgs) = 1 /\ Args[Len(Args)] = filter.users
      BY <2>2, Numbering
    <3>2. users = {Test("user", Len(Args))}
      BY <3>1
    <3>3. Holds(Test("user", Len(Args)), t)
            <=> Sender[t] \in filter.users \/ Receiver[t] \in filter.users
      BY <3>1, Tests
    <3> QED
      BY <2>2, <3>2, <3>3
  <2> QED
    BY <2>1, <2>2
<1> HIDE DEF ids, users
<1> QED
  BY <1>1, <1>2, <1>3

LEMMA SelectedIsWanted ==
    ASSUME TypeInv
    PROVE  Selected = Wanted
<1>1. \A t : (\A c \in Conditions : \E x \in c : Holds(x, t))
              <=> /\ StatusTests = {} \/ \E x \in StatusTests : Holds(x, t)
                  /\ SearchTests = {} \/ \E x \in SearchTests : Holds(x, t)
  BY DEF Conditions
<1> QED
  BY <1>1, StatusIsSelected, SearchIsSelected DEF Selected, Wanted

-----------------------------------------------------------------------------
(* The orders of the selected rows.                                        *)

\* The rows up to place k.
Front(s, k) == {s[i] : i \in 1 .. k}

\* As many distinct rows as places.
LEMMA DistinctAreCounted ==
    ASSUME NEW k \in Nat, NEW f, \A i, j \in 1 .. k : f[i] = f[j] => i = j
    PROVE  Cardinality(Front(f, k)) = k
<1> DEFINE T == {f[i] : i \in 1 .. k}
           g == [i \in 1 .. k |-> f[i]]
<1>1. g \in [1 .. k -> T]
  OBVIOUS
<1>2. g \in Bijection(1 .. k, T)
  BY <1>1 DEF Bijection, Injection, Surjection, IsInjective
<1>3. ExistsBijection(1 .. k, T)
  BY <1>2 DEF ExistsBijection
<1> HIDE DEF T
<1>4. Cardinality(T) = k
  BY <1>3, FS_CountingElements
<1> QED
  BY <1>4 DEF T, Front

RowsFinite(R) ==
    \A S \in SUBSET R, T \in SUBSET R :
       /\ Cardinality(S) \in Nat
       /\ T \subseteq S => Cardinality(T) <= Cardinality(S)

LEMMA RowsAreSized ==
    ASSUME NEW R \in SUBSET Txns
    PROVE  RowsFinite(R)
<1> SUFFICES ASSUME NEW S \in SUBSET R, NEW T \in SUBSET R
             PROVE  /\ Cardinality(S) \in Nat
                    /\ T \subseteq S => Cardinality(T) <= Cardinality(S)
  BY DEF RowsFinite
<1>1. IsFiniteSet(S)
  BY TxnsAssumption, FS_Subset
<1> QED
  BY <1>1, FS_Subset, FS_CardinalityType

LEMMA RowsAreFinite ==
    ASSUME TypeInv, NEW S \in SUBSET visible
    PROVE  /\ IsFiniteSet(S) /\ Cardinality(S) \in Nat
           /\ \A T \in SUBSET S : /\ IsFiniteSet(T) /\ Cardinality(T) \in Nat
                                 /\ Cardinality(T) <= Cardinality(S)
<1>1. S \subseteq Txns
  BY DEF TypeInv
<1>2. IsFiniteSet(S)
  BY <1>1, TxnsAssumption, FS_Subset
<1> QED
  BY <1>2, FS_Subset, FS_CardinalityType

\* An order holds every row once, and newer rows first.
LEMMA OrdersList ==
    ASSUME TypeInv, NEW S \in SUBSET visible, NEW s \in Orders(S)
    PROVE  /\ Cardinality(S) \in Nat
           /\ s \in [1 .. Cardinality(S) -> S]
           /\ s \in Seq(S) /\ Len(s) = Cardinality(S)
           /\ \A i, j \in 1 .. Cardinality(S) : s[i] = s[j] => i = j
           /\ \A t \in S : \E i \in 1 .. Cardinality(S) : s[i] = t
           /\ \A i, j \in 1 .. Cardinality(S) : i <= j => created[s[i]] >= created[s[j]]
<1> DEFINE n == Cardinality(S)
<1>1. IsFiniteSet(S) /\ n \in Nat
  BY RowsAreFinite
<1>2. /\ s \in [1 .. n -> S]
      /\ \A i, j \in 1 .. n : i < j => s[i] # s[j] /\ created[s[i]] >= created[s[j]]
  BY DEF Orders
<1>3. \A i \in 1 .. n : created[s[i]] \in Nat
  BY <1>2 DEF TypeInv
<1>4. s \in Seq(S) /\ Len(s) = n
  BY <1>1, <1>2, SeqDef
<1> HIDE DEF n
<1>5. \A i, j \in 1 .. n : s[i] = s[j] => i = j
  BY <1>1, <1>2
<1>6. \A i, j \in 1 .. n : i <= j => created[s[i]] >= created[s[j]]
  <2> SUFFICES ASSUME NEW i \in 1 .. n, NEW j \in 1 .. n, i <= j
               PROVE  created[s[i]] >= created[s[j]]
    OBVIOUS
  <2>1. i < j \/ i = j
    BY <1>1
  <2> QED
    BY <1>2, <1>3, <2>1
<1>7. \A t \in S : \E i \in 1 .. n : s[i] = t
  <2>1. s \in Injection(1 .. n, S)
    BY <1>2, <1>5 DEF Injection, IsInjective
  <2>2. Cardinality(1 .. n) = n
    BY <1>1, FS_Interval
  <2>3. s \in Surjection(1 .. n, S)
    BY <1>1, <2>1, <2>2, FS_Injection DEF n
  <2> QED
    BY <2>3 DEF Surjection
<1> QED
  BY <1>1, <1>2, <1>4, <1>5, <1>6, <1>7 DEF n

-----------------------------------------------------------------------------
(* A page is a part of such an order.                                      *)

LEMMA LimitsAreTyped ==
    ASSUME TypeInv
    PROVE  Limit \in Nat \ {0} /\ Offset \in Nat
<1>1. filter.limit \in Int /\ filter.offset \in Int
  BY DEF TypeInv, Filter
<1> QED
  BY <1>1, LimitAssumption DEF Limit, Offset

\* The limit and the offset that reach the statement are those asked for.
LEMMA LimitsAreAsked ==
    ASSUME TypeInv
    PROVE  Limit = AskedLimit /\ Offset = AskedOffset
<1>1. filter.limit \in Int /\ filter.offset \in Int
  BY DEF TypeInv, Filter
<1> QED
  BY <1>1 DEF Limit, Offset, AskedLimit, AskedOffset

LEMMA PartOfSeq ==
    ASSUME NEW S, NEW s \in Seq(S), NEW m \in Nat \ {0}, NEW n \in Nat, n <= Len(s)
    PROVE  /\ SubSeq(s, m, n) \in Seq(S)
           /\ Len(SubSeq(s, m, n)) = (IF m <= n THEN n - m + 1 ELSE 0)
           /\ \A i \in 1 .. Len(SubSeq(s, m, n)) : SubSeq(s, m, n)[i] = s[m + i - 1]
<1>1. \A i \in m .. n : s[i] \in S
  OBVIOUS
<1> QED
  BY <1>1, SubSeqProperties

\* The rows that LIMIT and OFFSET cut out of the order s.
Cut(s) == SubSeq(s, Offset + 1, IF Offset + Limit < Len(s) THEN Offset + Limit ELSE Len(s))

LEMMA CutIsPart ==
    ASSUME TypeInv, NEW S, NEW s \in Seq(S)
    PROVE  /\ Cut(s) \in Seq(S)
           /\ Len(Cut(s)) = (IF Len(s) - Offset < 0 THEN 0
                             ELSE IF Len(s) - Offset < Limit THEN Len(s) - Offset ELSE Limit)
           /\ \A i \in 1 .. Len(Cut(s)) : Offset + i \in 1 .. Len(s) /\ Cut(s)[i] = s[Offset + i]
<1> DEFINE hi == IF Offset + Limit < Len(s) THEN Offset + Limit ELSE Len(s)
<1>1. Limit \in Nat \ {0} /\ Offset \in Nat /\ Len(s) \in Nat
  BY LimitsAreTyped
<1>2. hi \in Nat /\ hi <= Len(s) /\ hi <= Offset + Limit /\ hi \in {Len(s), Offset + Limit}
  BY <1>1
<1>3. Cut(s) = SubSeq(s, Offset + 1, hi)
  BY DEF Cut
<1> HIDE DEF hi
<1> DEFINE m == Offset + 1
<1>4. m \in Nat \ {0} /\ m = Offset + 1
  BY <1>1
<1> HIDE DEF m
<1>5. /\ Cut(s) \in Seq(S)
      /\ Len(Cut(s)) = (IF m <= hi THEN hi - m + 1 ELSE 0)
      /\ \A i \in 1 .. Len(Cut(s)) : Cut(s)[i] = s[m + i - 1]
  BY ONLY <1>2, <1>3, <1>4, PartOfSeq
<1>6. Len(Cut(s)) = (IF Len(s) - Offset < 0 THEN 0
                     ELSE IF Len(s) - Offset < Limit THEN Len(s) - Offset ELSE Limit)
  BY <1>1, <1>2, <1>4, <1>5 DEF hi
<1>7. \A i \in 1 .. Len(Cut(s)) : Offset + i \in 1 .. Len(s) /\ m + i - 1 = Offset + i
  BY <1>1, <1>2, <1>4, <1>5
<1> QED
  BY <1>5, <1>6, <1>7

LEMMA CutIsPage ==
    ASSUME TypeInv, NEW s \in Orders(Wanted)
    PROVE  IsPage(Cut(s))
<1> DEFINE n == Cardinality(Wanted)
           p == Cut(s)
           got == {p[i] : i \in DOMAIN p}
           others == Wanted \ got
           k == Len(p)
<1>1. Wanted \in SUBSET visible
  BY DEF Wanted
<1> HIDE DEF n, p, got, others, k
<1>2. /\ n \in Nat
      /\ s \in Seq(Wanted) /\ Len(s) = n
      /\ \A i \in 1 .. n : s[i] \in Wanted
      /\ \A i, j \in 1 .. n : s[i] = s[j] => i = j
      /\ \A t \in Wanted : \E i \in 1 .. n : s[i] = t
      /\ \A i, j \in 1 .. n : i <= j => created[s[i]] >= created[s[j]]
  <2>1. /\ n \in Nat
        /\ s \in [1 .. n -> Wanted]
        /\ s \in Seq(Wanted) /\ Len(s) = n
        /\ \A i, j \in 1 .. n : s[i] = s[j] => i = j
        /\ \A t \in Wanted : \E i \in 1 .. n : s[i] = t
        /\ \A i, j \in 1 .. n : i <= j => created[s[i]] >= created[s[j]]
    BY ONLY TypeInv, <1>1, s \in Orders(Wanted), OrdersList DEF n
  <2>2. \A i \in 1 .. n : s[i] \in Wanted
    BY ONLY <2>1
  <2> QED
    BY ONLY <2>1, <2>2
<1> USE DEF n, p, got, others, k
<1>3. /\ p \in Seq(Wanted) /\ DOMAIN p = 1 .. k /\ k \in Nat
      /\ k = (IF n - Offset < 0 THEN 0 ELSE IF n - Offset < Limit THEN n - Offset ELSE Limit)
      /\ \A i \in 1 .. k : Offset + i \in 1 .. n /\ p[i] = s[Offset + i]
  BY <1>2, CutIsPart
<1>4. Offset \in Nat /\ Limit \in Nat
  BY LimitsAreTyped
<1>5. \A t \in Wanted : created[t] \in Nat
  BY DEF Wanted, TypeInv
<1> HIDE DEF n, p
<1>6. got \subseteq Wanted /\ Cardinality(got) = Len(p)
  <2>1. \A i, j \in 1 .. k : p[i] = p[j] => i = j
    <3> HIDE DEF k
    <3> SUFFICES ASSUME NEW i \in 1 .. k, NEW j \in 1 .. k, p[i] = p[j]
                 PROVE  i = j
      OBVIOUS
    <3>1. Offset + i \in 1 .. n /\ Offset + j \in 1 .. n
      BY ONLY <1>3
    <3>2. s[Offset + i] = s[Offset + j]
      BY ONLY <1>3, p[i] = p[j]
    <3>3. Offset + i = Offset + j
      BY ONLY <1>2, <3>1, <3>2
    <3> QED
      BY ONLY <1>3, <1>4, <3>3
  <2>2. got = Front(p, k)
    BY <1>3 DEF Front
  <2>3. got \subseteq Wanted
    BY <1>3
  <2> HIDE DEF got, k
  <2>4. Cardinality(Front(p, k)) = k
    BY <1>3, <2>1, DistinctAreCounted
  <2>5. k = Len(p)
    BY DEF k
  <2> QED
    BY <2>2, <2>3, <2>4, <2>5
<1>7. \A i, j \in DOMAIN p : i < j => created[p[i]] >= created[p[j]]
  BY <1>2, <1>3, <1>4
<1>8. ASSUME p # <<>>
      PROVE  /\ Cardinality({t \in others : created[t] >= created[p[1]]}) >= Offset
             /\ Cardinality({t \in others : created[t] > created[p[Len(p)]]}) <= Offset
  <2> DEFINE A == {t \in others : created[t] >= created[p[1]]}
             B == {t \in others : created[t] > created[p[Len(p)]]}
             F == Front(s, Offset)
  <2>1. k >= 1 /\ Offset + k <= n
    BY <1>3, <1>4, <1>8
  <2>2. Cardinality(F) = Offset
    <3>1. \A i, j \in 1 .. Offset : s[i] = s[j] => i = j
      BY <1>2, <1>4, <2>1
    <3> QED
      BY <1>4, <3>1, DistinctAreCounted
  <2>3. F \subseteq A
    <3> SUFFICES ASSUME NEW i \in 1 .. Offset
                 PROVE  s[i] \in A
      BY DEF Front
    <3>1. i \in 1 .. n /\ i <= Offset + 1 /\ Offset + 1 \in 1 .. n /\ 1 \in 1 .. k
      BY <1>2, <1>4, <2>1
    <3>2. created[s[i]] >= created[p[1]]
      BY <1>2, <1>3, <3>1
    <3>3. \A j \in 1 .. k : Offset + j # i
      BY <1>3, <1>4
    <3>4. s[i] \notin got
      BY <1>2, <1>3, <3>1, <3>3
    <3> QED
      BY <1>2, <3>1, <3>2, <3>4
  <2>4. B \subseteq F
    <3> SUFFICES ASSUME NEW t \in B
                 PROVE  t \in F
      OBVIOUS
    <3>1. PICK j \in 1 .. n : s[j] = t
      BY <1>2
    <3>2. k \in 1 .. k /\ Offset + k \in 1 .. n /\ p[k] = s[Offset + k]
      BY <1>3, <2>1
    <3>3. created[s[j]] > created[s[Offset + k]] /\ created[s[j]] \in Nat /\ created[s[Offset + k]] \in Nat
      BY <1>2, <1>5, <3>1, <3>2
    <3>4. ~(Offset + k <= j)
      BY <1>2, <3>2, <3>3
    <3>5. \A i \in 1 .. k : j # Offset + i
      BY <1>3, <3>1
    <3>6. j \in 1 .. Offset
      <4>1. j > Offset => j - Offset \in 1 .. k /\ j = Offset + (j - Offset)
        BY <1>3, <1>4, <3>1, <3>4
      <4> QED
        BY <1>4, <3>5, <4>1
    <3> QED
      BY <3>1, <3>6 DEF Front
  <2>5. A \in SUBSET Wanted /\ F \in SUBSET Wanted
    BY <1>2, <1>4, <2>1, <2>3 DEF Front
  <2>6. F \in SUBSET visible /\ A \in SUBSET visible
    BY <1>1, <2>5
  <2> HIDE DEF A, B, F
  <2>7. Cardinality(A) >= Cardinality(F) /\ Cardinality(B) <= Cardinality(F)
    <3>1. Cardinality(F) <= Cardinality(A) /\ Cardinality(F) \in Nat /\ Cardinality(A) \in Nat
      BY <2>3, <2>6, RowsAreFinite
    <3>2. Cardinality(B) <= Cardinality(F)
      BY <2>4, <2>6, RowsAreFinite
    <3> QED
      BY <3>1, <3>2
  <2> QED
    BY <2>2, <2>7 DEF A, B
<1> QED
  BY <1>3, <1>6, <1>7, <1>8, LimitsAreAsked DEF IsPage, n, p

-----------------------------------------------------------------------------
(* The invariant of a walk.                                                *)

\* No two visible rows are of the same time.
Distinct == \A t, u \in visible : created[t] = created[u] => t = u

Newer(t) == {u \in Wanted : created[u] > created[t]}

\* Walks that start at the top of the list.
FromTheTop == \A f \in Filters : f.offset <= 0

\* Without a status filter rows never leave the list: the count is not too
\* large, and a row that was there at the start and has not been received is
\* behind the offset.
CountInv == filter.status = "" /\ pc = "page" => total \in Nat /\ total <= Cardinality(Wanted)

WalkInv ==
    FromTheTop /\ filter.status = "" =>
       /\ pc = "idle" => Offset = 0
       /\ pc # "idle" => first \subseteq Wanted
       /\ pc \in {"count", "page"} /\ Distinct =>
             \A t \in first : t \in seen \/ Cardinality(Newer(t)) >= Offset
       /\ pc = "done" /\ Distinct => first \subseteq seen

LEMMA TypeInit == Init => TypeInv
  BY FilterAssumption DEF Init, TypeInv

LEMMA PageIsCut ==
    ASSUME TypeInv, Page
    PROVE  /\ \E s \in Orders(Wanted) : page' = Cut(s)
           /\ IsPage(page')
           /\ page' \in Seq(Wanted)
<1>1. ListArgs[Len(Args) + 1] = Limit /\ ListArgs[Len(Args) + 2] = Offset
  BY Numbering
<1>2. PICK s \in Orders(Wanted) : page' = Cut(s)
  BY <1>1, SelectedIsWanted DEF Page, Cut
<1>3. s \in Seq(Wanted)
  <2>1. Wanted \in SUBSET visible
    BY DEF Wanted
  <2> QED
    BY <2>1, OrdersList
<1>4. page' \in Seq(Wanted)
  BY <1>2, <1>3, CutIsPart
<1> QED
  BY <1>2, <1>4, CutIsPage

LEMMA TypeStep == TypeInv /\ [Next]_vars => TypeInv'
<1> SUFFICES ASSUME TypeInv, [Next]_vars PROVE TypeInv'
  OBVIOUS
<1> USE DEF rows, walk
<1>1. ASSUME NEW t \in Txns, Begin(t) PROVE TypeInv'
  <2>1. \A now \in 1 .. Cardinality(Txns) : now \in Nat /\ now > 0
    OBVIOUS
  <2> QED
    BY <1>1, <2>1 DEF Begin, TypeInv
<1>2. ASSUME NEW t \in Txns, Commit(t) PROVE TypeInv'
  BY <1>2 DEF Commit, TypeInv
<1>3. ASSUME NEW t \in Txns, ChangeStatus(t) PROVE TypeInv'
  BY <1>3 DEF ChangeStatus, TypeInv
<1>4. CASE Count
  BY <1>4 DEF Count, TypeInv
<1>5. CASE Page
  <2>1. page' \in Seq(Wanted)
    BY <1>5, PageIsCut
  <2>2. Offset + Len(page') \in Int
    BY <2>1, LimitsAreTyped
  <2>3. filter' \in Filter
    BY <1>5, <2>2 DEF Page, TypeInv, Filter
  <2> QED
    BY <1>5, <2>3 DEF Page, TypeInv
<1>6. CASE UNCHANGED vars
  BY <1>6 DEF vars, TypeInv
<1> QED
  BY <1>1, <1>2, <1>3, <1>4, <1>5, <1>6 DEF Next, Finished

\* Rows that are added or flagged take none from the list and push none forward.
LEMMA TableKeeps ==
    ASSUME TypeInv, TypeInv', CountInv, WalkInv,
           NEW x \in Txns, Begin(x) \/ Commit(x) \/ ChangeStatus(x)
    PROVE  CountInv' /\ WalkInv'
<1> USE DEF rows, walk
<1>1. /\ filter' = filter /\ pc' = pc /\ total' = total /\ seen' = seen /\ first' = first
      /\ visible \subseteq visible'
  BY DEF Begin, Commit, ChangeStatus
<1>2. \A t \in visible : created'[t] = created[t]
  BY DEF TypeInv, Begin, Commit, ChangeStatus
<1> SUFFICES ASSUME filter.status = ""
             PROVE  CountInv' /\ WalkInv'
  BY <1>1 DEF CountInv, WalkInv
<1>3. Wanted \subseteq Wanted'
  BY <1>1 DEF Wanted
<1>4. Wanted' \in SUBSET visible' /\ Wanted \in SUBSET visible'
  BY <1>3 DEF Wanted
<1>5. Distinct' => Distinct
  BY <1>1, <1>2 DEF Distinct
<1>6. Offset' = Offset /\ Offset \in Nat
  BY <1>1, LimitsAreTyped DEF Offset
<1>7. RowsFinite(visible')
  <2>1. visible' \subseteq Txns
    BY DEF TypeInv
  <2> QED
    BY <2>1, RowsAreSized
<1>8. /\ Cardinality(Wanted) \in Nat /\ Cardinality(Wanted') \in Nat
      /\ Cardinality(Wanted) <= Cardinality(Wanted')
  BY <1>3, <1>4, <1>7 DEF RowsFinite
<1>9. ASSUME NEW t \in Wanted
      PROVE  Cardinality(Newer(t)) >= Offset => Cardinality(Newer(t)') >= Offset
  <2>1. Newer(t) \subseteq Newer(t)'
    BY <1>2, <1>3 DEF Newer, Wanted
  <2>2. Newer(t)' \in SUBSET visible' /\ Newer(t) \in SUBSET visible'
    BY <1>4, <2>1 DEF Newer
  <2>3. /\ Cardinality(Newer(t)) \in Nat /\ Cardinality(Newer(t)') \in Nat
        /\ Cardinality(Newer(t)) <= Cardinality(Newer(t)')
    BY <1>7, <2>1, <2>2 DEF RowsFinite
  <2> QED
    BY ONLY <1>6, <2>3
<1>10. CountInv'
  <2> SUFFICES ASSUME pc = "page"
               PROVE  total' \in Nat /\ total' <= Cardinality(Wanted')
    BY <1>1 DEF CountInv
  <2>1. total \in Nat /\ total <= Cardinality(Wanted) /\ total' = total
    BY <1>1 DEF CountInv
  <2> QED
    BY ONLY <1>8, <2>1
<1>11. WalkInv'
  BY <1>1, <1>3, <1>5, <1>6, <1>9 DEF WalkInv
<1> QED
  BY <1>10, <1>11

\* The count of the first request also fixes what the walk has to find.
LEMMA CountKeeps ==
    ASSUME TypeInv, CountInv, WalkInv, Count
    PROVE  CountInv' /\ WalkInv'
<1> USE DEF rows, walk
<1>1. /\ created' = created /\ visible' = visible /\ status' = status
      /\ filter' = filter /\ seen' = seen
      /\ pc \in {"idle", "count"} /\ pc' = "page"
      /\ total' = Cardinality(Wanted)
      /\ first' = IF pc = "idle" THEN Wanted ELSE first
  BY SelectedIsWanted DEF Count
<1>2. Wanted' = Wanted /\ Offset' = Offset /\ Distinct' = Distinct /\ \A t : Newer(t)' = Newer(t)
  BY <1>1 DEF Wanted, Offset, Distinct, Newer
<1>3. Wanted \in SUBSET visible
  BY DEF Wanted
<1>4. Cardinality(Wanted) \in Nat
  BY <1>3, RowsAreFinite
<1>5. CountInv'
  <2>1. total' \in Nat /\ total' <= Cardinality(Wanted')
    <3>1. total' = Cardinality(Wanted) /\ Wanted' = Wanted
      BY <1>1, <1>2
    <3> QED
      BY ONLY <1>4, <3>1
  <2> QED
    BY <2>1 DEF CountInv
<1>6. \A t : Offset = 0 => Cardinality(Newer(t)) >= Offset
  <2> SUFFICES ASSUME NEW t, Offset = 0
               PROVE  Cardinality(Newer(t)) >= Offset
    OBVIOUS
  <2>1. Newer(t) \in SUBSET visible
    BY <1>3 DEF Newer
  <2>2. Cardinality(Newer(t)) \in Nat /\ Offset = 0
    BY <2>1, RowsAreFinite
  <2> QED
    BY ONLY <2>2
<1>7. WalkInv'
  <2> SUFFICES ASSUME FromTheTop, filter.status = ""
               PROVE  /\ first' \subseteq Wanted
                      /\ Distinct => \A t \in first' : t \in seen \/ Cardinality(Newer(t)) >= Offset
    BY <1>1, <1>2 DEF WalkInv
  <2>1. CASE pc = "idle"
    <3>1. first' = Wanted /\ Offset = 0
      BY <1>1, <2>1 DEF WalkInv
    <3> QED
      BY <1>6, <3>1
  <2>2. CASE pc = "count"
    <3>1. first' = first
      BY <1>1, <2>2
    <3> QED
      BY <2>2, <3>1 DEF WalkInv
  <2> QED
    BY <1>1, <2>1, <2>2
<1> QED
  BY <1>5, <1>7

\* What a page does not return is behind the next offset.
LEMMA PageKeeps ==
    ASSUME TypeInv, WalkInv, Page
    PROVE  CountInv' /\ WalkInv'
<1> USE DEF rows, walk
<1>1. PICK s \in Orders(Wanted) : page' = Cut(s)
  BY PageIsCut
<1> DEFINE n == Cardinality(Wanted)
           p == Cut(s)
           k == Len(p)
<1>2. /\ created' = created /\ visible' = visible /\ status' = status /\ first' = first
      /\ pc = "page" /\ pc' = (IF p = <<>> THEN "done" ELSE "count")
      /\ seen' = seen \union {p[i] : i \in DOMAIN p}
      /\ filter' = [filter EXCEPT !.offset = Offset + k]
  BY <1>1 DEF Page
<1>3. Offset \in Nat
  BY LimitsAreTyped
<1>4. Wanted \in SUBSET visible
  BY DEF Wanted
<1>5. /\ n \in Nat
      /\ s \in Seq(Wanted) /\ Len(s) = n
      /\ \A i \in 1 .. n : s[i] \in Wanted
      /\ \A i, j \in 1 .. n : s[i] = s[j] => i = j
      /\ \A t \in Wanted : \E i \in 1 .. n : s[i] = t
      /\ \A i, j \in 1 .. n : i <= j => created[s[i]] >= created[s[j]]
  BY <1>4, OrdersList
<1>6. /\ p \in Seq(Wanted) /\ DOMAIN p = 1 .. k /\ k \in Nat
      /\ k = (IF n - Offset < 0 THEN 0 ELSE IF n - Offset < Limit THEN n - Offset ELSE Limit)
      /\ \A i \in 1 .. k : Offset + i \in 1 .. n /\ p[i] = s[Offset + i]
  BY <1>5, CutIsPart
<1>7. \A t \in Wanted : created[t] \in Nat
  BY DEF Wanted, TypeInv
<1>8. /\ filter'.status = filter.status /\ filter'.text = filter.text
      /\ filter'.users = filter.users /\ filter'.offset = Offset + k
  BY <1>2 DEF TypeInv, Filter
<1>9. /\ Wanted' = Wanted /\ Distinct' = Distinct /\ \A t : Newer(t)' = Newer(t)
  BY <1>2, <1>8 DEF Wanted, Distinct, Newer
<1>10. Offset' = Offset + k
  BY <1>3, <1>6, <1>8 DEF Offset
<1> HIDE DEF n, p
<1>11. ASSUME Distinct, NEW t \in Wanted, Cardinality(Newer(t)) >= Offset, t \notin seen'
       PROVE  Cardinality(Newer(t)) >= Offset + k /\ p # <<>>
  <2>1. PICK j \in 1 .. n : s[j] = t
    BY <1>5
  <2> DEFINE F == Front(s, j - 1)
  <2>2. j - 1 \in Nat
    BY <1>5
  <2>3. Cardinality(F) = j - 1
    <3>1. \A i, m \in 1 .. j - 1 : s[i] = s[m] => i = m
      BY <1>5
    <3> QED
      BY <2>2, <3>1, DistinctAreCounted
  <2>4. Newer(t) \subseteq F
    <3> SUFFICES ASSUME NEW u \in Newer(t)
                 PROVE  u \in F
      OBVIOUS
    <3>1. PICK i \in 1 .. n : s[i] = u
      BY <1>5 DEF Newer
    <3>2. created[s[i]] > created[s[j]] /\ created[s[i]] \in Nat /\ created[s[j]] \in Nat
      BY <1>7, <2>1, <3>1 DEF Newer
    <3>3. ~(j <= i)
      BY <1>5, <3>2
    <3>4. i \in 1 .. j - 1
      BY <1>5, <3>3
    <3> QED
      BY <3>1, <3>4 DEF Front
  <2>5. F \subseteq Newer(t)
    <3> SUFFICES ASSUME NEW i \in 1 .. j - 1
                 PROVE  s[i] \in Newer(t)
      BY DEF Front
    <3>1. i \in 1 .. n /\ i <= j /\ i # j
      BY <1>5
    <3>2. s[i] \in Wanted /\ created[s[i]] >= created[s[j]] /\ s[i] # s[j]
      BY <1>5, <3>1
    <3>3. created[s[i]] # created[s[j]]
      BY <1>4, <1>11, <2>1, <3>2 DEF Distinct
    <3> QED
      BY <1>7, <2>1, <3>2, <3>3 DEF Newer
  <2>6. Newer(t) = F
    BY <2>4, <2>5
  <2>7. j - 1 >= Offset
    <3> HIDE DEF F
    <3> QED
      BY <1>11, <2>3, <2>6
  <2>8. \A i \in 1 .. k : j # Offset + i
    BY <1>2, <1>6, <1>11, <2>1
  <2>9. j > Offset + k
    <3>1. j <= Offset + k => j - Offset \in 1 .. k /\ j = Offset + (j - Offset)
      BY <1>3, <1>6, <2>7
    <3> QED
      BY <1>3, <1>6, <2>8, <3>1
  <2>10. p # <<>>
    <3>1. k # 0
      BY <1>3, <1>5, <1>6, <2>9, LimitsAreTyped
    <3> QED
      BY <1>6, <3>1
  <2>11. j - 1 >= Offset + k
    BY <1>3, <1>6, <2>9
  <2> HIDE DEF F, k
  <2> QED
    BY <2>3, <2>6, <2>10, <2>11
<1>12. CountInv'
  BY <1>2 DEF CountInv
<1>13. WalkInv'
  <2> HIDE DEF k
  <2> SUFFICES ASSUME FromTheTop, filter.status = ""
               PROVE  /\ first \subseteq Wanted
                      /\ p # <<>> /\ Distinct =>
                            \A t \in first : t \in seen' \/ Cardinality(Newer(t)) >= Offset + k
                      /\ p = <<>> /\ Distinct => first \subseteq seen'
    BY <1>2, <1>8, <1>9, <1>10 DEF WalkInv
  <2>1. first \subseteq Wanted
    BY <1>2 DEF WalkInv
  <2>2. Distinct => \A t \in first : t \in seen' \/ Cardinality(Newer(t)) >= Offset
    BY <1>2 DEF WalkInv
  <2> QED
    BY <1>11, <2>1, <2>2
<1> QED
  BY <1>12, <1>13

LEMMA WalkInit == Init => CountInv /\ WalkInv
<1> SUFFICES ASSUME Init PROVE CountInv /\ WalkInv
  OBVIOUS
<1>1. filter \in Filters /\ pc = "idle"
  BY DEF Init
<1>2. FromTheTop => Offset = 0
  <2>1. FromTheTop => filter.offset \in Int /\ filter.offset <= 0
    BY <1>1, FilterAssumption DEF FromTheTop, Filter
  <2> QED
    BY ONLY <2>1 DEF Offset
<1> QED
  BY <1>1, <1>2 DEF CountInv, WalkInv

LEMMA StutterKeeps == UNCHANGED vars => (CountInv => CountInv') /\ (WalkInv => WalkInv')
  BY DEF vars, rows, walk, CountInv, WalkInv, Offset, Wanted, Distinct, Newer

LEMMA WalkStep ==
    ASSUME TypeInv, CountInv, WalkInv, [Next]_vars
    PROVE  CountInv' /\ WalkInv'
<1>1. TypeInv'
  BY TypeStep
<1> QED
  BY <1>1, TableKeeps, CountKeeps, PageKeeps, StutterKeeps DEF Next, Finished

-----------------------------------------------------------------------------
(* The theorems.                                                           *)

\* A walk from the top of the list, without a status filter and with no two rows
\* of the same time, has received at its end every row that was there at its
\* start, whatever commits meanwhile.
THEOREM NoRowIsMissed == ASSUME FromTheTop PROVE Spec => []NothingMissed
<1>1. TypeInv /\ WalkInv => NothingMissed
  BY DEF WalkInv, NothingMissed, Distinct
<1> QED
  BY <1>1, TypeInit, TypeStep, WalkInit, WalkStep, PTL DEF Spec

\* Every page is the part of the list that was asked for, whichever filters are
\* set, and without a status filter the total with it is not too large.
THEOREM PagesAreRight == Spec => PageIsRight
<1>1. ASSUME TypeInv, CountInv, [Next]_vars, pc = "page", pc' # "page"
      PROVE  IsPage(page') /\ (filter.status = "" => total <= Cardinality(Wanted))
  <2>1. Page
    BY <1>1 DEF Next, Begin, Commit, ChangeStatus, Count, Finished, vars, rows, walk
  <2> QED
    BY <1>1, <2>1, PageIsCut DEF CountInv
<1>2. TypeInv /\ CountInv /\ [Next]_vars
        => [pc = "page" /\ pc' # "page" =>
              IsPage(page') /\ (filter.status = "" => total <= Cardinality(Wanted))]_vars
  BY <1>1
<1> QED
  BY <1>2, TypeInit, TypeStep, WalkInit, WalkStep, PTL DEF Spec, PageIsRight
=============================================================================
