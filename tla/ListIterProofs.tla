--------------------------- MODULE ListIterProofs ---------------------------
(* The list iterators yield in order, each item once and none of those that *)
(* were listed all the time left out, for a list and pages of any size.     *)
EXTENDS ListIter, FiniteSetTheorems, WellFoundedInduction, TLAPS

-----------------------------------------------------------------------------
(* The ends of a set of positions.                                         *)

\* A set of numbers has a least one.
LEMMA LeastExists ==
  ASSUME NEW S \in SUBSET Nat, S # {}
  PROVE  \E x \in S : \A y \in S : x <= y
<1>1. PICK x \in S : \A y \in S : ~ (<<y, x>> \in OpToRel(<, Nat))
  BY NatLessThanWellFounded, WFMin
<1>2. \A y \in S : ~ (y < x)
  BY <1>1 DEF OpToRel
<1> QED
  BY <1>2

LEMMA MinIsLeast ==
  ASSUME NEW S \in SUBSET Nat, S # {}
  PROVE  Min(S) \in S /\ \A y \in S : Min(S) <= y
  BY LeastExists DEF Min

\* A set of positions has a greatest one.
LEMMA MaxIsGreatest ==
  ASSUME NEW S \in SUBSET (1 .. N), S # {}
  PROVE  Max(S) \in S /\ \A y \in S : y <= Max(S)
<1> DEFINE T == {N - y : y \in S}
<1>1. N \in Nat /\ \A y \in S : y \in 1 .. N /\ N - y \in Nat
  BY ListAssumption
<1>2. T \in SUBSET Nat /\ T # {}
  BY <1>1
<1>3. PICK t \in T : \A u \in T : t <= u
  BY <1>2, LeastExists
<1>4. PICK x \in S : t = N - x
  OBVIOUS
<1>5. \A y \in S : N - y \in T /\ x >= y
  BY <1>1, <1>3, <1>4
<1> QED
  BY <1>5 DEF Max

-----------------------------------------------------------------------------
(* The pages of the service.                                               *)

\* The query carries the cursor and a size of at least one (file_list.go:30-36,
\* 111-119).
LEMMA QueryParams ==
  ASSUME TypeOK
  PROVE  /\ Param(Query, "cursor", 0) = cursor
         /\ Param(Query, "limit", DefaultSize) \in Nat \ {0}
<1>1. /\ N \in Nat /\ cursor \in 0 .. N /\ batch \in 0 .. N /\ DefaultSize \in Nat \ {0}
  BY ListAssumption DEF TypeOK
<1>2. \A v \in 1 .. N : <<"cursor", v>> \in Query <=> v = cursor
  BY <1>1 DEF Query
<1>3. \A v \in 1 .. N : <<"limit", v>> \in Query <=> v = batch
  BY <1>1 DEF Query
<1>4. Param(Query, "cursor", 0) = cursor
  <2>1. CASE cursor = 0
    BY <1>2, <2>1 DEF Param
  <2>2. CASE cursor # 0
    BY <1>1, <1>2, <2>2 DEF Param
  <2> QED
    BY <2>1, <2>2
<1>5. Param(Query, "limit", DefaultSize) \in Nat \ {0}
  <2>1. CASE batch = 0
    <3>1. ASSUME NEW v \in 1 .. N
          PROVE  <<"limit", v>> \notin Query
      <4>1. v # batch
        BY <1>1, <2>1
      <4> QED
        BY <1>3, <4>1
    <3> QED
      BY <1>1, <3>1 DEF Param
  <2>2. CASE batch # 0
    BY <1>1, <1>3, <2>2 DEF Param
  <2> QED
    BY <2>1, <2>2
<1> QED
  BY <1>4, <1>5

\* A page is the first part of what is listed after the cursor, and empty only if
\* nothing is.
LEMMA PageIsFirstPart ==
  ASSUME TypeOK
  PROVE  /\ After(Query) = {i \in listed : i > cursor}
         /\ PageOf(Query) \subseteq After(Query)
         /\ After(Query) \in SUBSET (1 .. N)
         /\ \A i \in After(Query), k \in PageOf(Query) : i <= k => i \in PageOf(Query)
         /\ After(Query) # {} => PageOf(Query) # {}
<1> DEFINE A == After(Query)
           below(k) == {j \in A : j <= k}
           limit == Param(Query, "limit", DefaultSize)
<1>1. A = {i \in listed : i > cursor} /\ limit \in Nat \ {0}
  BY QueryParams DEF After
<1>3. PageOf(Query) = {i \in A : Cardinality(below(i)) <= limit}
  BY DEF PageOf
<1> HIDE DEF A, limit
<1>2. A \in SUBSET (1 .. N) /\ A \in SUBSET Nat
  <2>1. listed \subseteq 1 .. N /\ N \in Nat
    BY ListAssumption DEF TypeOK
  <2>2. A \subseteq listed
    BY <1>1
  <2> QED
    BY <2>1, <2>2
<1>4. \A k \in A : IsFiniteSet(below(k)) /\ Cardinality(below(k)) \in Nat
  <2> TAKE k \in A
  <2>1. N \in Int /\ 1 \in Int
    BY ListAssumption
  <2>2. IsFiniteSet(1 .. N)
    BY <2>1, FS_Interval
  <2>3. below(k) \subseteq 1 .. N
    BY <1>2
  <2>4. IsFiniteSet(below(k))
    BY <2>2, <2>3, FS_Subset
  <2> QED
    BY <2>4, FS_CardinalityType
<1>5. \A i \in A, k \in PageOf(Query) : i <= k => i \in PageOf(Query)
  <2> SUFFICES ASSUME NEW i \in A, NEW k \in PageOf(Query), i <= k
               PROVE  i \in PageOf(Query)
    OBVIOUS
  <2>1. k \in A /\ Cardinality(below(k)) <= limit
    BY <1>3
  <2>2. below(i) \subseteq below(k)
    <3>1. i \in Nat /\ k \in Nat /\ \A j \in A : j \in Nat
      BY <1>2, <2>1
    <3>2. \A j \in A : j <= i => j <= k
      BY <3>1
    <3> QED
      BY <3>2
  <2>3. Cardinality(below(i)) <= Cardinality(below(k))
    BY <1>4, <2>1, <2>2, FS_Subset
  <2> QED
    <3>1. limit \in Int /\ Cardinality(below(i)) \in Int /\ Cardinality(below(k)) \in Int
      BY <1>1, <1>4, <2>1
    <3> QED
      BY <1>3, <2>1, <2>3, <3>1
<1>6. A # {} => PageOf(Query) # {}
  <2> SUFFICES ASSUME A # {} PROVE PageOf(Query) # {}
    OBVIOUS
  <2> DEFINE m == Min(A)
  <2>1. m \in A /\ \A y \in A : m <= y
    BY <1>2, MinIsLeast
  <2> HIDE DEF m
  <2>2. below(m) = {m}
    <3>1. m \in Nat /\ \A j \in A : j \in Nat
      BY <1>2, <2>1
    <3>2. \A j \in A : j <= m => j = m
      BY <2>1, <3>1
    <3>3. m <= m
      BY <3>1
    <3> QED
      BY <2>1, <3>2, <3>3
  <2>3. Cardinality(below(m)) = 1
    BY <2>2, FS_Singleton
  <2> QED
    BY <1>1, <1>3, <2>1, <2>3
<1> QED
  BY <1>1, <1>2, <1>3, <1>5, <1>6 DEF A

\* What a fetch leaves: a cursor beyond the page, and nothing listed between the
\* two cursors that the page has not got.
LEMMA FetchedPage ==
  ASSUME TypeOK, Fetch
  PROVE  /\ page' \subseteq {i \in listed : i > cursor} /\ page' \subseteq 1 .. N
         /\ next' \in 0 .. N /\ more' \in BOOLEAN
         /\ more' => next' \in page' /\ \A i \in page' : i <= next'
         /\ \A i \in listed : i > cursor /\ (more' => i <= next') => i \in page'
<1> DEFINE P == PageOf(Query)
           A == After(Query)
<1>1. /\ page' = P /\ more' \in BOOLEAN
      /\ more' => next' = Max(P)
      /\ ~more' => P = A /\ next' = 0
  BY DEF Fetch
<1>a. more' => P # A
  BY DEF Fetch
<1>2. /\ A = {i \in listed : i > cursor} /\ P \subseteq A /\ A \in SUBSET (1 .. N)
      /\ \A i \in A, k \in P : i <= k => i \in P
      /\ A # {} => P # {}
  BY PageIsFirstPart
<1> HIDE DEF P, A
<1>3. CASE more'
  <2>1. P # {} /\ P \in SUBSET (1 .. N)
    BY <1>a, <1>2, <1>3
  <2>2. Max(P) \in P /\ \A y \in P : y <= Max(P)
    BY <2>1, MaxIsGreatest
  <2>3. Max(P) \in 0 .. N /\ P \subseteq 1 .. N
    <3>1. \A i \in 1 .. N : i \in 0 .. N
      BY ListAssumption
    <3> QED
      BY <2>1, <2>2, <3>1
  <2> QED
    BY <1>1, <1>2, <1>3, <2>2, <2>3
<1>4. CASE ~more'
  BY <1>1, <1>2, <1>4, ListAssumption
<1> QED
  BY <1>1, <1>3, <1>4

-----------------------------------------------------------------------------
\* Every variable keeps its type.
LEMMA NextTypeOK ==
  ASSUME TypeOK, [Next]_vars
  PROVE  TypeOK'
<1> USE ListAssumption DEF TypeOK
<1>1. CASE Fetch
  BY <1>1, FetchedPage DEF Fetch, service
<1>2. CASE FetchFails
  BY <1>2 DEF FetchFails, service, response
<1>3. CASE Item
  <2>1. Min(page) \in page
    BY <1>3, MinIsLeast DEF Item
  <2>2. Min(page) \in 0 .. N
    <3>1. \A i \in 1 .. N : i \in 0 .. N
      OBVIOUS
    <3> QED
      BY <2>1, <3>1
  <2>3. Append(got, Min(page)) \in Seq(0 .. N)
    BY <2>2
  <2> QED
    BY <1>3, <2>3 DEF Item, service
<1>4. CASE EndOfPage
  BY <1>4 DEF EndOfPage, service, response
<1>5. ASSUME NEW i \in 1 .. N, Insert(i)
      PROVE  TypeOK'
  BY <1>5 DEF Insert, response
<1>6. ASSUME NEW i \in 1 .. N, Delete(i)
      PROVE  TypeOK'
  BY <1>6 DEF Delete, response
<1>7. CASE UNCHANGED vars
  BY <1>7 DEF vars, service, response
<1> QED
  BY <1>1, <1>2, <1>3, <1>4, <1>5, <1>6, <1>7 DEF Next, Iterator, Others

\* What was yielded after one more yield.
LEMMA YieldOne ==
  ASSUME got \in Seq(0 .. N), NEW x \in 0 .. N, got' = Append(got, x)
  PROVE  /\ Len(got') = Len(got) + 1 /\ Len(got) \in Nat
         /\ \A k \in 1 .. Len(got) : got'[k] = got[k]
         /\ got'[Len(got')] = x
         /\ \A i : Yielded(i) \/ i = x => Yielded(i)'
<1>1. /\ Len(got') = Len(got) + 1 /\ Len(got) \in Nat
      /\ \A k \in 1 .. Len(got) : got'[k] = got[k]
      /\ got'[Len(got')] = x
  OBVIOUS
<1> QED
  BY <1>1 DEF Yielded

\* Every step keeps the order of what was yielded, and leaves nothing out.
LEMMA NextListInv ==
  ASSUME TypeOK, ListInv, [Next]_vars
  PROVE  ListInv'
<1>0. /\ N \in Nat /\ got \in Seq(0 .. N) /\ cursor \in 0 .. N /\ next \in 0 .. N
      /\ page \subseteq 1 .. N /\ stable \subseteq listed /\ listed \subseteq 1 .. N
      /\ Len(got) \in Nat /\ \A k \in 1 .. Len(got) : got[k] \in 0 .. N
  BY ListAssumption DEF TypeOK
<1>1. CASE Fetch
  <2>1. /\ ipc = "fetch" /\ ipc' = "items" /\ got' = got /\ stable' = stable /\ left' = left
    BY <1>1 DEF Fetch, service
  <2>2. \A k \in 1 .. Len(got), i \in page' : got[k] < i
    BY <1>0, <1>1, <2>1, FetchedPage DEF ListInv
  <2>3. more' => /\ \A i \in page' : i <= next'
                 /\ \A k \in 1 .. Len(got) : got[k] <= next'
    BY <1>0, <1>1, <2>2, FetchedPage
  <2>4. \A i \in stable : (more' => i <= next') => i \in page' \/ Yielded(i)
    BY <1>0, <1>1, <2>1, FetchedPage DEF ListInv
  <2>5. \A i : Yielded(i)' <=> Yielded(i)
    BY <2>1 DEF Yielded
  <2> QED
    BY <2>1, <2>2, <2>3, <2>4, <2>5 DEF ListInv, NothingSkipped
<1>2. CASE FetchFails
  <2>1. /\ ipc = "fetch" /\ ipc' = "done" /\ got' = Append(got, 0)
    BY <1>2 DEF FetchFails
  <2>2. /\ Len(got') = Len(got) + 1
        /\ \A k \in 1 .. Len(got) : got'[k] = got[k]
        /\ got'[Len(got')] = 0
    BY <1>0, <2>1, YieldOne
  <2>3. ~ \A k \in 1 .. Len(got') : got'[k] # 0
    BY <1>0, <2>2
  <2> QED
    BY <1>0, <2>1, <2>2, <2>3 DEF ListInv, NothingSkipped
<1>3. CASE Item
  <2> DEFINE m == Min(page)
  <2>1. /\ ipc = "items" /\ page # {} /\ got' = Append(got, m) /\ page' = page \ {m}
        /\ next' = next /\ more' = more /\ stable' = stable /\ ipc' \in {"items", "done"}
        /\ ipc' # "done" => ~left'
        /\ ipc' = "done" => left'
    BY <1>3 DEF Item, service
  <2>2. m \in page /\ m \in 1 .. N /\ \A i \in page : m <= i
    <3>1. page \in SUBSET Nat
      BY <1>0
    <3>2. m \in page /\ \A i \in page : m <= i
      BY <2>1, <3>1, MinIsLeast
    <3> QED
      BY <1>0, <3>2
  <2> HIDE DEF m
  <2>3. /\ Len(got') = Len(got) + 1
        /\ \A k \in 1 .. Len(got) : got'[k] = got[k]
        /\ got'[Len(got')] = m
        /\ \A i : Yielded(i) \/ i = m => Yielded(i)'
    BY <1>0, <2>1, <2>2, YieldOne
  <2>4. \A k \in 1 .. Len(got') : got'[k] # 0
    BY <1>0, <2>1, <2>2, <2>3 DEF ListInv
  <2>5. \A j, k \in 1 .. Len(got') : j < k => got'[j] < got'[k]
    <3>1. \A j \in 1 .. Len(got) : got[j] # 0 /\ got[j] < m
      BY <2>1, <2>2 DEF ListInv
    <3>2. \A j, k \in 1 .. Len(got) : j < k => got[j] < got[k]
      BY <3>1 DEF ListInv
    <3> SUFFICES ASSUME NEW j \in 1 .. Len(got'), NEW k \in 1 .. Len(got'), j < k
                 PROVE  got'[j] < got'[k]
      OBVIOUS
    <3>3. j \in 1 .. Len(got) /\ (k \in 1 .. Len(got) \/ k = Len(got'))
      BY <1>0, <2>3
    <3> QED
      BY <2>3, <3>1, <3>2, <3>3
  <2>6. /\ \A k \in 1 .. Len(got'), i \in page' : got'[k] < i
        /\ more => \A k \in 1 .. Len(got') : got'[k] <= next
    BY <1>0, <2>1, <2>2, <2>3 DEF ListInv
  <2>7. \A i \in stable : (more => i <= next) => i \in page' \/ Yielded(i)'
    BY <2>1, <2>3 DEF ListInv
  <2> QED
    BY <2>1, <2>4, <2>5, <2>6, <2>7 DEF ListInv, NothingSkipped
<1>4. CASE EndOfPage
  <2>1. /\ ipc = "items" /\ page = {} /\ cursor' = next /\ got' = got /\ stable' = stable
        /\ left' = left /\ ipc' = IF more THEN "fetch" ELSE "done"
    BY <1>4 DEF EndOfPage, service
  <2>2. \A i : Yielded(i)' <=> Yielded(i)
    BY <2>1 DEF Yielded
  <2>3. \A k \in 1 .. Len(got) : got[k] # 0
    BY <2>1 DEF ListInv
  <2>4. ~more => \A i \in stable : Yielded(i)
    BY <2>1 DEF ListInv
  <2>5. NothingSkipped'
    BY <1>0, <2>1, <2>3, <2>4 DEF NothingSkipped, Items, Yielded
  <2> QED
    BY <2>1, <2>2, <2>3, <2>5 DEF ListInv
<1>5. CASE Others
  <2>1. /\ UNCHANGED <<batch, ipc, cursor, page, next, more, got, left>>
        /\ stable' \subseteq stable
    BY <1>5 DEF Others, Insert, Delete, response
  <2>2. \A i : Yielded(i)' <=> Yielded(i)
    BY <2>1 DEF Yielded
  <2>3. NothingSkipped'
    BY <2>1 DEF ListInv, NothingSkipped, Items
  <2> QED
    BY <2>1, <2>2, <2>3 DEF ListInv
<1>6. CASE UNCHANGED vars
  <2>1. /\ UNCHANGED <<ipc, cursor, page, next, more, got, left, stable>>
    BY <1>6 DEF vars, service, response
  <2>2. \A i : Yielded(i)' <=> Yielded(i)
    BY <2>1 DEF Yielded
  <2> QED
    BY <2>1, <2>2 DEF ListInv, NothingSkipped, Items
<1> QED
  BY <1>1, <1>2, <1>3, <1>4, <1>5, <1>6 DEF Next, Iterator

LEMMA Invariance == Spec => [](TypeOK /\ ListInv)
<1>1. Init => TypeOK /\ ListInv
  <2> SUFFICES ASSUME Init PROVE TypeOK /\ ListInv
    OBVIOUS
  <2>1. N \in Nat /\ got = <<>> /\ Len(got) = 0
    BY ListAssumption DEF Init
  <2>2. TypeOK
    <3>1. got \in Seq(0 .. N) /\ 0 \in 0 .. N
      BY <2>1
    <3>2. fresh \subseteq 1 .. N /\ listed \cap fresh = {} /\ listed \subseteq 1 .. N
      BY DEF Init
    <3> QED
      BY <3>1, <3>2 DEF Init, TypeOK
  <2>3. ListInv
    <3>1. \A i \in stable : i > 0
      BY <2>1 DEF Init
    <3> QED
      BY <2>1, <3>1 DEF Init, ListInv, NothingSkipped
  <2> QED
    BY <2>2, <2>3
<1>2. TypeOK /\ ListInv /\ [Next]_vars => (TypeOK /\ ListInv)'
  BY NextTypeOK, NextListInv
<1> QED
  BY <1>1, <1>2, PTL DEF Spec

\* Every variable of an iteration keeps its type; the cursor stays a position of
\* the list (file_list.go:30-50).
THEOREM TypeCorrect == Spec => []TypeOK
  BY Invariance, PTL

\* Items come in order, each once, and an error last (file_list.go:37-48).
THEOREM OrderedOnce == Spec => []InOrderOnce
<1>1. TypeOK /\ ListInv => InOrderOnce
  BY DEF TypeOK, ListInv, InOrderOnce, Items
<1> QED
  BY <1>1, Invariance, PTL

\* An iteration that ends by itself has left out no item that was listed all the
\* time (file_list.go:46-50).
THEOREM Complete == Spec => []NothingSkipped
<1>1. ListInv => NothingSkipped
  BY DEF ListInv
<1> QED
  BY <1>1, Invariance, PTL

-----------------------------------------------------------------------------
\* The last item that was yielded, and the steps an iteration can still take: each
\* item it may still meet costs its own step and, if it ends a page, two more.
Reached == IF got = <<>> THEN 0 ELSE got[Len(got)]
StepsLeft ==
  CASE ipc = "done"  -> 0
    [] ipc = "fetch" -> 3 * (N - Reached) + 2
    [] ipc = "items" -> 3 * (N - Reached) + (IF page = {} /\ more THEN 3 ELSE 1)

StepsAreNats == Reached \in 0 .. N /\ StepsLeft \in Nat

LEMMA StepsType == TypeOK => StepsAreNats
<1> SUFFICES ASSUME TypeOK PROVE StepsAreNats
  OBVIOUS
<1>1. N \in Nat
  BY ListAssumption
<1>2. Reached \in 0 .. N
  <2>1. CASE got = <<>>
    BY <1>1, <2>1 DEF Reached
  <2>2. CASE got # <<>>
    <3>1. \A k \in 1 .. Len(got) : got[k] \in 0 .. N
      BY <1>1 DEF TypeOK
    <3>2. Len(got) \in 1 .. Len(got)
      BY <2>2 DEF TypeOK
    <3> QED
      BY <2>2, <3>1, <3>2 DEF Reached
  <2> QED
    BY <2>1, <2>2
<1> QED
  BY <1>1, <1>2 DEF StepsLeft, StepsAreNats, TypeOK

LEMMA StepsTypeNext == TypeOK' => StepsAreNats'
BY StepsType, PTL

LEMMA StepIsTaken ==
  ASSUME TypeOK, ListInv, TypeOK', Iterator
  PROVE  StepsLeft' < StepsLeft
<1>1. /\ N \in Nat /\ Reached \in 0 .. N /\ Reached' \in 0 .. N
      /\ got \in Seq(0 .. N) /\ Len(got) \in Nat /\ page \subseteq 1 .. N
  BY SMTT(30), ListAssumption, StepsType, StepsTypeNext DEF TypeOK, StepsAreNats
<1>2. got' = got => Reached' = Reached
  BY DEF Reached
<1> HIDE DEF Reached
<1>3. CASE Fetch
  <2>1. /\ ipc = "fetch" /\ ipc' = "items" /\ Reached' = Reached
        /\ ~(page' = {} /\ more')
    BY <1>2, <1>3, FetchedPage DEF Fetch
  <2> QED
    BY <1>1, <2>1 DEF StepsLeft
<1>4. CASE FetchFails
  BY <1>1, <1>4 DEF FetchFails, StepsLeft
<1>5. CASE Item
  <2> DEFINE m == Min(page)
  <2>1. m \in page /\ m \in 1 .. N
    <3>1. page # {} /\ page \in SUBSET Nat
      BY <1>1, <1>5 DEF Item
    <3> QED
      BY <1>1, <3>1, MinIsLeast
  <2>2. ipc = "items" /\ got' = Append(got, m) /\ ipc' \in {"items", "done"} /\ page # {}
    BY <1>5 DEF Item
  <2> HIDE DEF m
  <2>3. Reached' = m
    <3>1. m \in 0 .. N
      BY <1>1, <2>1
    <3>2. got' # <<>> /\ got'[Len(got')] = m
      BY <1>1, <2>2, <3>1
    <3> QED
      BY <3>2 DEF Reached
  <2>4. Reached < m
    <3>1. CASE got = <<>>
      BY <2>1, <3>1 DEF Reached
    <3>2. CASE got # <<>>
      <4>1. Len(got) \in 1 .. Len(got)
        BY <1>1, <3>2
      <4>2. got[Len(got)] < m
        BY <2>1, <2>2, <4>1 DEF ListInv
      <4> QED
        BY <3>2, <4>2 DEF Reached
    <3> QED
      BY <3>1, <3>2
  <2> QED
    BY <1>1, <2>1, <2>2, <2>3, <2>4 DEF StepsLeft
<1>6. CASE EndOfPage
  BY <1>1, <1>2, <1>6 DEF EndOfPage, StepsLeft
<1> QED
  BY <1>3, <1>4, <1>5, <1>6 DEF Iterator

\* An iteration of a list of N items takes at most 3N + 2 steps of its own, however
\* many items others insert and delete between two list calls (file_list.go:30-51, parse_list.go:28-52).
THEOREM StepsAreBounded ==
  Spec => [][/\ Iterator => StepsLeft' \in Nat /\ StepsLeft' < StepsLeft
             /\ Others => StepsLeft' = StepsLeft]_vars
<1> DEFINE Bounded == /\ Iterator => StepsLeft' \in Nat /\ StepsLeft' < StepsLeft
                      /\ Others => StepsLeft' = StepsLeft
<1>1. TypeOK /\ ListInv /\ TypeOK' /\ [Next]_vars => Bounded
  <2>1. Others => StepsLeft' = StepsLeft
    <3>1. Others => UNCHANGED <<ipc, got, page, more>>
      BY DEF Others, Insert, Delete, response
    <3>2. UNCHANGED got => UNCHANGED Reached
      BY DEF Reached
    <3>3. UNCHANGED <<ipc, page, more, Reached>> => UNCHANGED StepsLeft
      BY DEF StepsLeft
    <3> QED
      BY <3>1, <3>2, <3>3
  <2> QED
    BY <2>1, StepIsTaken, StepsTypeNext DEF StepsAreNats
<1> HIDE DEF Bounded
<1>2. Spec => [][Bounded]_vars
  BY <1>1, Invariance, PTL DEF Spec
<1> QED
  BY <1>2 DEF Bounded

\* While there are more pages, the cursor to come is beyond the one that was used.
CursorInv == ipc = "items" /\ more => next > cursor

\* No page is asked for twice: whenever another list call follows, its cursor lies
\* beyond the one before (file_list.go:46-50).
THEOREM CursorMovesOn ==
  Spec => [][cursor' # cursor => cursor' > cursor \/ ipc' = "done"]_vars
<1> DEFINE MovesOn == cursor' # cursor => cursor' > cursor \/ ipc' = "done"
<1>1. Init => CursorInv
  BY DEF Init, CursorInv
<1>2. TypeOK /\ CursorInv /\ [Next]_vars => CursorInv' /\ MovesOn
  <2> SUFFICES ASSUME TypeOK, CursorInv, [Next]_vars PROVE CursorInv' /\ MovesOn
    OBVIOUS
  <2>1. CASE Fetch
    BY <2>1, FetchedPage DEF Fetch, CursorInv
  <2>2. CASE FetchFails \/ Item
    BY <2>2 DEF FetchFails, Item, CursorInv, response
  <2>3. CASE EndOfPage
    BY <2>3 DEF EndOfPage, CursorInv, response
  <2>4. CASE Others \/ UNCHANGED vars
    BY <2>4 DEF Others, Insert, Delete, CursorInv, vars, response
  <2> QED
    BY <2>1, <2>2, <2>3, <2>4 DEF Next, Iterator
<1> HIDE DEF MovesOn
<1>3. Spec => [][MovesOn]_vars
  BY <1>1, <1>2, Invariance, PTL DEF Spec
<1> QED
  BY <1>3 DEF MovesOn
=============================================================================
