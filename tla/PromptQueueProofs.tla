-------------------------- MODULE PromptQueueProofs --------------------------
(***************************************************************************)
(* Facts about the operators of PromptQueue, for queues of any length: the *)
(* elements they return are those of the queue, and the front stays the    *)
(* front unless it is the row being moved.                                 *)
(***************************************************************************)
EXTENDS PromptQueue, TLAPS, FiniteSetTheorems, SequenceTheorems
LOCAL INSTANCE SequencesExt

\* A set of indices ordered by distinct keys.
Ordered(K, key) ==
  /\ IsFiniteSet(K)
  /\ \A k \in K : key[k] \in Int
  /\ \A j, k \in K : key[j] = key[k] => j = k

\* Those of K that come no later than k.
UpTo(K, key, k) == {j \in K : key[j] <= key[k]}

(***************************************************************************)
(* The i-th smallest element exists and is the only one: counting the      *)
(* predecessors of an element maps K one to one, hence onto                *)
(* 1..Cardinality(K).                                                      *)
(***************************************************************************)
LEMMA PlaceType ==
  ASSUME NEW K, NEW key, Ordered(K, key), NEW k \in K
  PROVE  /\ IsFiniteSet(UpTo(K, key, k))
         /\ Cardinality(UpTo(K, key, k)) \in 1..Cardinality(K)
<1>1. Cardinality(K) \in Nat
  BY FS_CardinalityType DEF Ordered
<1>2. UpTo(K, key, k) \in SUBSET K
  BY DEF UpTo
<1>3. k \in UpTo(K, key, k)
  BY DEF UpTo, Ordered
<1>4. /\ IsFiniteSet(UpTo(K, key, k))
      /\ Cardinality(UpTo(K, key, k)) <= Cardinality(K)
  BY <1>2, FS_Subset DEF Ordered
<1>5. Cardinality(UpTo(K, key, k)) \in Nat
  BY <1>4, FS_CardinalityType
<1>6. Cardinality(UpTo(K, key, k)) # 0
  BY <1>3, <1>4, FS_EmptySet
<1> QED
  BY <1>1, <1>4, <1>5, <1>6

LEMMA PlaceUnique ==
  ASSUME NEW K, NEW key, Ordered(K, key), NEW j \in K, NEW k \in K,
         Cardinality(UpTo(K, key, j)) = Cardinality(UpTo(K, key, k))
  PROVE  j = k
<1>1. ASSUME NEW x \in K, NEW y \in K, key[x] < key[y]
      PROVE  Cardinality(UpTo(K, key, x)) # Cardinality(UpTo(K, key, y))
  <2>1. UpTo(K, key, x) \in SUBSET UpTo(K, key, y)
    BY <1>1 DEF UpTo, Ordered
  <2>2. y \in UpTo(K, key, y) /\ y \notin UpTo(K, key, x)
    BY <1>1 DEF UpTo, Ordered
  <2>3. IsFiniteSet(UpTo(K, key, y))
    BY PlaceType
  <2> QED
    BY <2>1, <2>2, <2>3, FS_Subset
<1>2. key[j] < key[k] \/ key[k] < key[j] \/ key[j] = key[k]
  BY DEF Ordered
<1> QED
  BY <1>1, <1>2 DEF Ordered

LEMMA NthType ==
  ASSUME NEW K, NEW key, Ordered(K, key), NEW i \in 1..Cardinality(K)
  PROVE  /\ Nth(K, key, i) \in K
         /\ Cardinality(UpTo(K, key, Nth(K, key, i))) = i
<1> DEFINE n == Cardinality(K)
           f == [k \in K |-> Cardinality(UpTo(K, key, k))]
<1>1. n \in Nat
  BY FS_CardinalityType DEF Ordered
<1>2. \A k \in K : f[k] \in 1..n
  BY PlaceType
<1>3. ASSUME NEW j \in K, NEW k \in K, f[j] = f[k]
      PROVE  j = k
  BY <1>3, PlaceUnique
<1>4. \E k \in K : f[k] = i
  <2> SUFFICES ASSUME \A k \in K : f[k] # i PROVE FALSE
    OBVIOUS
  <2>1. f \in [K -> (1..n) \ {i}]
    BY <1>2
  <2>2. IsFiniteSet(1..n) /\ Cardinality(1..n) = n
    BY <1>1, FS_Interval
  <2>3. /\ IsFiniteSet((1..n) \ {i})
        /\ Cardinality((1..n) \ {i}) = n - 1
    <3>1. i \in 1..n
      OBVIOUS
    <3> HIDE DEF f, n
    <3> QED
      BY ONLY <2>2, <3>1, FS_RemoveElement
  <2>4. IsFiniteSet(K) /\ Cardinality((1..n) \ {i}) < Cardinality(K)
    BY <1>1, <2>3 DEF Ordered
  <2> HIDE DEF f, n
  <2>5. \E j, k \in K : j # k /\ f[j] = f[k]
    BY <2>1, <2>3, <2>4, FS_PigeonHole
  <2> QED
    BY <1>3, <2>5
<1>5. PICK k \in K : f[k] = i
  BY <1>4
<1>6. \E k2 \in K : Cardinality({j \in K : key[j] <= key[k2]}) = i
  BY <1>5 DEF UpTo
<1> HIDE DEF f, n
<1> QED
  BY <1>6 DEF Nth, UpTo

\* Every element of K has its place.
LEMMA NthOnto ==
  ASSUME NEW K, NEW key, Ordered(K, key), NEW k \in K
  PROVE  \E i \in 1..Cardinality(K) : Nth(K, key, i) = k
<1> DEFINE i == Cardinality(UpTo(K, key, k))
<1>1. i \in 1..Cardinality(K)
  BY PlaceType
<1> HIDE DEF i
<1>2. Nth(K, key, i) \in K /\ Cardinality(UpTo(K, key, Nth(K, key, i))) = i
  BY <1>1, NthType
<1>3. Nth(K, key, i) = k
  BY <1>2, PlaceUnique DEF i
<1> QED
  BY <1>1, <1>3

\* OrderBy returns one element per index of K.
LEMMA OrderByType ==
  ASSUME NEW S, NEW q \in Seq(S), NEW K \in SUBSET DOMAIN q, NEW key,
         Ordered(K, key)
  PROVE  /\ OrderBy(q, K, key) \in Seq(S)
         /\ Len(OrderBy(q, K, key)) = Cardinality(K)
         /\ \A i \in 1..Cardinality(K) :
              OrderBy(q, K, key)[i] = q[Nth(K, key, i)] /\ Nth(K, key, i) \in K
<1>1. Cardinality(K) \in Nat
  BY FS_CardinalityType DEF Ordered
<1>2. \A i \in 1..Cardinality(K) : Nth(K, key, i) \in K
  BY NthType
<1>3. \A i \in 1..Cardinality(K) : q[Nth(K, key, i)] \in S
  BY <1>2
<1> QED
  BY <1>1, <1>2, <1>3 DEF OrderBy

\* OrderBy loses none of the elements at K.
LEMMA OrderByOnto ==
  ASSUME NEW S, NEW q \in Seq(S), NEW K \in SUBSET DOMAIN q, NEW key,
         Ordered(K, key), NEW k \in K
  PROVE  \E i \in 1..Len(OrderBy(q, K, key)) : OrderBy(q, K, key)[i] = q[k]
<1>1. PICK i \in 1..Cardinality(K) : Nth(K, key, i) = k
  BY NthOnto
<1> QED
  BY <1>1, OrderByType

\* The index with the least key comes first.
LEMMA OrderByHead ==
  ASSUME NEW S, NEW q \in Seq(S), NEW K \in SUBSET DOMAIN q, NEW key,
         Ordered(K, key), NEW h \in K, \A k \in K : key[h] <= key[k]
  PROVE  OrderBy(q, K, key) # <<>> /\ OrderBy(q, K, key)[1] = q[h]
<1>1. Cardinality(K) \in Nat \ {0}
  BY FS_CardinalityType, FS_EmptySet DEF Ordered
<1> DEFINE m == Nth(K, key, 1)
<1>2. m \in K /\ Cardinality(UpTo(K, key, m)) = 1
  BY <1>1, NthType
<1>3. IsFiniteSet(UpTo(K, key, m))
  BY FS_Subset DEF UpTo, Ordered
<1>4. PICK x : UpTo(K, key, m) = {x}
  BY <1>2, <1>3, FS_Singleton
<1>5. m \in UpTo(K, key, m) /\ h \in UpTo(K, key, m)
  BY <1>2 DEF UpTo, Ordered
<1>6. m = h
  BY <1>4, <1>5
<1> QED
  BY <1>1, <1>6, OrderByType

\* A finite set of integers has a least element.
LEMMA LeastElement ==
  ASSUME NEW T \in SUBSET Int, IsFiniteSet(T), T # {}
  PROVE  \E m \in T : \A t \in T : m <= t
<1> DEFINE key == [t \in T |-> t]
           m == Nth(T, key, 1)
<1>1. Ordered(T, key)
  BY DEF Ordered
<1>2. Cardinality(T) \in Nat \ {0}
  BY FS_CardinalityType, FS_EmptySet
<1> HIDE DEF key
<1>3. m \in T /\ Cardinality(UpTo(T, key, m)) = 1
  BY <1>1, <1>2, NthType
<1>4. IsFiniteSet(UpTo(T, key, m))
  BY FS_Subset DEF UpTo
<1>5. PICK x : UpTo(T, key, m) = {x}
  BY <1>3, <1>4, FS_Singleton
<1> HIDE DEF m
<1>6. \A t \in T : t <= m => t \in UpTo(T, key, m)
  BY <1>3 DEF UpTo, key
<1>7. \A t \in T : t <= m => t = m
  BY <1>3, <1>5, <1>6
<1> QED
  BY <1>3, <1>7

------------------------------------------------------------------------------
(***************************************************************************)
(* Filters: Keep and the sweeps.                                           *)
(***************************************************************************)

LEMMA KeepOrdered ==
  ASSUME NEW S, NEW q \in Seq(S), NEW K \in SUBSET DOMAIN q
  PROVE  Ordered(K, [k \in DOMAIN q |-> k])
<1>1. IsFiniteSet(1..Len(q))
  BY FS_Interval
<1>2. IsFiniteSet(K)
  BY <1>1, FS_Subset
<1> QED
  BY <1>2 DEF Ordered

\* A filtered queue holds elements of the queue only.
LEMMA KeepType ==
  ASSUME NEW S, NEW q \in Seq(S), NEW K \in SUBSET DOMAIN q
  PROVE  /\ Keep(q, K) \in Seq(S)
         /\ \A i \in 1..Len(Keep(q, K)) : \E k \in K : Keep(q, K)[i] = q[k]
<1> DEFINE key == [k \in DOMAIN q |-> k]
<1>1. Ordered(K, key)
  BY KeepOrdered
<1> HIDE DEF key
<1>2. /\ OrderBy(q, K, key) \in Seq(S)
      /\ Len(OrderBy(q, K, key)) = Cardinality(K)
      /\ \A i \in 1..Cardinality(K) :
           OrderBy(q, K, key)[i] = q[Nth(K, key, i)] /\ Nth(K, key, i) \in K
  BY <1>1, OrderByType
<1> QED
  BY <1>2 DEF Keep, key

\* A filtered queue loses nothing but what is filtered out.
LEMMA KeepOnto ==
  ASSUME NEW S, NEW q \in Seq(S), NEW K \in SUBSET DOMAIN q, NEW k \in K
  PROVE  \E i \in 1..Len(Keep(q, K)) : Keep(q, K)[i] = q[k]
<1> DEFINE key == [x \in DOMAIN q |-> x]
<1>1. Ordered(K, key)
  BY KeepOrdered
<1> HIDE DEF key
<1>2. \E i \in 1..Len(OrderBy(q, K, key)) : OrderBy(q, K, key)[i] = q[k]
  BY <1>1, OrderByOnto
<1> QED
  BY <1>2 DEF Keep, key

\* The front stays the front of a filtered queue that keeps it.
LEMMA KeepHead ==
  ASSUME NEW S, NEW q \in Seq(S), NEW K \in SUBSET DOMAIN q, 1 \in K
  PROVE  Keep(q, K) # <<>> /\ Keep(q, K)[1] = q[1]
<1> DEFINE key == [k \in DOMAIN q |-> k]
<1>1. Ordered(K, key)
  BY KeepOrdered
<1>2. \A k \in K : key[1] <= key[k]
  OBVIOUS
<1> HIDE DEF key
<1>3. OrderBy(q, K, key) # <<>> /\ OrderBy(q, K, key)[1] = q[1]
  BY <1>1, <1>2, OrderByHead
<1> QED
  BY <1>3 DEF Keep, key

LEMMA SweepType ==
  ASSUME NEW S, NEW q \in Seq(S), NEW run, NEW Drop
  PROVE  Sweep(q, run, Drop) \in Seq(S)
BY KeepType DEF Sweep

\* sweep_pending_inputs never takes the running turn from the front.
LEMMA SweepFront ==
  ASSUME NEW S, NEW q \in Seq(S), NEW run, NEW Drop, FrontRuns(q, run)
  PROVE  FrontRuns(Sweep(q, run, Drop), run)
<1> DEFINE K == {k \in DOMAIN q : q[k].id = run \/ q[k].id \notin Drop}
<1>1. 1 \in K /\ K \in SUBSET DOMAIN q
  BY DEF FrontRuns
<1> HIDE DEF K
<1>2. Keep(q, K) # <<>> /\ Keep(q, K)[1] = q[1]
  BY <1>1, KeepHead
<1> QED
  BY <1>2 DEF FrontRuns, Sweep, K

------------------------------------------------------------------------------
(***************************************************************************)
(* Insertions and removals.                                                *)
(***************************************************************************)

LEMMA InsertAtType ==
  ASSUME NEW S, NEW q \in Seq(S), NEW e \in S, NEW i \in 1..(Len(q) + 1)
  PROVE  /\ InsertAt(q, i, e) \in Seq(S)
         /\ i = 1 => InsertAt(q, i, e)[1] = e
         /\ i > 1 => InsertAt(q, i, e)[1] = q[1]
         /\ InsertAt(q, i, e) # <<>>
<1> DEFINE a == SubSeq(q, 1, i - 1)
           c == SubSeq(q, i, Len(q))
<1>1. a \in Seq(S) /\ Len(a) = i - 1 /\ (i > 1 => a[1] = q[1])
  BY SubSeqProperties
<1>2. c \in Seq(S)
  BY SubSeqProperties
<1> HIDE DEF a, c
<1>3. <<e>> \in Seq(S) /\ Len(<<e>>) = 1 /\ <<e>>[1] = e
  OBVIOUS
<1> DEFINE b == a \o <<e>>
<1>4. b \in Seq(S) /\ Len(b) = i /\ b[1] = IF i > 1 THEN q[1] ELSE e
  BY <1>1, <1>3, ConcatProperties
<1> HIDE DEF b
<1>5. b \o c \in Seq(S) /\ Len(b \o c) > 0 /\ (b \o c)[1] = b[1]
  BY <1>2, <1>4, ConcatProperties
<1>6. InsertAt(q, i, e) = b \o c
  BY DEF InsertAt, a, b, c
<1> QED
  BY <1>4, <1>5, <1>6

LEMMA RemoveAtType ==
  ASSUME NEW S, NEW q \in Seq(S), NEW k \in 1..Len(q)
  PROVE  /\ RemoveAt(q, k) \in Seq(S)
         /\ Len(RemoveAt(q, k)) = Len(q) - 1
         /\ k > 1 => RemoveAt(q, k)[1] = q[1]
<1> DEFINE a == SubSeq(q, 1, k - 1)
           c == SubSeq(q, k + 1, Len(q))
<1>1. a \in Seq(S) /\ Len(a) = k - 1 /\ (k > 1 => a[1] = q[1])
  BY SubSeqProperties
<1>2. c \in Seq(S) /\ Len(c) = Len(q) - k
  BY SubSeqProperties
<1> HIDE DEF a, c
<1>3. /\ a \o c \in Seq(S) /\ Len(a \o c) = Len(q) - 1
      /\ k > 1 => (a \o c)[1] = q[1]
  <2>1. /\ a \o c \in Seq(S) /\ Len(a \o c) = Len(a) + Len(c)
        /\ \A i \in 1..(Len(a) + Len(c)) :
             (a \o c)[i] = IF i <= Len(a) THEN a[i] ELSE c[i - Len(a)]
    BY <1>1, <1>2, ConcatProperties
  <2>2. k > 1 => 1 \in 1..(Len(a) + Len(c)) /\ 1 <= Len(a)
    BY <1>1, <1>2
  <2> QED
    BY <1>1, <1>2, <2>1, <2>2
<1> QED
  BY <1>3 DEF RemoveAt, a, c

\* The send-now slot is a place of the queue, behind a running front.
LEMMA SendNowSlotType ==
  ASSUME NEW X, NEW q \in Seq(Items(X)), NEW run
  PROVE  /\ SendNowSlot(q, run) \in 1..(Len(q) + 1)
         /\ FrontRuns(q, run) => SendNowSlot(q, run) > 1
<1> DEFINE base == IF FrontRuns(q, run) THEN 2 ELSE 1
           T == {s \in base..(Len(q) + 1) : s = Len(q) + 1 \/ ~q[s].now}
<1>1. base \in 1..(Len(q) + 1) /\ (FrontRuns(q, run) => base = 2)
  BY DEF FrontRuns
<1>2. T \in SUBSET Int /\ Len(q) + 1 \in T
  BY <1>1
<1>3. IsFiniteSet(T)
  <2>1. IsFiniteSet(base..(Len(q) + 1))
    BY <1>1, FS_Interval
  <2> QED
    BY <2>1, FS_Subset
<1>4. PICK m \in T : \A t \in T : m <= t
  BY <1>2, <1>3, LeastElement
<1> HIDE DEF base
<1>5. \A j \in base..(m - 1) : q[j].now
  BY <1>1, <1>4
<1>6. \E s \in base..(Len(q) + 1) :
        /\ \A j \in base..(s - 1) : q[j].now
        /\ s = Len(q) + 1 \/ ~q[s].now
  BY <1>4, <1>5
<1>7. SendNowSlot(q, run) \in base..(Len(q) + 1)
  BY <1>6 DEF SendNowSlot, base
<1> QED
  BY <1>1, <1>7

LEMMA InsertSendNowType ==
  ASSUME NEW X, NEW q \in Seq(Items(X)), NEW run, NEW item \in Items(X)
  PROVE  /\ InsertSendNow(q, run, item) \in Seq(Items(X))
         /\ FrontRuns(q, run) => FrontRuns(InsertSendNow(q, run, item), run)
<1> DEFINE e == [item EXCEPT !.now = TRUE]
           i == SendNowSlot(q, run)
<1>1. e \in Items(X)
  BY DEF Items
<1>2. i \in 1..(Len(q) + 1) /\ (FrontRuns(q, run) => i > 1)
  BY SendNowSlotType
<1> HIDE DEF e, i
<1>3. /\ InsertAt(q, i, e) \in Seq(Items(X))
      /\ i > 1 => InsertAt(q, i, e)[1] = q[1]
      /\ InsertAt(q, i, e) # <<>>
  BY <1>1, <1>2, InsertAtType
<1> QED
  BY <1>2, <1>3 DEF InsertSendNow, FrontRuns, e, i

LEMMA InsertFrontType ==
  ASSUME NEW S, NEW q \in Seq(S), NEW run, NEW item \in S
  PROVE  /\ InsertFront(q, run, item) \in Seq(S)
         /\ FrontRuns(q, run) => FrontRuns(InsertFront(q, run, item), run)
<1> DEFINE i == IF FrontRuns(q, run) THEN 2 ELSE 1
<1>1. i \in 1..(Len(q) + 1) /\ (FrontRuns(q, run) => i > 1)
  BY DEF FrontRuns
<1> HIDE DEF i
<1>2. /\ InsertAt(q, i, item) \in Seq(S)
      /\ i > 1 => InsertAt(q, i, item)[1] = q[1]
      /\ InsertAt(q, i, item) # <<>>
  BY <1>1, InsertAtType
<1> QED
  BY <1>1, <1>2 DEF InsertFront, FrontRuns, i

\* Removing a row that is not the running turn leaves the front alone.
LEMMA RemoveRowType ==
  ASSUME NEW X, NEW q \in Seq(Items(X)), NEW run, NEW k \in DOMAIN q,
         q[k].id # run
  PROVE  /\ RemoveRow(q, k) \in Seq(Items(X))
         /\ RemoveAt(q, k) \in Seq(Items(X))
         /\ FrontRuns(q, run) => /\ FrontRuns(RemoveRow(q, k), run)
                                 /\ FrontRuns(RemoveAt(q, k), run)
<1>1. k \in 1..Len(q)
  OBVIOUS
<1>2. /\ RemoveAt(q, k) \in Seq(Items(X))
      /\ Len(RemoveAt(q, k)) = Len(q) - 1
      /\ k > 1 => RemoveAt(q, k)[1] = q[1]
  BY <1>1, RemoveAtType
<1>3. FrontRuns(q, run) => k > 1
  BY <1>1 DEF FrontRuns
<1>4. k > 1 => RemoveAt(q, k) # <<>>
  BY <1>1, <1>2
<1> QED
  BY <1>2, <1>3, <1>4 DEF RemoveRow, FrontRuns

\* Nor does promoting one to run next.
LEMMA PromoteRowType ==
  ASSUME NEW X, NEW q \in Seq(Items(X)), NEW run, NEW k \in DOMAIN q,
         q[k].id # run, NEW edit \in BOOLEAN
  PROVE  /\ PromoteRow(q, run, k, edit) \in Seq(Items(X))
         /\ FrontRuns(q, run) => FrontRuns(PromoteRow(q, run, k, edit), run)
<1> DEFINE r == RemoveAt(q, k)
           e == [q[k] EXCEPT !.ver = IF edit THEN @ + 1 ELSE @]
<1>1. r \in Seq(Items(X)) /\ (FrontRuns(q, run) => FrontRuns(r, run))
  BY RemoveRowType
<1>2. q[k] \in Items(X)
  OBVIOUS
<1>3. e \in Items(X)
  BY <1>2 DEF Items
<1> HIDE DEF r, e
<1>4. /\ InsertSendNow(r, run, e) \in Seq(Items(X))
      /\ FrontRuns(r, run) => FrontRuns(InsertSendNow(r, run, e), run)
  BY <1>1, <1>3, InsertSendNowType
<1> QED
  BY <1>1, <1>4 DEF PromoteRow, r, e

\* Editing a row keeps every id in its place.
LEMMA EditRowType ==
  ASSUME NEW X, NEW q \in Seq(Items(X)), NEW k \in DOMAIN q
  PROVE  /\ EditRow(q, k) \in Seq(Items(X))
         /\ \A run : FrontRuns(q, run) => FrontRuns(EditRow(q, k), run)
<1> DEFINE e == [q[k] EXCEPT !.ver = @ + 1]
<1>1. q[k] \in Items(X) /\ k \in 1..Len(q)
  OBVIOUS
<1>2. e \in Items(X) /\ e.id = q[k].id
  BY <1>1 DEF Items
<1>3. EditRow(q, k) = [q EXCEPT ![k] = e]
  BY DEF EditRow
<1> HIDE DEF e
<1>4. /\ [q EXCEPT ![k] = e] \in Seq(Items(X))
      /\ Len([q EXCEPT ![k] = e]) = Len(q)
      /\ \A j \in 1..Len(q) : [q EXCEPT ![k] = e][j] = IF j = k THEN e ELSE q[j]
  BY <1>1, <1>2, ExceptSeq
<1> QED
  BY <1>2, <1>3, <1>4 DEF FrontRuns

------------------------------------------------------------------------------
(***************************************************************************)
(* Reordering.                                                             *)
(***************************************************************************)

LEMMA RankType ==
  ASSUME NEW R, NEW order \in Seq(R), NEW id
  PROVE  Rank(order, id) \in Nat \ {0}
<1> DEFINE T == {i \in DOMAIN order : order[i] = id}
<1>1. CASE T = {}
  BY <1>1 DEF Rank
<1>2. CASE T # {}
  <2>1. IsFiniteSet(1..Len(order))
    BY FS_Interval
  <2>2. IsFiniteSet(T) /\ T \in SUBSET Int
    BY <2>1, FS_Subset
  <2>3. PICK m \in T : \A t \in T : m <= t
    BY <1>2, <2>2, LeastElement
  <2>4. \A j \in 1..(m - 1) : order[j] # id
    BY <2>3
  <2>5. \E i \in DOMAIN order :
          order[i] = id /\ \A j \in 1..(i - 1) : order[j] # id
    BY <2>3, <2>4
  <2>6. Rank(order, id) \in DOMAIN order
    BY <2>5 DEF Rank
  <2> QED
    BY <2>6
<1> QED
  BY <1>1, <1>2

\* Two-digit keys compare digit by digit.
LEMMA KeyDigits ==
  ASSUME NEW n \in Nat, NEW a \in Nat, NEW b \in Nat,
         NEW j \in 0..n, NEW k \in 0..n, a * (n + 1) + j = b * (n + 1) + k
  PROVE  a = b /\ j = k
<1>1. ASSUME NEW x \in Nat, NEW y \in Nat, x < y
      PROVE  x * (n + 1) + (n + 1) <= y * (n + 1)
  <2>1. PICK d \in Nat : y = x + 1 + d
    BY <1>1
  <2>2. y * (n + 1) = x * (n + 1) + (n + 1) + d * (n + 1)
    BY <2>1
  <2>3. d * (n + 1) \in Nat
    OBVIOUS
  <2> QED
    BY <2>2, <2>3
<1>2. a * (n + 1) \in Nat /\ b * (n + 1) \in Nat
  OBVIOUS
<1>3. ~(a < b)
  BY <1>1, <1>2
<1>4. ~(b < a)
  BY <1>1, <1>2
<1> QED
  BY <1>2, <1>3, <1>4

LEMMA ReorderOrdered ==
  ASSUME NEW X, NEW q \in Seq(Items(X)), NEW run, NEW Rows, NEW R,
         NEW order \in Seq(R)
  PROVE  /\ Ordered(DOMAIN q, ReorderKey(q, run, Rows, order))
         /\ FrontRuns(q, run) =>
              \A k \in DOMAIN q : ReorderKey(q, run, Rows, order)[1]
                                     <= ReorderKey(q, run, Rows, order)[k]
<1> DEFINE key == ReorderKey(q, run, Rows, order)
           n == Len(q)
           rank(k) == Rank(order, q[k].id)
           high(k) == q[k].id \in Rows /\ q[k].id # run
<1>1. \A k \in 1..n : rank(k) \in Nat \ {0}
  BY RankType
<1>2. \A k \in 1..n : key[k] = IF high(k) THEN rank(k) * (n + 1) + k ELSE k
  BY DEF ReorderKey
<1> HIDE DEF key, rank, high
<1>3. \A k \in 1..n : rank(k) * (n + 1) >= n + 1 /\ rank(k) * (n + 1) \in Nat
  <2> SUFFICES ASSUME NEW k \in 1..n
               PROVE  rank(k) * (n + 1) >= n + 1 /\ rank(k) * (n + 1) \in Nat
    OBVIOUS
  <2>1. PICK d \in Nat : rank(k) = 1 + d
    BY <1>1
  <2>2. rank(k) * (n + 1) = (n + 1) + d * (n + 1) /\ d * (n + 1) \in Nat
    BY <2>1
  <2> QED
    BY <2>2
<1>4. \A k \in 1..n : key[k] \in Int
  BY <1>2, <1>3
<1>5. ASSUME NEW j \in 1..n, NEW k \in 1..n, key[j] = key[k]
      PROVE  j = k
  <2>1. CASE high(j) /\ high(k)
    <3>1. PICK a \in Nat, b \in Nat : a = rank(j) /\ b = rank(k)
      BY <1>1
    <3>2. n \in Nat /\ j \in 0..n /\ k \in 0..n
      OBVIOUS
    <3>3. a * (n + 1) + j = b * (n + 1) + k
      BY <1>2, <1>5, <2>1, <3>1
    <3> HIDE DEF n
    <3> QED
      BY <3>2, <3>3, KeyDigits
  <2>2. CASE ~high(j) \/ ~high(k)
    BY <1>2, <1>3, <1>5, <2>2
  <2> QED
    BY <2>1, <2>2
<1>6. IsFiniteSet(1..n)
  BY FS_Interval
<1>7. Ordered(DOMAIN q, key)
  BY <1>4, <1>5, <1>6 DEF Ordered
<1>8. FrontRuns(q, run) => \A k \in DOMAIN q : key[1] <= key[k]
  <2> SUFFICES ASSUME FrontRuns(q, run), NEW k \in 1..n PROVE key[1] <= key[k]
    OBVIOUS
  <2>1. 1 \in 1..n /\ ~high(1)
    BY DEF FrontRuns, high
  <2>2. key[1] = 1
    BY <1>2, <2>1
  <2> QED
    BY <1>2, <1>3, <2>2
<1> QED
  BY <1>7, <1>8 DEF key

\* Whatever order a client asks for, the running turn stays at the front.
LEMMA ReorderRowsType ==
  ASSUME NEW X, NEW q \in Seq(Items(X)), NEW run, NEW Rows, NEW R,
         NEW order \in Seq(R)
  PROVE  /\ ReorderRows(q, run, Rows, order) \in Seq(Items(X))
         /\ FrontRuns(q, run) => FrontRuns(ReorderRows(q, run, Rows, order), run)
<1> DEFINE key == ReorderKey(q, run, Rows, order)
<1>1. /\ Ordered(DOMAIN q, key)
      /\ FrontRuns(q, run) => \A k \in DOMAIN q : key[1] <= key[k]
  BY ReorderOrdered
<1> HIDE DEF key
<1>2. OrderBy(q, DOMAIN q, key) \in Seq(Items(X))
  BY <1>1, OrderByType
<1>3. ASSUME FrontRuns(q, run)
      PROVE  FrontRuns(OrderBy(q, DOMAIN q, key), run)
  <2>1. 1 \in DOMAIN q
    BY <1>3 DEF FrontRuns
  <2>2. /\ OrderBy(q, DOMAIN q, key) # <<>>
        /\ OrderBy(q, DOMAIN q, key)[1] = q[1]
    BY <1>1, <1>3, <2>1, OrderByHead
  <2> QED
    BY <1>3, <2>2 DEF FrontRuns
<1> QED
  BY <1>2, <1>3 DEF ReorderRows, key

\* A broadcast lists rows and nothing else.
LEMMA WireType ==
  ASSUME NEW X, NEW q \in Seq(Items(X)), NEW run, NEW Rows
  PROVE  Wire(q, run, Rows) \in Seq([id : Rows, ver : Nat])
<1> DEFINE K == {k \in DOMAIN q : q[k].id \in Rows /\ q[k].id # run}
           shown == Keep(q, K)
<1>1. K \in SUBSET DOMAIN q
  OBVIOUS
<1>2. \A k \in K : q[k].id \in Rows /\ q[k].ver \in Nat
  <2>1. \A k \in DOMAIN q : q[k] \in Items(X)
    OBVIOUS
  <2> QED
    BY <2>1 DEF Items
<1> HIDE DEF K
<1>3. /\ shown \in Seq(Items(X))
      /\ \A i \in 1..Len(shown) : \E k \in K : shown[i] = q[k]
  BY <1>1, KeepType
<1> HIDE DEF shown
<1>4. \A i \in 1..Len(shown) : shown[i].id \in Rows /\ shown[i].ver \in Nat
  BY <1>2, <1>3
<1>5. [i \in DOMAIN shown |-> [id |-> shown[i].id, ver |-> shown[i].ver]]
        \in Seq([id : Rows, ver : Nat])
  <2>1. DOMAIN shown = 1..Len(shown) /\ Len(shown) \in Nat
    BY <1>3, LenProperties
  <2>2. \A i \in 1..Len(shown) : [id |-> shown[i].id, ver |-> shown[i].ver]
                                   \in [id : Rows, ver : Nat]
    BY <1>4
  <2> QED
    BY <2>1, <2>2
<1> QED
  BY <1>5 DEF Wire, shown, K

------------------------------------------------------------------------------
(***************************************************************************)
(* Where the elements go.  A filter, a sort, a removal and a cut take the  *)
(* elements at some indices, each once: what they return holds exactly     *)
(* those, and no element twice when the queue held none twice.             *)
(***************************************************************************)

\* No element is in s twice, and no id is queued twice in q.
Apart(s) == \A j, k \in DOMAIN s : s[j] = s[k] => j = k
IdsApart(q) == \A j, k \in DOMAIN q : q[j].id = q[k].id => j = k

\* r holds the elements of q at the indices K; f says which is where.
Picks(r, q, K, f) ==
  /\ K \subseteq DOMAIN q
  /\ f \in [DOMAIN r -> K]
  /\ \A i \in DOMAIN r : r[i] = q[f[i]]
  /\ \A i, j \in DOMAIN r : f[i] = f[j] => i = j
  /\ \A k \in K : \E i \in DOMAIN r : f[i] = k

LEMMA PicksSet ==
  ASSUME NEW r, NEW q, NEW K, NEW f, Picks(r, q, K, f)
  PROVE  /\ ToSet(r) = {q[k] : k \in K}
         /\ Apart(q) => Apart(r)
         /\ QueuedIds(r) = {q[k].id : k \in K}
         /\ IdsApart(q) => IdsApart(r)
<1>1. ToSet(r) = {q[k] : k \in K}
  BY DEF Picks, ToSet
<1>2. QueuedIds(r) = {q[k].id : k \in K}
  BY DEF Picks, QueuedIds
<1>3. Apart(q) => Apart(r)
  BY DEF Picks, Apart
<1>4. IdsApart(q) => IdsApart(r)
  BY DEF Picks, IdsApart
<1> QED
  BY <1>1, <1>2, <1>3, <1>4

LEMMA OrderByPicks ==
  ASSUME NEW S, NEW q \in Seq(S), NEW K \in SUBSET DOMAIN q, NEW key,
         Ordered(K, key)
  PROVE  \E f : Picks(OrderBy(q, K, key), q, K, f)
<1> DEFINE r == OrderBy(q, K, key)
           f == [i \in DOMAIN r |-> Nth(K, key, i)]
<1>1. Cardinality(K) \in Nat
  BY FS_CardinalityType DEF Ordered
<1>2. DOMAIN r = 1..Cardinality(K)
  BY <1>1 DEF OrderBy
<1>3. \A i \in DOMAIN r : r[i] = q[f[i]] /\ f[i] = Nth(K, key, i)
  BY <1>2 DEF OrderBy
<1>4. \A i \in DOMAIN r : f[i] \in K /\ Cardinality(UpTo(K, key, f[i])) = i
  BY <1>2, NthType
<1>5. \A k \in K : \E i \in DOMAIN r : f[i] = k
  BY <1>2, NthOnto
<1>6. f \in [DOMAIN r -> K]
  BY <1>4
<1>7. \A i, j \in DOMAIN r : f[i] = f[j] => i = j
  <2> HIDE DEF f, r
  <2> QED
    BY <1>4
<1> HIDE DEF f, r
<1> QED
  BY <1>3, <1>5, <1>6, <1>7 DEF Picks, r

LEMMA KeepPicks ==
  ASSUME NEW S, NEW q \in Seq(S), NEW K \in SUBSET DOMAIN q
  PROVE  \E f : Picks(Keep(q, K), q, K, f)
<1> DEFINE key == [k \in DOMAIN q |-> k]
<1>1. Ordered(K, key)
  BY KeepOrdered
<1> HIDE DEF key
<1>2. \E f : Picks(OrderBy(q, K, key), q, K, f)
  BY <1>1, OrderByPicks
<1> QED
  BY <1>2 DEF Keep, key

\* A filter of a buffer, and of the queue.
LEMMA KeepSet ==
  ASSUME NEW S, NEW q \in Seq(S), NEW K \in SUBSET DOMAIN q
  PROVE  /\ ToSet(Keep(q, K)) = {q[k] : k \in K}
         /\ Apart(q) => Apart(Keep(q, K))
         /\ QueuedIds(Keep(q, K)) = {q[k].id : k \in K}
         /\ IdsApart(q) => IdsApart(Keep(q, K))
<1>1. PICK f : Picks(Keep(q, K), q, K, f)
  BY KeepPicks
<1> QED
  BY <1>1, PicksSet

LEMMA SweepIds ==
  ASSUME NEW S, NEW q \in Seq(S), NEW run, NEW Drop
  PROVE  /\ QueuedIds(Sweep(q, run, Drop)) = QueuedIds(q) \ (Drop \ {run})
         /\ IdsApart(q) => IdsApart(Sweep(q, run, Drop))
<1> DEFINE K == {k \in DOMAIN q : q[k].id = run \/ q[k].id \notin Drop}
<1>1. K \in SUBSET DOMAIN q
  OBVIOUS
<1>2. {q[k].id : k \in K} = QueuedIds(q) \ (Drop \ {run})
  BY DEF QueuedIds
<1> HIDE DEF K
<1>3. /\ QueuedIds(Keep(q, K)) = {q[k].id : k \in K}
      /\ IdsApart(q) => IdsApart(Keep(q, K))
  BY <1>1, KeepSet
<1> QED
  BY <1>2, <1>3 DEF Sweep, K

LEMMA ReorderIds ==
  ASSUME NEW X, NEW q \in Seq(Items(X)), NEW run, NEW Rows, NEW R,
         NEW order \in Seq(R)
  PROVE  /\ QueuedIds(ReorderRows(q, run, Rows, order)) = QueuedIds(q)
         /\ IdsApart(q) => IdsApart(ReorderRows(q, run, Rows, order))
<1> DEFINE key == ReorderKey(q, run, Rows, order)
<1>1. Ordered(DOMAIN q, key)
  BY ReorderOrdered
<1> HIDE DEF key
<1>2. PICK f : Picks(OrderBy(q, DOMAIN q, key), q, DOMAIN q, f)
  <2>1. DOMAIN q \in SUBSET DOMAIN q
    OBVIOUS
  <2> QED
    BY <1>1, <2>1, OrderByPicks
<1>3. /\ QueuedIds(OrderBy(q, DOMAIN q, key)) = {q[k].id : k \in DOMAIN q}
      /\ IdsApart(q) => IdsApart(OrderBy(q, DOMAIN q, key))
  <2> DEFINE K == DOMAIN q
             r == OrderBy(q, K, key)
  <2>1. Picks(r, q, K, f)
    BY <1>2
  <2> HIDE DEF K, r
  <2>2. QueuedIds(r) = {q[k].id : k \in K} /\ (IdsApart(q) => IdsApart(r))
    BY ONLY <2>1, PicksSet
  <2> QED
    BY <2>2 DEF K, r
<1> QED
  BY <1>3 DEF ReorderRows, key, QueuedIds

\* A stretch of a sequence: what Tail, Front and a capped push keep.
LEMMA SubSeqPicks ==
  ASSUME NEW S, NEW s \in Seq(S), NEW a \in 1..(Len(s) + 1),
         NEW b \in (a - 1)..Len(s)
  PROVE  \E f : Picks(SubSeq(s, a, b), s, a..b, f)
<1> DEFINE r == SubSeq(s, a, b)
           f == [i \in DOMAIN r |-> a + i - 1]
<1>1. DOMAIN r = 1..(b - a + 1) /\ \A i \in DOMAIN r : r[i] = s[a + i - 1]
  BY SubSeqProperties
<1> HIDE DEF r
<1>2. f \in [DOMAIN r -> a..b]
  BY <1>1
<1>6. a..b \subseteq DOMAIN s
  OBVIOUS
<1>3. \A k \in a..b : \E i \in DOMAIN r : f[i] = k
  <2>1. \A k \in a..b : k - a + 1 \in DOMAIN r /\ f[k - a + 1] = k
    BY <1>1
  <2> QED
    BY <2>1
<1>4. \A i, j \in DOMAIN r : f[i] = f[j] => i = j
  BY <1>1
<1>5. \A i \in DOMAIN r : r[i] = s[f[i]]
  BY <1>1
<1> HIDE DEF f
<1> QED
  BY <1>2, <1>3, <1>4, <1>5, <1>6 DEF Picks, r

LEMMA TailApart ==
  ASSUME NEW S, NEW s \in Seq(S), s # <<>>
  PROVE  /\ ToSet(s) = ToSet(Tail(s)) \cup {s[1]}
         /\ Apart(s) => s[1] \notin ToSet(Tail(s)) /\ Apart(Tail(s))
         /\ QueuedIds(s) = QueuedIds(Tail(s)) \cup {s[1].id}
         /\ IdsApart(s) => /\ s[1].id \notin QueuedIds(Tail(s))
                           /\ IdsApart(Tail(s))
<1> DEFINE K == 2..Len(s)
<1>1. Len(s) \in Nat \ {0} /\ DOMAIN s = 1..Len(s)
  BY LenProperties, EmptySeq
<1>2. K \in SUBSET DOMAIN s /\ DOMAIN s = K \cup {1} /\ 1 \notin K
  BY <1>1
<1>3. PICK f : Picks(Tail(s), s, K, f)
  <2>1. Tail(s) = SubSeq(s, 2, Len(s))
    BY TailIsSubSeq
  <2>2. 2 \in 1..(Len(s) + 1) /\ Len(s) \in (2 - 1)..Len(s)
    BY <1>1
  <2> QED
    BY <2>1, <2>2, SubSeqPicks
<1> HIDE DEF K
<1>4. /\ ToSet(Tail(s)) = {s[k] : k \in K}
      /\ Apart(s) => Apart(Tail(s))
      /\ QueuedIds(Tail(s)) = {s[k].id : k \in K}
      /\ IdsApart(s) => IdsApart(Tail(s))
  BY <1>2, <1>3, PicksSet
<1>5. ToSet(s) = {s[k] : k \in K} \cup {s[1]}
  BY <1>2 DEF ToSet
<1>6. QueuedIds(s) = {s[k].id : k \in K} \cup {s[1].id}
  BY <1>2 DEF QueuedIds
<1>7. Apart(s) => s[1] \notin {s[k] : k \in K}
  BY <1>2 DEF Apart
<1>8. IdsApart(s) => s[1].id \notin {s[k].id : k \in K}
  BY <1>2 DEF IdsApart
<1> QED
  BY <1>4, <1>5, <1>6, <1>7, <1>8

LEMMA FrontApart ==
  ASSUME NEW S, NEW s \in Seq(S), s # <<>>
  PROVE  /\ ToSet(s) = ToSet(Front(s)) \cup {Last(s)}
         /\ Apart(s) => Last(s) \notin ToSet(Front(s)) /\ Apart(Front(s))
<1> DEFINE K == 1..(Len(s) - 1)
<1>1. Len(s) \in Nat \ {0} /\ DOMAIN s = 1..Len(s)
  BY LenProperties, EmptySeq
<1>2. /\ K \in SUBSET DOMAIN s /\ DOMAIN s = K \cup {Len(s)}
      /\ Len(s) \notin K
  BY <1>1
<1>3. PICK f : Picks(Front(s), s, K, f)
  <2>1. 1 \in 1..(Len(s) + 1) /\ Len(s) - 1 \in (1 - 1)..Len(s)
    BY <1>1
  <2> QED
    BY <2>1, SubSeqPicks DEF Front
<1> HIDE DEF K
<1>4. /\ ToSet(Front(s)) = {s[k] : k \in K}
      /\ Apart(s) => Apart(Front(s))
  BY ONLY <1>3, PicksSet
<1>5. ToSet(s) = {s[k] : k \in K} \cup {s[Len(s)]}
  BY <1>2 DEF ToSet
<1>6. Apart(s) => s[Len(s)] \notin {s[k] : k \in K}
  BY <1>2 DEF Apart
<1> QED
  BY <1>4, <1>5, <1>6 DEF Last

LEMMA RemoveAtIds ==
  ASSUME NEW S, NEW q \in Seq(S), NEW k \in DOMAIN q, IdsApart(q)
  PROVE  /\ QueuedIds(RemoveAt(q, k)) = QueuedIds(q) \ {q[k].id}
         /\ IdsApart(RemoveAt(q, k))
<1> DEFINE a == SubSeq(q, 1, k - 1)
           c == SubSeq(q, k + 1, Len(q))
           r == a \o c
           K == DOMAIN q \ {k}
           f == [i \in DOMAIN r |-> IF i < k THEN i ELSE i + 1]
<1>1. /\ a \in Seq(S) /\ Len(a) = k - 1
      /\ \A i \in 1..(k - 1) : a[i] = q[i]
  BY SubSeqProperties
<1>2. /\ c \in Seq(S) /\ Len(c) = Len(q) - k
      /\ \A i \in 1..(Len(q) - k) : c[i] = q[k + i]
  BY SubSeqProperties
<1> HIDE DEF a, c
<1>3. /\ DOMAIN r = 1..(Len(q) - 1)
      /\ \A i \in DOMAIN r : r[i] = IF i < k THEN a[i] ELSE c[i - (k - 1)]
  BY <1>1, <1>2, ConcatProperties
<1> HIDE DEF r
<1>4. ASSUME NEW i \in DOMAIN r PROVE r[i] = q[f[i]]
  <2>1. CASE i < k
    <3>1. i \in 1..(k - 1) /\ f[i] = i
      BY <1>3, <2>1
    <3> QED
      BY <1>1, <1>3, <2>1, <3>1
  <2>2. CASE i >= k
    <3>1. /\ i - (k - 1) \in 1..(Len(q) - k) /\ k + (i - (k - 1)) = i + 1
          /\ f[i] = i + 1
      BY <1>3, <2>2
    <3>2. r[i] = c[i - (k - 1)]
      BY <1>3, <2>2
    <3> HIDE DEF f
    <3> QED
      BY <1>2, <3>1, <3>2
  <2> QED
    BY <1>3, <2>1, <2>2
<1>5. f \in [DOMAIN r -> K] /\ \A i, j \in DOMAIN r : f[i] = f[j] => i = j
  BY <1>3
<1>6. \A j \in K : \E i \in DOMAIN r : f[i] = j
  <2> SUFFICES ASSUME NEW j \in K PROVE \E i \in DOMAIN r : f[i] = j
    OBVIOUS
  <2>1. CASE j < k
    BY <1>3, <2>1
  <2>2. CASE j > k
    <3>1. j - 1 \in DOMAIN r /\ f[j - 1] = j
      BY <1>3, <2>2
    <3> QED
      BY <3>1
  <2> QED
    BY <2>1, <2>2
<1>7. Picks(r, q, K, f)
  BY <1>4, <1>5, <1>6 DEF Picks
<1> HIDE DEF f, r
<1>8. QueuedIds(r) = {q[j].id : j \in K} /\ IdsApart(r)
  <2>1. K \in SUBSET DOMAIN q
    OBVIOUS
  <2> HIDE DEF K
  <2> QED
    BY ONLY <1>7, PicksSet, IdsApart(q)
<1>9. {q[j].id : j \in K} = QueuedIds(q) \ {q[k].id}
  BY DEF QueuedIds, IdsApart
<1> QED
  BY <1>8, <1>9 DEF RemoveAt, r, a, c

\* An inserted element is at its place, those behind it one further.
LEMMA InsertAtIs ==
  ASSUME NEW S, NEW q \in Seq(S), NEW e \in S, NEW i \in 1..(Len(q) + 1)
  PROVE  /\ DOMAIN InsertAt(q, i, e) = 1..(Len(q) + 1)
         /\ \A j \in 1..(Len(q) + 1) :
              InsertAt(q, i, e)[j] =
                IF j < i THEN q[j] ELSE IF j = i THEN e ELSE q[j - 1]
<1> DEFINE a == SubSeq(q, 1, i - 1)
           c == SubSeq(q, i, Len(q))
<1>1. /\ a \in Seq(S) /\ Len(a) = i - 1
      /\ \A j \in 1..(i - 1) : a[j] = q[j]
  BY SubSeqProperties
<1>2. /\ c \in Seq(S) /\ Len(c) = Len(q) - i + 1
      /\ \A j \in 1..(Len(q) - i + 1) : c[j] = q[i + j - 1]
  BY SubSeqProperties
<1> HIDE DEF a, c
<1>3. <<e>> \in Seq(S) /\ Len(<<e>>) = 1 /\ <<e>>[1] = e
  OBVIOUS
<1> DEFINE b == a \o <<e>>
<1>4. /\ b \in Seq(S) /\ Len(b) = i
      /\ \A j \in 1..i : b[j] = IF j < i THEN q[j] ELSE e
  BY <1>1, <1>3, ConcatProperties
<1> HIDE DEF b
<1>5. /\ DOMAIN (b \o c) = 1..(Len(q) + 1)
      /\ \A j \in 1..(Len(q) + 1) :
           (b \o c)[j] = IF j < i THEN q[j] ELSE IF j = i THEN e ELSE q[j - 1]
  <2>1. /\ DOMAIN (b \o c) = 1..(Len(q) + 1)
        /\ \A j \in 1..(Len(q) + 1) :
             (b \o c)[j] = IF j <= i THEN b[j] ELSE c[j - i]
    <3>1. /\ Len(b \o c) = Len(b) + Len(c)
          /\ b \o c \in Seq(S)
          /\ \A j \in 1..(Len(b) + Len(c)) :
               (b \o c)[j] = IF j <= Len(b) THEN b[j] ELSE c[j - Len(b)]
      BY <1>2, <1>4, ConcatProperties
    <3>2. Len(b) + Len(c) = Len(q) + 1
      BY <1>2, <1>4
    <3>3. DOMAIN (b \o c) = 1..Len(b \o c)
      BY <3>1, LenProperties
    <3> QED
      BY <1>4, <3>1, <3>2, <3>3
  <2>2. ASSUME NEW j \in 1..(Len(q) + 1)
        PROVE  (b \o c)[j] = IF j < i THEN q[j]
                             ELSE IF j = i THEN e ELSE q[j - 1]
    <3>1. CASE j <= i
      <4>1. j \in 1..i
        BY <3>1
      <4> QED
        BY <1>4, <2>1, <3>1, <4>1
    <3>2. CASE j > i
      <4>1. j - i \in 1..(Len(q) - i + 1) /\ i + (j - i) - 1 = j - 1
        BY <3>2
      <4>2. (b \o c)[j] = c[j - i]
        BY <2>1, <3>2
      <4> QED
        BY <1>2, <3>2, <4>1, <4>2
    <3>3. j <= i \/ j > i
      OBVIOUS
    <3> QED
      BY ONLY <3>1, <3>2, <3>3
  <2> QED
    BY <2>1, <2>2
<1>6. InsertAt(q, i, e) = b \o c
  BY DEF InsertAt, a, b, c
<1> QED
  BY <1>5, <1>6

LEMMA InsertAtIds ==
  ASSUME NEW S, NEW q \in Seq(S), NEW e \in S, NEW i \in 1..(Len(q) + 1)
  PROVE  /\ QueuedIds(InsertAt(q, i, e)) = QueuedIds(q) \cup {e.id}
         /\ IdsApart(q) /\ e.id \notin QueuedIds(q) =>
              IdsApart(InsertAt(q, i, e))
<1> DEFINE d == InsertAt(q, i, e)
<1>5. /\ DOMAIN d = 1..(Len(q) + 1)
      /\ \A j \in 1..(Len(q) + 1) :
           d[j] = IF j < i THEN q[j] ELSE IF j = i THEN e ELSE q[j - 1]
  BY InsertAtIs
<1> HIDE DEF d
<1>7. DOMAIN q = 1..Len(q)
  OBVIOUS
<1>8. ASSUME NEW j \in DOMAIN d PROVE d[j].id \in QueuedIds(q) \cup {e.id}
  <2>1. CASE j < i
    <3>1. j \in DOMAIN q /\ d[j] = q[j]
      BY <1>5, <1>7, <2>1
    <3> QED
      BY <3>1 DEF QueuedIds
  <2>2. CASE j = i
    BY <1>5, <2>2
  <2>3. CASE j > i
    <3>1. j - 1 \in DOMAIN q /\ d[j] = q[j - 1]
      BY <1>5, <1>7, <2>3
    <3> QED
      BY <3>1 DEF QueuedIds
  <2> QED
    BY <1>5, <2>1, <2>2, <2>3
<1>9. ASSUME NEW j \in DOMAIN q PROVE q[j].id \in QueuedIds(d)
  <2>1. CASE j < i
    BY <1>5, <1>7, <2>1 DEF QueuedIds
  <2>2. CASE j >= i
    <3>1. j + 1 \in DOMAIN d /\ d[j + 1] = q[j]
      BY <1>5, <1>7, <2>2
    <3> QED
      BY <3>1 DEF QueuedIds
  <2> QED
    BY <1>7, <2>1, <2>2
<1>10. e.id \in QueuedIds(d)
  BY <1>5 DEF QueuedIds
<1>11. QueuedIds(d) = QueuedIds(q) \cup {e.id}
  BY <1>8, <1>9, <1>10 DEF QueuedIds
<1>12. ASSUME IdsApart(q), e.id \notin QueuedIds(q) PROVE IdsApart(d)
  <2> SUFFICES ASSUME NEW j \in DOMAIN d, NEW k \in DOMAIN d, d[j].id = d[k].id
               PROVE  j = k
    BY DEF IdsApart
  <2>1. \A x \in DOMAIN q : q[x].id # e.id
    BY <1>12 DEF QueuedIds
  <2>2. \A x, y \in DOMAIN q : q[x].id = q[y].id => x = y
    BY <1>12 DEF IdsApart
  <2>3. DOMAIN d = 1..(Len(q) + 1)
    BY <1>5
  <2>4. \A x \in 1..(Len(q) + 1) :
          d[x] = IF x < i THEN q[x] ELSE IF x = i THEN e ELSE q[x - 1]
    BY <1>5
  <2> DEFINE at(x) == IF x < i THEN x ELSE x - 1
  <2>5. ASSUME NEW x \in 1..(Len(q) + 1), x # i
        PROVE  at(x) \in DOMAIN q /\ d[x] = q[at(x)]
    BY <1>7, <2>4, <2>5
  <2>6. d[i] = e
    BY <2>4
  <2>7. CASE j # i /\ k # i
    <3>1. at(j) = at(k)
      BY <2>2, <2>3, <2>5, <2>7
    <3> QED
      BY <2>3, <2>7, <3>1
  <2>8. CASE j = i \/ k = i
    <3> HIDE DEF at
    <3> QED
      BY <2>1, <2>3, <2>5, <2>6, <2>8
  <2> QED
    BY <2>7, <2>8
<1> QED
  BY <1>11, <1>12 DEF d

LEMMA InsertSendNowIds ==
  ASSUME NEW X, NEW q \in Seq(Items(X)), NEW run, NEW item \in Items(X)
  PROVE  /\ QueuedIds(InsertSendNow(q, run, item)) = QueuedIds(q) \cup {item.id}
         /\ IdsApart(q) /\ item.id \notin QueuedIds(q) =>
              IdsApart(InsertSendNow(q, run, item))
<1> DEFINE e == [item EXCEPT !.now = TRUE]
           i == SendNowSlot(q, run)
<1>1. e \in Items(X) /\ e.id = item.id
  BY DEF Items
<1>2. i \in 1..(Len(q) + 1)
  BY SendNowSlotType
<1> HIDE DEF e, i
<1>3. /\ QueuedIds(InsertAt(q, i, e)) = QueuedIds(q) \cup {e.id}
      /\ IdsApart(q) /\ e.id \notin QueuedIds(q) => IdsApart(InsertAt(q, i, e))
  BY <1>1, <1>2, InsertAtIds
<1> QED
  BY <1>1, <1>3 DEF InsertSendNow, e, i

LEMMA InsertFrontIds ==
  ASSUME NEW S, NEW q \in Seq(S), NEW run, NEW item \in S
  PROVE  /\ QueuedIds(InsertFront(q, run, item)) = QueuedIds(q) \cup {item.id}
         /\ IdsApart(q) /\ item.id \notin QueuedIds(q) =>
              IdsApart(InsertFront(q, run, item))
<1> DEFINE i == IF FrontRuns(q, run) THEN 2 ELSE 1
<1>1. i \in 1..(Len(q) + 1)
  BY DEF FrontRuns
<1> HIDE DEF i
<1> QED
  BY <1>1, InsertAtIds DEF InsertFront, i

LEMMA PromoteRowIds ==
  ASSUME NEW X, NEW q \in Seq(Items(X)), NEW run, NEW k \in DOMAIN q,
         q[k].id # run, NEW edit \in BOOLEAN, IdsApart(q)
  PROVE  /\ QueuedIds(PromoteRow(q, run, k, edit)) = QueuedIds(q)
         /\ IdsApart(PromoteRow(q, run, k, edit))
<1> DEFINE r == RemoveAt(q, k)
           e == [q[k] EXCEPT !.ver = IF edit THEN @ + 1 ELSE @]
<1>1. r \in Seq(Items(X))
  BY RemoveRowType
<1>2. QueuedIds(r) = QueuedIds(q) \ {q[k].id} /\ IdsApart(r)
  BY RemoveAtIds
<1>3. q[k] \in Items(X) /\ q[k].id \in QueuedIds(q)
  BY DEF QueuedIds
<1>4. e \in Items(X) /\ e.id = q[k].id
  BY <1>3 DEF Items
<1> HIDE DEF r, e
<1>5. /\ QueuedIds(InsertSendNow(r, run, e)) = QueuedIds(r) \cup {e.id}
      /\ IdsApart(InsertSendNow(r, run, e))
  BY <1>1, <1>2, <1>4, InsertSendNowIds
<1> QED
  BY <1>2, <1>3, <1>4, <1>5 DEF PromoteRow, r, e

LEMMA EditRowIds ==
  ASSUME NEW X, NEW q \in Seq(Items(X)), NEW k \in DOMAIN q
  PROVE  /\ QueuedIds(EditRow(q, k)) = QueuedIds(q)
         /\ IdsApart(q) => IdsApart(EditRow(q, k))
<1> DEFINE e == [q[k] EXCEPT !.ver = @ + 1]
           r == [q EXCEPT ![k] = e]
<1>1. q[k] \in Items(X)
  OBVIOUS
<1>2. e.id = q[k].id
  BY <1>1 DEF Items
<1>3. EditRow(q, k) = r
  BY DEF EditRow
<1> HIDE DEF e
<1>4. DOMAIN r = DOMAIN q /\ \A j \in DOMAIN q : r[j].id = q[j].id
  BY <1>2
<1> HIDE DEF r
<1> QED
  BY <1>3, <1>4 DEF QueuedIds, IdsApart

LEMMA AppendApart ==
  ASSUME NEW S, NEW s \in Seq(S), NEW e
  PROVE  /\ ToSet(Append(s, e)) = ToSet(s) \cup {e}
         /\ Apart(s) /\ e \notin ToSet(s) => Apart(Append(s, e))
         /\ QueuedIds(Append(s, e)) = QueuedIds(s) \cup {e.id}
         /\ IdsApart(s) /\ e.id \notin QueuedIds(s) => IdsApart(Append(s, e))
<1> DEFINE r == Append(s, e)
           n == Len(s)
<1>1. n \in Nat /\ DOMAIN s = 1..n
  OBVIOUS
<1>2. /\ DOMAIN r = 1..(n + 1)
      /\ \A j \in 1..n : r[j] = s[j]
      /\ r[n + 1] = e
  BY AppendProperties
<1> HIDE DEF r, n
<1>3. DOMAIN r = DOMAIN s \cup {n + 1} /\ n + 1 \notin DOMAIN s
  BY <1>1, <1>2
<1>4. \A j \in DOMAIN s : r[j] = s[j]
  BY <1>1, <1>2
<1> DEFINE D == DOMAIN s
           m == n + 1
<1>9. DOMAIN r = D \cup {m} /\ r[m] = e
  BY <1>2, <1>3
<1> HIDE DEF m
<1>5. ToSet(r) = ToSet(s) \cup {e}
  BY <1>4, <1>9 DEF ToSet
<1>6. QueuedIds(r) = QueuedIds(s) \cup {e.id}
  BY <1>4, <1>9 DEF QueuedIds
<1>7. Apart(s) /\ e \notin ToSet(s) => Apart(r)
  BY <1>2, <1>3, <1>4 DEF Apart, ToSet
<1>8. IdsApart(s) /\ e.id \notin QueuedIds(s) => IdsApart(r)
  BY <1>2, <1>3, <1>4 DEF IdsApart, QueuedIds
<1> QED
  BY <1>5, <1>6, <1>7, <1>8 DEF r

LEMMA ConcatApart ==
  ASSUME NEW S, NEW s \in Seq(S), NEW t \in Seq(S)
  PROVE  /\ ToSet(s \o t) = ToSet(s) \cup ToSet(t)
         /\ Apart(s) /\ Apart(t) /\ ToSet(s) \cap ToSet(t) = {} =>
              Apart(s \o t)
<1> DEFINE r == s \o t
           n == Len(s)
           m == Len(t)
<1>1. n \in Nat /\ m \in Nat /\ DOMAIN s = 1..n /\ DOMAIN t = 1..m
  OBVIOUS
<1>2. /\ DOMAIN r = 1..(n + m)
      /\ \A j \in 1..(n + m) : r[j] = IF j <= n THEN s[j] ELSE t[j - n]
  BY ConcatProperties
<1> HIDE DEF r, n, m
<1>3. ASSUME NEW j \in DOMAIN r PROVE r[j] \in ToSet(s) \cup ToSet(t)
  <2>1. CASE j <= n
    BY <1>1, <1>2, <2>1 DEF ToSet
  <2>2. CASE j > n
    <3>1. j - n \in DOMAIN t /\ r[j] = t[j - n]
      BY <1>1, <1>2, <2>2
    <3> QED
      BY <3>1 DEF ToSet
  <2> QED
    BY <1>1, <1>2, <2>1, <2>2
<1>4. \A j \in DOMAIN s : s[j] \in ToSet(r)
  BY <1>1, <1>2 DEF ToSet
<1>5. ASSUME NEW j \in DOMAIN t PROVE t[j] \in ToSet(r)
  <2>1. n + j \in DOMAIN r /\ r[n + j] = t[j]
    BY <1>1, <1>2
  <2> QED
    BY <2>1 DEF ToSet
<1>6. ToSet(r) = ToSet(s) \cup ToSet(t)
  BY <1>3, <1>4, <1>5 DEF ToSet
<1>7. ASSUME Apart(s), Apart(t), ToSet(s) \cap ToSet(t) = {} PROVE Apart(r)
  <2> SUFFICES ASSUME NEW j \in DOMAIN r, NEW k \in DOMAIN r, r[j] = r[k]
               PROVE  j = k
    BY DEF Apart
  <2>1. \A x \in DOMAIN s, y \in DOMAIN t : s[x] # t[y]
    BY <1>7 DEF ToSet
  <2>2. \A x, y \in DOMAIN s : s[x] = s[y] => x = y
    BY <1>7 DEF Apart
  <2>3. \A x, y \in DOMAIN t : t[x] = t[y] => x = y
    BY <1>7 DEF Apart
  <2>4. ASSUME NEW x \in DOMAIN r, x > n
        PROVE  x - n \in DOMAIN t /\ r[x] = t[x - n]
    BY <1>1, <1>2, <2>4
  <2>5. ASSUME NEW x \in DOMAIN r, x <= n
        PROVE  x \in DOMAIN s /\ r[x] = s[x]
    BY <1>1, <1>2, <2>5
  <2>6. CASE j <= n /\ k <= n
    BY <2>2, <2>5, <2>6
  <2>7. CASE j > n /\ k > n
    <3>1. j - n = k - n
      BY <2>3, <2>4, <2>7
    <3> QED
      BY <1>1, <1>2, <3>1
  <2>8. CASE j <= n /\ k > n
    BY <2>1, <2>4, <2>5, <2>8
  <2>9. CASE j > n /\ k <= n
    BY <2>1, <2>4, <2>5, <2>9
  <2> QED
    BY <1>1, <1>2, <2>6, <2>7, <2>8, <2>9
<1> QED
  BY <1>6, <1>7 DEF r
------------------------------------------------------------------------------
(***************************************************************************)
(* What a sort or a filter returns is fixed by the order of the elements   *)
(* it takes: two of them return the same when their elements correspond in *)
(* that order.  So the rows that clients see (Wire) stay the same when the *)
(* queue changes in items that are not shown.                              *)
(***************************************************************************)

\* f lists the indices K in increasing order of their keys.
Lists(f, n, K, key) ==
  /\ \A i \in 1..n : f[i] \in K
  /\ \A i, j \in 1..n : i < j => key[f[i]] < key[f[j]]
  /\ \A k \in K : \E i \in 1..n : f[i] = k

\* Two such lists are the same.
LEMMA ListsUnique ==
  ASSUME NEW K, NEW key, \A k \in K : key[k] \in Int,
         NEW f, NEW n \in Nat, Lists(f, n, K, key),
         NEW g, NEW m \in Nat, Lists(g, m, K, key)
  PROVE  n = m /\ \A i \in 1..n : f[i] = g[i]
<1>1. \A i, j \in 1..n : key[f[i]] < key[f[j]] => i < j
  BY DEF Lists
<1>2. \A i, j \in 1..m : key[g[i]] < key[g[j]] => i < j
  BY DEF Lists
<1>3. \A i \in 1..n : i <= m => f[i] = g[i]
  <2> DEFINE T == {i \in 1..n : i <= m /\ f[i] # g[i]}
  <2> SUFFICES ASSUME T # {} PROVE FALSE
    OBVIOUS
  <2>1. IsFiniteSet(1..n)
    BY FS_Interval
  <2>2. T \in SUBSET Int /\ IsFiniteSet(T)
    BY <2>1, FS_Subset
  <2>3. PICK i \in T : \A t \in T : i <= t
    BY <2>2, LeastElement
  <2>4. /\ i \in 1..n /\ i \in 1..m /\ f[i] # g[i]
        /\ \A j \in 1..n : j < i => f[j] = g[j]
    BY <2>3
  <2>5. PICK a \in 1..m : g[a] = f[i]
    BY <2>4 DEF Lists
  <2>6. PICK b \in 1..n : f[b] = g[i]
    BY <2>4 DEF Lists
  <2>7. i < a
    <3>1. a # i
      BY <2>4, <2>5
    <3>2. ~ a < i
      <4>1. a < i => a \in 1..n /\ f[a] = f[i]
        BY <2>4, <2>5
      <4> QED
        BY <2>4, <4>1 DEF Lists
    <3> QED
      BY <2>4, <3>1, <3>2
  <2>8. i < b
    <3>1. b # i
      BY <2>4, <2>6
    <3>2. ~ b < i
      <4>1. b < i => b \in 1..m /\ g[b] = g[i]
        BY <2>4, <2>6
      <4> QED
        BY <2>4, <4>1 DEF Lists
    <3> QED
      BY <2>4, <3>1, <3>2
  <2>9. key[g[i]] < key[f[i]]
    BY <2>4, <2>5, <2>7 DEF Lists
  <2>10. key[f[i]] < key[g[i]]
    BY <2>4, <2>6, <2>8 DEF Lists
  <2>11. key[f[i]] \in Int /\ key[g[i]] \in Int
    BY <2>4 DEF Lists
  <2> QED
    BY <2>9, <2>10, <2>11
<1>4. ~ n < m
  <2> SUFFICES ASSUME n < m PROVE FALSE
    OBVIOUS
  <2>1. n + 1 \in 1..m
    OBVIOUS
  <2>2. PICK i \in 1..n : f[i] = g[n + 1]
    BY <2>1 DEF Lists
  <2>3. i \in 1..m /\ g[i] = g[n + 1] /\ i < n + 1
    BY <1>3, <2>2
  <2>4. key[g[i]] < key[g[n + 1]] /\ key[g[i]] \in Int
    BY <2>1, <2>3 DEF Lists
  <2> QED
    BY <2>3, <2>4
<1>5. ~ m < n
  <2> SUFFICES ASSUME m < n PROVE FALSE
    OBVIOUS
  <2>1. m + 1 \in 1..n
    OBVIOUS
  <2>2. PICK i \in 1..m : g[i] = f[m + 1]
    BY <2>1 DEF Lists
  <2>3. i \in 1..n /\ i <= m /\ i < m + 1
    OBVIOUS
  <2>4. f[i] = f[m + 1]
    BY <1>3, <2>2, <2>3
  <2>5. key[f[i]] < key[f[m + 1]] /\ key[f[i]] \in Int
    BY <2>1, <2>3 DEF Lists
  <2> QED
    BY <2>4, <2>5
<1> QED
  BY <1>3, <1>4, <1>5

\* Nth lists the indices in the order of their keys.
LEMMA NthLists ==
  ASSUME NEW K, NEW key, Ordered(K, key)
  PROVE  Lists([i \in 1..Cardinality(K) |-> Nth(K, key, i)], Cardinality(K), K, key)
<1> DEFINE n == Cardinality(K)
           f == [i \in 1..n |-> Nth(K, key, i)]
<1>1. n \in Nat
  BY FS_CardinalityType DEF Ordered
<1>2. \A i \in 1..n : f[i] \in K /\ Cardinality(UpTo(K, key, f[i])) = i
  BY NthType
<1>3. \A k \in K : \E i \in 1..n : f[i] = k
  BY NthOnto
<1> HIDE DEF f
<1>4. ASSUME NEW i \in 1..n, NEW j \in 1..n, i < j
      PROVE  key[f[i]] < key[f[j]]
  <2> DEFINE A == UpTo(K, key, f[i])  B == UpTo(K, key, f[j])
  <2> SUFFICES ASSUME key[f[j]] <= key[f[i]] PROVE FALSE
    BY <1>2 DEF Ordered
  <2>1. B \in SUBSET A
    <3>1. /\ f[i] \in K /\ f[j] \in K
          /\ \A k \in K : key[k] \in Int
      BY <1>2 DEF Ordered
    <3>2. \A k \in K : key[k] <= key[f[j]] => key[k] <= key[f[i]]
      BY <3>1
    <3> QED
      BY <3>2 DEF UpTo
  <2>2. IsFiniteSet(A)
    BY <1>2, PlaceType
  <2>3. Cardinality(B) <= Cardinality(A)
    BY <2>1, <2>2, FS_Subset
  <2> QED
    BY <1>2, <1>4, <2>3
<1> HIDE DEF n
<1> QED
  BY <1>2, <1>3, <1>4 DEF Lists, f, n

\* g takes K onto L and keeps the order of the keys.
KeepsOrder(g, K, key, L, order) ==
  /\ \A k \in K : g[k] \in L
  /\ \A l \in L : \E k \in K : g[k] = l
  /\ \A j, k \in K : key[j] < key[k] => order[g[j]] < order[g[k]]

\* Two sorts whose elements correspond, by g, in the order of their keys.
LEMMA OrderBySame ==
  ASSUME NEW S, NEW q \in Seq(S), NEW K \in SUBSET DOMAIN q,
         NEW key, Ordered(K, key),
         NEW T, NEW r \in Seq(T), NEW L \in SUBSET DOMAIN r,
         NEW order, Ordered(L, order), NEW g, KeepsOrder(g, K, key, L, order)
  PROVE  /\ Cardinality(K) = Cardinality(L)
         /\ \A i \in 1..Cardinality(K) :
              \E k \in K : /\ OrderBy(q, K, key)[i] = q[k]
                           /\ OrderBy(r, L, order)[i] = r[g[k]]
<1> DEFINE n == Cardinality(K)  m == Cardinality(L)
           f == [i \in 1..n |-> Nth(K, key, i)]
           h == [i \in 1..m |-> Nth(L, order, i)]
           fg == [i \in 1..n |-> g[f[i]]]
<1>1. n \in Nat /\ m \in Nat
  BY FS_CardinalityType DEF Ordered
<1>2. Lists(f, n, K, key) /\ Lists(h, m, L, order)
  BY NthLists
<1>3. /\ \A i \in 1..n : OrderBy(q, K, key)[i] = q[f[i]]
      /\ \A i \in 1..m : OrderBy(r, L, order)[i] = r[h[i]]
  BY <1>1 DEF OrderBy
<1> HIDE DEF n, m, f, h
<1>4. Lists(fg, n, L, order)
  <2>1. \A i \in 1..n : fg[i] \in L
    BY <1>2 DEF Lists, KeepsOrder
  <2>2. \A i, j \in 1..n : i < j => order[fg[i]] < order[fg[j]]
    BY <1>2 DEF Lists, KeepsOrder
  <2>3. \A l \in L : \E i \in 1..n : fg[i] = l
    <3> SUFFICES ASSUME NEW l \in L PROVE \E i \in 1..n : fg[i] = l
      OBVIOUS
    <3>1. PICK k \in K : g[k] = l
      BY DEF KeepsOrder
    <3>2. PICK i \in 1..n : f[i] = k
      BY <1>2 DEF Lists
    <3> QED
      BY <3>1, <3>2
  <2> HIDE DEF fg
  <2> QED
    BY <2>1, <2>2, <2>3 DEF Lists
<1>5. \A l \in L : order[l] \in Int
  BY DEF Ordered
<1> DEFINE e == fg
<1>6. \A i \in 1..n : e[i] = g[f[i]]
  OBVIOUS
<1> HIDE DEF fg, e
<1>7. n = m /\ \A i \in 1..n : e[i] = h[i]
  <2>1. Lists(e, n, L, order)
    BY <1>4 DEF e
  <2> QED
    <3>1. n \in Nat /\ m \in Nat /\ Lists(h, m, L, order)
      BY <1>1, <1>2
    <3>2. n = m
      BY ONLY <1>5, <2>1, <3>1, ListsUnique
    <3>3. \A i \in 1..n : e[i] = h[i]
      BY ONLY <1>5, <2>1, <3>1, ListsUnique
    <3> QED
      BY <3>2, <3>3
<1>8. \A i \in 1..n : f[i] \in K
  BY <1>2 DEF Lists
<1>9. \A i \in 1..n : /\ OrderBy(q, K, key)[i] = q[f[i]]
                      /\ OrderBy(r, L, order)[i] = r[g[f[i]]]
  BY <1>3, <1>6, <1>7
<1> QED
  BY <1>7, <1>8, <1>9 DEF n, m
\* The items of q that clients see while run is the armed turn.
Shown(q, run, Rows) == {k \in DOMAIN q : q[k].id \in Rows /\ q[k].id # run}

\* g takes the shown items of q to those of r, in their order.
ShowsSame(g, q, run, r, cur, Rows) ==
  /\ \A k \in Shown(q, run, Rows) :
       /\ g[k] \in Shown(r, cur, Rows)
       /\ r[g[k]].id = q[k].id /\ r[g[k]].ver = q[k].ver
  /\ \A l \in Shown(r, cur, Rows) : \E k \in Shown(q, run, Rows) : g[k] = l
  /\ \A j, k \in Shown(q, run, Rows) : j < k => g[j] < g[k]

\* What clients see is the same when the shown items correspond in order.
LEMMA WireSame ==
  ASSUME NEW X, NEW q \in Seq(Items(X)), NEW run, NEW r \in Seq(Items(X)),
         NEW cur, NEW Rows, NEW g, ShowsSame(g, q, run, r, cur, Rows)
  PROVE  Wire(r, cur, Rows) = Wire(q, run, Rows)
<1> DEFINE K == Shown(q, run, Rows)
           L == Shown(r, cur, Rows)
           key == [k \in DOMAIN q |-> k]
           order == [k \in DOMAIN r |-> k]
<1>1. K \in SUBSET DOMAIN q /\ L \in SUBSET DOMAIN r
  BY DEF Shown
<1>2. /\ \A k \in K : g[k] \in L /\ r[g[k]].id = q[k].id /\ r[g[k]].ver = q[k].ver
      /\ \A l \in L : \E k \in K : g[k] = l
      /\ \A j, k \in K : j < k => g[j] < g[k]
  BY DEF ShowsSame
<1>3. Wire(q, run, Rows) = [i \in DOMAIN Keep(q, K) |->
                              [id |-> Keep(q, K)[i].id, ver |-> Keep(q, K)[i].ver]]
  BY Zenon DEF Wire, Shown
<1>4. Wire(r, cur, Rows) = [i \in DOMAIN Keep(r, L) |->
                              [id |-> Keep(r, L)[i].id, ver |-> Keep(r, L)[i].ver]]
  BY Zenon DEF Wire, Shown
<1> HIDE DEF K, L
<1>5. Ordered(K, key) /\ Ordered(L, order)
  BY <1>1, KeepOrdered
<1>6. KeepsOrder(g, K, key, L, order)
  BY <1>1, <1>2 DEF KeepsOrder
<1>7. Keep(q, K) = OrderBy(q, K, key) /\ Keep(r, L) = OrderBy(r, L, order)
  BY DEF Keep
<1> HIDE DEF key, order
<1> DEFINE n == Cardinality(K)
           a == OrderBy(q, K, key)
           b == OrderBy(r, L, order)
<1>8. /\ n = Cardinality(L)
      /\ \A i \in 1..n : \E k \in K : a[i] = q[k] /\ b[i] = r[g[k]]
  BY <1>1, <1>5, <1>6, OrderBySame
<1>9. DOMAIN a = 1..n /\ DOMAIN b = 1..n
  BY <1>8 DEF OrderBy
<1> HIDE DEF a, b, n
<1>10. \A i \in 1..n : a[i].id = b[i].id /\ a[i].ver = b[i].ver
  BY <1>2, <1>8
<1> QED
  BY <1>3, <1>4, <1>7, <1>9, <1>10 DEF a, b

\* An item at the end of the queue that is not shown.
LEMMA WireAppend ==
  ASSUME NEW X, NEW q \in Seq(Items(X)), NEW run, NEW Rows,
         NEW item \in Items(X), item.id \notin Rows
  PROVE  Wire(Append(q, item), run, Rows) = Wire(q, run, Rows)
<1> DEFINE r == Append(q, item)
           g == [k \in DOMAIN q |-> k]
<1>1. /\ r \in Seq(Items(X)) /\ DOMAIN r = 1..(Len(q) + 1)
      /\ \A k \in 1..Len(q) : r[k] = q[k]
      /\ r[Len(q) + 1] = item
  BY AppendProperties
<1> HIDE DEF r
<1>2. Shown(r, run, Rows) = Shown(q, run, Rows)
  BY <1>1 DEF Shown
<1>3. \A k \in Shown(q, run, Rows) : g[k] = k /\ r[k] = q[k]
  BY <1>1 DEF Shown
<1>4. ShowsSame(g, q, run, r, run, Rows)
  BY <1>2, <1>3 DEF ShowsSame
<1> HIDE DEF g
<1>5. Wire(r, run, Rows) = Wire(q, run, Rows)
  BY <1>1, <1>4, WireSame
<1> QED
  BY <1>5 DEF r

\* An item anywhere that is not shown.
LEMMA WireInsertAt ==
  ASSUME NEW X, NEW q \in Seq(Items(X)), NEW run, NEW Rows,
         NEW item \in Items(X), item.id \notin Rows, NEW i \in 1..(Len(q) + 1)
  PROVE  Wire(InsertAt(q, i, item), run, Rows) = Wire(q, run, Rows)
<1> DEFINE r == InsertAt(q, i, item)
           g == [k \in DOMAIN q |-> IF k < i THEN k ELSE k + 1]
<1>1. /\ r \in Seq(Items(X)) /\ DOMAIN r = 1..(Len(q) + 1)
      /\ \A j \in 1..(Len(q) + 1) :
           r[j] = IF j < i THEN q[j] ELSE IF j = i THEN item ELSE q[j - 1]
  BY InsertAtType, InsertAtIs
<1> HIDE DEF r
<1>2. DOMAIN q = 1..Len(q)
  OBVIOUS
<1>3. \A k \in DOMAIN q : g[k] \in DOMAIN r /\ r[g[k]] = q[k]
  BY <1>1, <1>2
<1>4. \A k \in Shown(q, run, Rows) :
        /\ g[k] \in Shown(r, run, Rows)
        /\ r[g[k]].id = q[k].id /\ r[g[k]].ver = q[k].ver
  <2> HIDE DEF g
  <2> QED
    BY <1>3 DEF Shown
<1>5. ASSUME NEW l \in Shown(r, run, Rows)
      PROVE  \E k \in Shown(q, run, Rows) : g[k] = l
  <2>1. l \in 1..(Len(q) + 1) /\ r[l].id \in Rows /\ r[l].id # run
    BY <1>1 DEF Shown
  <2>2. l # i
    BY <1>1, <2>1
  <2>3. PICK k \in DOMAIN q : g[k] = l
    <3>1. l < i => l \in DOMAIN q /\ g[l] = l
      BY <1>2, <2>1
    <3>2. l > i => l - 1 \in DOMAIN q /\ g[l - 1] = l
      BY <1>2, <2>1
    <3> HIDE DEF g
    <3> QED
      BY <2>1, <2>2, <3>1, <3>2
  <2> HIDE DEF g
  <2> QED
    BY <1>3, <2>1, <2>3 DEF Shown
<1>6. \A j, k \in Shown(q, run, Rows) : j < k => g[j] < g[k]
  BY <1>2 DEF Shown
<1> HIDE DEF g
<1>11. ShowsSame(g, q, run, r, run, Rows)
  BY <1>4, <1>5, <1>6 DEF ShowsSame
<1>12. Wire(r, run, Rows) = Wire(q, run, Rows)
  BY <1>1, <1>11, WireSame
<1> QED
  BY <1>12 DEF r

LEMMA WireInsertFront ==
  ASSUME NEW X, NEW q \in Seq(Items(X)), NEW run, NEW Rows,
         NEW item \in Items(X), item.id \notin Rows
  PROVE  Wire(InsertFront(q, run, item), run, Rows) = Wire(q, run, Rows)
<1>1. (IF FrontRuns(q, run) THEN 2 ELSE 1) \in 1..(Len(q) + 1)
  BY DEF FrontRuns
<1> QED
  BY <1>1, WireInsertAt DEF InsertFront

\* The front leaves that is not shown, because it is no row or because it was
\* the armed turn; cur is the turn armed afterwards.
LEMMA WireTail ==
  ASSUME NEW X, NEW q \in Seq(Items(X)), q # <<>>, NEW run, NEW cur, NEW Rows,
         q[1].id \notin Rows \/ q[1].id = run,
         \A k \in 2..Len(q) : q[k].id \in Rows => (q[k].id = run <=> q[k].id = cur)
  PROVE  Wire(Tail(q), cur, Rows) = Wire(q, run, Rows)
<1> DEFINE r == Tail(q)
           g == [k \in DOMAIN q |-> k - 1]
<1>1. /\ r \in Seq(Items(X)) /\ DOMAIN r = 1..(Len(q) - 1)
      /\ \A k \in 1..(Len(q) - 1) : r[k] = q[k + 1]
      /\ DOMAIN q = 1..Len(q) /\ Len(q) >= 1
  BY HeadTailProperties
<1> HIDE DEF r
<1>2. \A k \in Shown(q, run, Rows) : k \in 2..Len(q)
  BY <1>1 DEF Shown
<1>3. ASSUME NEW k \in 2..Len(q)
      PROVE  k - 1 \in DOMAIN r /\ r[k - 1] = q[k] /\ g[k] = k - 1
  BY <1>1
<1>4. \A k \in Shown(q, run, Rows) :
        /\ g[k] \in Shown(r, cur, Rows)
        /\ r[g[k]].id = q[k].id /\ r[g[k]].ver = q[k].ver
  <2> HIDE DEF g
  <2> QED
    BY <1>2, <1>3 DEF Shown
<1>5. ASSUME NEW l \in Shown(r, cur, Rows)
      PROVE  \E k \in Shown(q, run, Rows) : g[k] = l
  <2>1. l \in 1..(Len(q) - 1) /\ r[l] = q[l + 1] /\ l + 1 \in 2..Len(q)
    BY <1>1 DEF Shown
  <2>2. q[l + 1].id \in Rows /\ q[l + 1].id # cur
    BY <2>1 DEF Shown
  <2>3. l + 1 \in Shown(q, run, Rows) /\ g[l + 1] = l
    BY <1>1, <2>1, <2>2 DEF Shown
  <2> HIDE DEF g
  <2> QED
    BY <2>3
<1>6. \A j, k \in Shown(q, run, Rows) : j < k => g[j] < g[k]
  BY <1>1 DEF Shown
<1> HIDE DEF g
<1>11. ShowsSame(g, q, run, r, cur, Rows)
  BY <1>4, <1>5, <1>6 DEF ShowsSame
<1>12. Wire(r, cur, Rows) = Wire(q, run, Rows)
  BY <1>1, <1>11, WireSame
<1> QED
  BY <1>12 DEF r

\* A filter that spares every shown item.
LEMMA WireKeep ==
  ASSUME NEW X, NEW q \in Seq(Items(X)), NEW run, NEW Rows,
         NEW J \in SUBSET DOMAIN q, Shown(q, run, Rows) \subseteq J
  PROVE  Wire(Keep(q, J), run, Rows) = Wire(q, run, Rows)
<1> DEFINE r == Keep(q, J)
           key == [k \in DOMAIN q |-> k]
           n == Cardinality(J)
           f == [i \in 1..n |-> Nth(J, key, i)]
           g == [k \in J |-> CHOOSE i \in 1..n : f[i] = k]
<1>1. Ordered(J, key)
  BY KeepOrdered
<1>2. Lists(f, n, J, key) /\ n \in Nat
  <2> HIDE DEF key
  <2> QED
    BY <1>1, NthLists, FS_CardinalityType DEF Ordered
<1>3. r \in Seq(Items(X))
  BY KeepType
<1>4. DOMAIN r = 1..n /\ \A i \in 1..n : r[i] = q[f[i]]
  BY <1>2 DEF Keep, OrderBy
<1>5. \A k \in DOMAIN q : key[k] = k /\ k \in Int
  OBVIOUS
<1> HIDE DEF r, key, n, f
<1>6. \A k \in J : g[k] \in 1..n /\ f[g[k]] = k
  BY <1>2 DEF Lists
<1>7. \A i \in 1..n : f[i] \in J /\ g[f[i]] = i
  <2>1. \A i, j \in 1..n : f[i] = f[j] => i = j
    BY <1>2, <1>5 DEF Lists
  <2>2. \A i \in 1..n : f[i] \in J
    BY <1>2 DEF Lists
  <2> HIDE DEF g
  <2> QED
    BY <1>6, <2>1, <2>2
<1> HIDE DEF g
<1>8. \A k \in Shown(q, run, Rows) :
        /\ g[k] \in Shown(r, run, Rows)
        /\ r[g[k]].id = q[k].id /\ r[g[k]].ver = q[k].ver
  BY <1>4, <1>6 DEF Shown
<1>9. \A l \in Shown(r, run, Rows) : \E k \in Shown(q, run, Rows) : g[k] = l
  BY <1>4, <1>7 DEF Shown
<1>10. \A j, k \in Shown(q, run, Rows) : j < k => g[j] < g[k]
  <2> SUFFICES ASSUME NEW j \in J, NEW k \in J, j < k PROVE g[j] < g[k]
    OBVIOUS
  <2>1. g[j] \in 1..n /\ g[k] \in 1..n /\ f[g[j]] = j /\ f[g[k]] = k
    BY <1>6
  <2>2. ~ g[k] < g[j]
    BY <1>2, <1>5, <2>1 DEF Lists
  <2>3. g[j] # g[k]
    BY <2>1
  <2> QED
    BY <2>1, <2>2, <2>3
<1>11. ShowsSame(g, q, run, r, run, Rows)
  BY <1>8, <1>9, <1>10 DEF ShowsSame
<1>12. Wire(r, run, Rows) = Wire(q, run, Rows)
  BY <1>3, <1>11, WireSame
<1> QED
  BY <1>12 DEF r
==============================================================================
