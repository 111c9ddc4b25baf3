------------------------- MODULE QueueJournalProofs -------------------------
(***************************************************************************)
(* Proofs about QueueJournal, for any prompts, clients, environments and   *)
(* bounds: what a restarted session recovers from the journal.             *)
(*                                                                         *)
(* The replay of a journal is a recursive function of the number of lines  *)
(* read; what it returns is proved by induction, stated with sets of       *)
(* numbers: a set that holds 0 and the successor of each of its members    *)
(* holds every number.                                                     *)
(*                                                                         *)
(* JournalInv is inductive, whatever the environment does: the types, that *)
(* no prompt is queued or recovered twice, that no line comes from the     *)
(* future.  Relative to it, Matches, Kept and Intact are: what recovery    *)
(* would return is the queue, holds it, or holds what no lost line named.  *)
(* They follow one appended line at a time, for recovering from a journal  *)
(* with one more line is applying its event to what was recovered before.  *)
(***************************************************************************)
EXTENDS QueueJournal, PromptQueueProofs
LOCAL INSTANCE SequencesExt

------------------------------------------------------------------------------
(***************************************************************************)
(* What filters and sorts of a sequence return, as lists of its elements.  *)
(***************************************************************************)

\* r lists the elements of q at the indices K, in increasing order of the keys.
Takes(r, q, K, key) ==
  \E f : /\ Lists(f, Len(r), K, key)
         /\ \A i \in 1..Len(r) : r[i] = q[f[i]]

\* A sort does.
LEMMA OrderByTakes ==
  ASSUME NEW S, NEW q \in Seq(S), NEW K \in SUBSET DOMAIN q, NEW key,
         Ordered(K, key)
  PROVE  Takes(OrderBy(q, K, key), q, K, key)
<1> DEFINE n == Cardinality(K)
           f == [i \in 1..n |-> Nth(K, key, i)]
           r == OrderBy(q, K, key)
<1>1. /\ Len(r) = n
      /\ \A i \in 1..n : r[i] = q[Nth(K, key, i)]
  BY OrderByType
<1>2. Lists(f, n, K, key)
  BY NthLists
<1>3. \A i \in 1..n : r[i] = q[f[i]]
  BY <1>1
<1> HIDE DEF f, n, r
<1>4. Takes(r, q, K, key)
  BY <1>1, <1>2, <1>3 DEF Takes
<1> QED
  BY <1>4 DEF r

\* There is one such list.
LEMMA TakesUnique ==
  ASSUME NEW S, NEW r \in Seq(S), NEW T, NEW s \in Seq(T), NEW q, NEW K, NEW key,
         \A k \in K : key[k] \in Int, Takes(r, q, K, key), Takes(s, q, K, key)
  PROVE  r = s
<1> DEFINE n == Len(r)  m == Len(s)
<1>1. n \in Nat /\ m \in Nat /\ DOMAIN r = 1..n /\ DOMAIN s = 1..m
  OBVIOUS
<1>2. PICK f : Lists(f, n, K, key) /\ \A i \in 1..n : r[i] = q[f[i]]
  BY DEF Takes
<1>3. PICK g : Lists(g, m, K, key) /\ \A i \in 1..m : s[i] = q[g[i]]
  BY DEF Takes
<1> HIDE DEF n, m
<1>4. n = m
  BY <1>1, <1>2, <1>3, ListsUnique
<1>5. \A i \in 1..n : f[i] = g[i]
  BY <1>1, <1>2, <1>3, ListsUnique
<1>6. \A i \in 1..n : r[i] = s[i]
  BY <1>2, <1>3, <1>4, <1>5
<1>7. r = [i \in 1..n |-> r[i]] /\ s = [i \in 1..m |-> s[i]]
  BY <1>1
<1> QED
  BY <1>4, <1>6, <1>7

\* f finds the elements of r in q, in their order, at the indices K.
Finds(f, r, q, K) ==
  /\ \A i \in 1..Len(r) : f[i] \in K /\ r[i] = q[f[i]]
  /\ \A i, j \in 1..Len(r) : i < j => f[i] < f[j]
  /\ \A k \in K : \E i \in 1..Len(r) : f[i] = k

\* A filter lists what it keeps in the order of the sequence, and nothing else
\* does.
LEMMA KeepTakes ==
  ASSUME NEW S, NEW q \in Seq(S), NEW K \in SUBSET DOMAIN q
  PROVE  Takes(Keep(q, K), q, K, [k \in DOMAIN q |-> k])
<1> DEFINE key == [k \in DOMAIN q |-> k]
<1>1. Ordered(K, key)
  BY KeepOrdered
<1> HIDE DEF key
<1>2. Takes(OrderBy(q, K, key), q, K, key)
  BY <1>1, OrderByTakes
<1> QED
  BY <1>2 DEF Keep, key

LEMMA KeepIs ==
  ASSUME NEW S, NEW q \in Seq(S), NEW K \in SUBSET DOMAIN q,
         NEW T, NEW r \in Seq(T), NEW f, Finds(f, r, q, K)
  PROVE  Keep(q, K) = r
<1> DEFINE key == [k \in DOMAIN q |-> k]
<1>1. /\ Takes(Keep(q, K), q, K, key)
      /\ Keep(q, K) \in Seq(S)
  BY KeepTakes, KeepType
<1>2. \A k \in K : key[k] = k /\ key[k] \in Int
  OBVIOUS
<1> HIDE DEF key
<1>3. Lists(f, Len(r), K, key)
  <2>1. \A i, j \in 1..Len(r) : i < j => key[f[i]] < key[f[j]]
    BY <1>2 DEF Finds
  <2> QED
    BY <2>1 DEF Lists, Finds
<1>4. Takes(r, q, K, key)
  BY <1>3 DEF Takes, Finds
<1> QED
  BY <1>1, <1>2, <1>4, TakesUnique

\* Everything kept, and nothing.
LEMMA KeepAll ==
  ASSUME NEW S, NEW q \in Seq(S)
  PROVE  Keep(q, DOMAIN q) = q
<1> DEFINE K == DOMAIN q
           f == [i \in 1..Len(q) |-> i]
<1>1. K \in SUBSET DOMAIN q /\ K = 1..Len(q)
  OBVIOUS
<1>2. \A i \in 1..Len(q) : f[i] = i
  OBVIOUS
<1> HIDE DEF K, f
<1>3. Finds(f, q, q, K)
  BY <1>1, <1>2 DEF Finds
<1>4. Keep(q, K) = q
  BY <1>1, <1>3, KeepIs
<1> QED
  BY <1>4 DEF K

LEMMA KeepNothing == ASSUME NEW q PROVE Keep(q, {}) = <<>>
<1>1. Cardinality({}) = 0
  BY FS_EmptySet
<1> QED
  BY <1>1 DEF Keep, OrderBy

\* One element more at the end, kept or not.
LEMMA KeepAppend ==
  ASSUME NEW S, NEW s \in Seq(S), NEW x \in S, NEW K \in SUBSET DOMAIN s
  PROVE  /\ Keep(Append(s, x), K) = Keep(s, K)
         /\ Keep(Append(s, x), K \cup {Len(s) + 1}) = Append(Keep(s, K), x)
<1> DEFINE t == Append(s, x)
           r == Keep(s, K)
           n == Len(s)
           m == Len(r)
           L == K \cup {n + 1}
           u == Append(r, x)
<1>1. /\ t \in Seq(S) /\ DOMAIN t = 1..(n + 1) /\ t[n + 1] = x
      /\ \A i \in 1..n : t[i] = s[i]
  BY AppendProperties
<1>2. r \in Seq(S) /\ m \in Nat
  <2>1. r \in Seq(S)
    BY KeepType
  <2> QED
    BY <2>1
<1>3. PICK f : /\ Lists(f, m, K, [k \in DOMAIN s |-> k])
               /\ \A i \in 1..m : r[i] = s[f[i]]
  BY KeepTakes DEF Takes
<1>4. /\ \A i \in 1..m : f[i] \in K /\ f[i] \in 1..n
      /\ \A i, j \in 1..m : i < j => f[i] < f[j]
      /\ \A k \in K : \E i \in 1..m : f[i] = k
  <2>1. K \in SUBSET 1..n
    OBVIOUS
  <2>2. \A k \in K : [j \in DOMAIN s |-> j][k] = k
    OBVIOUS
  <2> HIDE DEF n, m
  <2>3. \A i \in 1..m : f[i] \in K
    BY <1>3 DEF Lists
  <2>4. \A i, j \in 1..m : i < j => f[i] < f[j]
    BY <1>3, <2>2, <2>3 DEF Lists
  <2> QED
    BY <1>3, <2>1, <2>3, <2>4 DEF Lists
<1>5. /\ u \in Seq(S) /\ Len(u) = m + 1 /\ u[m + 1] = x
      /\ \A i \in 1..m : u[i] = r[i]
  BY <1>2, AppendProperties
<1>6. K \in SUBSET DOMAIN t /\ L \in SUBSET DOMAIN t
  BY <1>1
<1>7. Keep(t, K) = r
  <2>1. \A i \in 1..m : f[i] \in K /\ r[i] = t[f[i]]
    BY <1>1, <1>3, <1>4
  <2>2. Finds(f, r, t, K)
    BY <1>4, <2>1 DEF Finds
  <2> HIDE DEF t, r, n, m
  <2> QED
    BY <1>1, <1>2, <1>6, <2>2, KeepIs
<1>8. Keep(t, L) = u
  <2> DEFINE g == [i \in 1..(m + 1) |-> IF i <= m THEN f[i] ELSE n + 1]
  <2>1. n \in Nat
    OBVIOUS
  <2>2. /\ \A i \in 1..m : g[i] = f[i] /\ i \in 1..(m + 1)
        /\ g[m + 1] = n + 1 /\ m + 1 \in 1..(m + 1)
        /\ \A i \in 1..(m + 1) : i \in 1..m \/ i = m + 1
    BY <1>2
  <2> HIDE DEF g, t, u, r, n, m
  <2>3. ASSUME NEW i \in 1..(m + 1)
        PROVE  g[i] \in L /\ u[i] = t[g[i]]
    <3>1. CASE i \in 1..m
      BY <1>1, <1>3, <1>4, <1>5, <2>2, <3>1
    <3>2. CASE i = m + 1
      BY <1>1, <1>5, <2>2, <3>2
    <3> QED
      BY <2>2, <3>1, <3>2
  <2>4. \A i, j \in 1..(m + 1) : i < j => g[i] < g[j]
    <3> SUFFICES ASSUME NEW i \in 1..(m + 1), NEW j \in 1..(m + 1), i < j
                 PROVE  g[i] < g[j]
      OBVIOUS
    <3>1. i \in 1..m
      BY <1>2, <2>2
    <3>2. CASE j \in 1..m
      BY <1>4, <2>2, <3>1, <3>2
    <3>3. CASE j = m + 1
      BY <1>4, <2>1, <2>2, <3>1, <3>3
    <3> QED
      BY <2>2, <3>2, <3>3
  <2>5. \A k \in L : \E i \in 1..(m + 1) : g[i] = k
    BY <1>4, <2>2
  <2> HIDE DEF L
  <2>6. Finds(g, u, t, L)
    BY <1>5, <2>3, <2>4, <2>5 DEF Finds
  <2> QED
    BY <1>1, <1>5, <1>6, <2>6, KeepIs
<1> QED
  BY <1>7, <1>8

\* What is left when one element is removed.
LEMMA RemoveAtIs ==
  ASSUME NEW S, NEW q \in Seq(S), NEW k \in 1..Len(q)
  PROVE  /\ RemoveAt(q, k) \in Seq(S) /\ Len(RemoveAt(q, k)) = Len(q) - 1
         /\ \A i \in 1..(Len(q) - 1) :
              RemoveAt(q, k)[i] = q[IF i < k THEN i ELSE i + 1]
<1> DEFINE a == SubSeq(q, 1, k - 1)
           c == SubSeq(q, k + 1, Len(q))
           r == a \o c
<1>1. /\ a \in Seq(S) /\ Len(a) = k - 1
      /\ \A i \in 1..(k - 1) : a[i] = q[i]
  BY SubSeqProperties
<1>2. /\ c \in Seq(S) /\ Len(c) = Len(q) - k
      /\ \A i \in 1..(Len(q) - k) : c[i] = q[k + i]
  BY SubSeqProperties
<1> HIDE DEF a, c
<1>3. /\ r \in Seq(S) /\ Len(r) = Len(q) - 1
      /\ \A i \in 1..(Len(q) - 1) :
           r[i] = IF i < k THEN a[i] ELSE c[i - (k - 1)]
  <2>1. /\ r \in Seq(S) /\ Len(r) = Len(a) + Len(c)
        /\ \A i \in 1..(Len(a) + Len(c)) :
             r[i] = IF i <= Len(a) THEN a[i] ELSE c[i - Len(a)]
    BY <1>1, <1>2, ConcatProperties
  <2>2. Len(a) + Len(c) = Len(q) - 1
    BY <1>1, <1>2
  <2>3. \A i \in 1..(Len(q) - 1) : i <= Len(a) <=> i < k
    BY <1>1
  <2> QED
    BY <1>1, <2>1, <2>2, <2>3
<1> HIDE DEF r
<1>4. \A i \in 1..(Len(q) - 1) : r[i] = q[IF i < k THEN i ELSE i + 1]
  <2> SUFFICES ASSUME NEW i \in 1..(Len(q) - 1)
               PROVE  r[i] = q[IF i < k THEN i ELSE i + 1]
    OBVIOUS
  <2>1. CASE i < k
    <3>1. i \in 1..(k - 1)
      BY <2>1
    <3> QED
      BY <1>1, <1>3, <2>1, <3>1
  <2>2. CASE ~(i < k)
    <3>1. i - (k - 1) \in 1..(Len(q) - k) /\ k + (i - (k - 1)) = i + 1
      BY <2>2
    <3>2. r[i] = c[i - (k - 1)]
      BY <1>3, <2>2
    <3>3. c[i - (k - 1)] = q[i + 1]
      BY <1>2, <3>1
    <3> QED
      BY <2>2, <3>2, <3>3
  <2> QED
    BY <2>1, <2>2
<1> QED
  BY <1>3, <1>4 DEF RemoveAt, r, a, c

LEMMA KeepOthers ==
  ASSUME NEW S, NEW q \in Seq(S), NEW k \in 1..Len(q)
  PROVE  Keep(q, DOMAIN q \ {k}) = RemoveAt(q, k)
<1> DEFINE r == RemoveAt(q, k)
           n == Len(q) - 1
           K == DOMAIN q \ {k}
           f == [i \in 1..n |-> IF i < k THEN i ELSE i + 1]
<1>1. /\ r \in Seq(S) /\ Len(r) = n
      /\ \A i \in 1..n : r[i] = q[IF i < k THEN i ELSE i + 1]
  BY RemoveAtIs
<1>2. /\ K \in SUBSET DOMAIN q
      /\ \A i \in 1..n : f[i] = (IF i < k THEN i ELSE i + 1) /\ f[i] \in K
  OBVIOUS
<1>3. \A i, j \in 1..n : i < j => f[i] < f[j]
  OBVIOUS
<1>4. \A x \in K : \E i \in 1..n : f[i] = x
  <2> SUFFICES ASSUME NEW x \in K PROVE \E i \in 1..n : f[i] = x
    OBVIOUS
  <2>1. CASE x < k
    <3>1. x \in 1..n /\ f[x] = x
      BY <2>1
    <3> QED
      BY <3>1
  <2>2. CASE x > k
    <3>1. x - 1 \in 1..n /\ f[x - 1] = x
      BY <2>2
    <3> QED
      BY <3>1
  <2> QED
    BY <2>1, <2>2
<1> HIDE DEF f, r, K, n
<1>5. \A i \in 1..n : f[i] \in K /\ r[i] = q[f[i]]
  BY <1>1, <1>2
<1>6. Finds(f, r, q, K)
  BY <1>1, <1>3, <1>4, <1>5 DEF Finds
<1>7. Keep(q, K) = r
  BY <1>1, <1>2, <1>6, KeepIs
<1> QED
  BY <1>7 DEF K, r

------------------------------------------------------------------------------
(***************************************************************************)
(* Replay: what the lines of a journal come to, one after the other.       *)
(***************************************************************************)

\* Numbers by induction.
LEMMA AllNumbers ==
  ASSUME NEW S, NEW N \in Nat, 0 \in S,
         \A n \in 0..N : n \in S /\ n < N => n + 1 \in S
  PROVE  \A n \in 0..N : n \in S
<1> DEFINE T == {n \in 0..N : n \notin S}
<1> SUFFICES ASSUME T # {} PROVE FALSE
  OBVIOUS
<1>1. IsFiniteSet(0..N)
  BY FS_Interval
<1>2. T \in SUBSET Int /\ IsFiniteSet(T)
  BY <1>1, FS_Subset
<1>3. PICK n \in T : \A t \in T : n <= t
  BY <1>2, LeastElement
<1>4. n \in 1..N
  OBVIOUS
<1>5. n - 1 \in 0..N /\ n - 1 \notin T /\ n - 1 < N /\ (n - 1) + 1 = n
  BY <1>3, <1>4
<1> QED
  BY <1>3, <1>5

\* g[m] is what the first m events make of es, for m up to n.
Runs(g, es, events, n) ==
  /\ g[0] = es
  /\ \A m \in 1..n : g[m] = ApplyEvent(g[m - 1], events[m].ev)

LEMMA RunsExist ==
  ASSUME NEW es, NEW events, NEW N \in Nat
  PROVE  \E g : Runs(g, es, events, N)
<1> DEFINE S == {n \in 0..N : \E g : Runs(g, es, events, n)}
<1>1. 0 \in S
  <2> DEFINE g == [m \in {0} |-> es]
  <2>1. Runs(g, es, events, 0)
    BY DEF Runs
  <2> HIDE DEF g
  <2> QED
    BY <2>1
<1>2. ASSUME NEW n \in 0..N, n \in S, n < N PROVE n + 1 \in S
  <2>1. PICK g : Runs(g, es, events, n)
    BY <1>2
  <2> DEFINE next == ApplyEvent(g[n], events[n + 1].ev)
             h == [m \in 0..(n + 1) |-> IF m <= n THEN g[m] ELSE next]
  <2>2. /\ \A m \in 0..n : h[m] = g[m]
        /\ h[n + 1] = next
    OBVIOUS
  <2> HIDE DEF h
  <2>3. h[n + 1] = ApplyEvent(h[n], events[n + 1].ev)
    BY <2>2
  <2>4. ASSUME NEW m \in 1..n
        PROVE  h[m] = ApplyEvent(h[m - 1], events[m].ev)
    <3>1. m \in 0..n /\ m - 1 \in 0..n
      OBVIOUS
    <3>2. g[m] = ApplyEvent(g[m - 1], events[m].ev)
      BY <2>1 DEF Runs
    <3> QED
      BY <2>2, <3>1, <3>2
  <2>5. \A m \in 1..(n + 1) : m \in 1..n \/ m = n + 1
    OBVIOUS
  <2>6. \A m \in 1..(n + 1) : h[m] = ApplyEvent(h[m - 1], events[m].ev)
    BY <2>3, <2>4, <2>5
  <2>7. h[0] = es
    BY <2>1, <2>2 DEF Runs
  <2>8. Runs(h, es, events, n + 1)
    BY <2>6, <2>7 DEF Runs
  <2> QED
    BY <1>2, <2>8
<1> HIDE DEF S
<1>3. \A n \in 0..N : n \in S
  BY <1>1, <1>2, AllNumbers
<1> QED
  BY <1>3 DEF S

LEMMA RunsUnique ==
  ASSUME NEW es, NEW events, NEW N \in Nat,
         NEW g, Runs(g, es, events, N), NEW h, Runs(h, es, events, N)
  PROVE  \A n \in 0..N : g[n] = h[n]
<1> DEFINE S == {n \in 0..N : g[n] = h[n]}
<1>1. 0 \in S
  BY DEF Runs
<1>2. ASSUME NEW n \in 0..N, n \in S, n < N PROVE n + 1 \in S
  <2>1. n + 1 \in 1..N /\ (n + 1) - 1 = n /\ n + 1 \in 0..N
    BY <1>2
  <2>2. /\ g[n + 1] = ApplyEvent(g[n], events[n + 1].ev)
        /\ h[n + 1] = ApplyEvent(h[n], events[n + 1].ev)
    BY <2>1 DEF Runs
  <2> QED
    BY <1>2, <2>1, <2>2
<1> HIDE DEF S
<1>3. \A n \in 0..N : n \in S
  BY <1>1, <1>2, AllNumbers
<1> QED
  BY <1>3 DEF S

\* The recursive definition of Replay has such a g.
LEMMA ReplayIs ==
  ASSUME NEW es, NEW S, NEW events \in Seq(S),
         NEW g, Runs(g, es, events, Len(events))
  PROVE  Replay(es, events) = g[Len(events)]
<1> DEFINE N == Len(events)
           step(f) == [n \in 0..N |-> IF n = 0 THEN es
                                      ELSE ApplyEvent(f[n - 1], events[n].ev)]
           after == CHOOSE f : f = step(f)
           h == [n \in 0..N |-> g[n]]
<1>1. N \in Nat
  OBVIOUS
<1>2. Replay(es, events) = after[N]
  BY Zenon DEF Replay
<1>3. h = step(h)
  <2>1. ASSUME NEW n \in 0..N
        PROVE  g[n] = IF n = 0 THEN es ELSE ApplyEvent(h[n - 1], events[n].ev)
    <3>1. CASE n = 0
      BY <3>1 DEF Runs
    <3>2. CASE n # 0
      <4>1. n \in 1..N /\ n - 1 \in 0..N
        BY <3>2
      <4>2. g[n] = ApplyEvent(g[n - 1], events[n].ev)
        BY <4>1 DEF Runs
      <4> QED
        BY <3>2, <4>1, <4>2
    <3> QED
      BY <3>1, <3>2
  <2> QED
    BY <2>1
<1> HIDE DEF h
<1>4. after = step(after)
  BY <1>3, Zenon
<1> HIDE DEF after, N
<1>5. Runs(after, es, events, N)
  <2>1. after[0] = es
    BY <1>1, <1>4
  <2>2. ASSUME NEW m \in 1..N
        PROVE  after[m] = ApplyEvent(after[m - 1], events[m].ev)
    <3>1. m \in 0..N /\ m # 0
      BY <1>1
    <3> QED
      BY <1>4, <3>1
  <2> QED
    BY <2>1, <2>2 DEF Runs
<1>6. Runs(g, es, events, N)
  BY DEF N
<1>7. \A n \in 0..N : after[n] = g[n]
  BY <1>1, <1>5, <1>6, RunsUnique
<1>8. after[N] = g[N]
  BY <1>1, <1>7
<1> QED
  BY <1>2, <1>8 DEF N

\* No event, and one more.
LEMMA ReplayNone ==
  ASSUME NEW es PROVE Replay(es, <<>>) = es
<1>1. <<>> \in Seq({}) /\ Len(<<>>) = 0
  OBVIOUS
<1>2. PICK g : Runs(g, es, <<>>, 0)
  BY RunsExist
<1>3. Replay(es, <<>>) = g[0]
  BY <1>1, <1>2, ReplayIs
<1> QED
  BY <1>2, <1>3 DEF Runs

LEMMA ReplayAppend ==
  ASSUME NEW es, NEW S, NEW events \in Seq(S), NEW l \in S
  PROVE  Replay(es, Append(events, l)) = ApplyEvent(Replay(es, events), l.ev)
<1> DEFINE N == Len(events)
           longer == Append(events, l)
<1>1. /\ longer \in Seq(S) /\ Len(longer) = N + 1 /\ N \in Nat
      /\ longer[N + 1] = l
      /\ \A n \in 1..N : longer[n] = events[n]
  BY AppendProperties
<1> HIDE DEF longer, N
<1>2. PICK g : Runs(g, es, longer, N + 1)
  BY <1>1, RunsExist
<1>3. Runs(g, es, events, N)
  <2>1. \A m \in 1..N : m \in 1..(N + 1)
    BY <1>1
  <2> QED
    BY <1>1, <1>2, <2>1 DEF Runs
<1>4. Replay(es, longer) = g[N + 1]
  BY <1>1, <1>2, ReplayIs
<1>5. Replay(es, events) = g[N]
  BY <1>3, ReplayIs DEF N
<1>6. g[N + 1] = ApplyEvent(g[N], l.ev)
  <2>1. N + 1 \in 1..(N + 1) /\ (N + 1) - 1 = N
    BY <1>1
  <2> QED
    BY <1>1, <1>2, <2>1 DEF Runs
<1> QED
  BY <1>4, <1>5, <1>6 DEF longer

------------------------------------------------------------------------------
(***************************************************************************)
(* What each event makes of the entries.                                   *)
(***************************************************************************)

\* The entries es with version ver for that id.
Revised(es, id, ver) ==
  [k \in DOMAIN es |-> IF es[k].id = id THEN [es[k] EXCEPT !.ver = ver]
                                        ELSE es[k]]

LEMMA ApplyIs ==
  ASSUME NEW es, NEW ev \in Events
  PROVE  \/ /\ ev.op = "enqueue" /\ ev.id \in Ids /\ ev.ver \in Nat
            /\ ApplyEvent(es, ev) = Append(Without(es, ev.id),
                                          [id |-> ev.id, ver |-> ev.ver])
         \/ /\ ev.op = "dequeue" /\ ev.id \in Ids
            /\ ApplyEvent(es, ev) = Without(es, ev.id)
         \/ /\ ev.op = "edit" /\ ev.id \in Ids /\ ev.ver \in Nat
            /\ ApplyEvent(es, ev) = Revised(es, ev.id, ev.ver)
         \/ /\ ev.op = "reorder" /\ ev.ids \in Seq(Ids)
            /\ ApplyEvent(es, ev) = ApplyReorder(es, ev.ids)
         \/ /\ ev.op = "clear"
            /\ ApplyEvent(es, ev) = <<>>
<1>1. CASE ev.op = "enqueue"
  <2>1. ev.id \in Ids /\ ev.ver \in Nat
    BY <1>1 DEF Events
  <2> QED
    BY <1>1, <2>1 DEF ApplyEvent, ApplyEnqueue
<1>2. CASE ev.op = "dequeue"
  <2>1. ev.id \in Ids
    BY <1>2 DEF Events
  <2> QED
    BY <1>2, <2>1 DEF ApplyEvent
<1>3. CASE ev.op = "edit"
  <2>1. ev.id \in Ids /\ ev.ver \in Nat
    BY <1>3 DEF Events
  <2> QED
    BY <1>3, <2>1 DEF ApplyEvent, Revised
<1>4. CASE ev.op = "reorder"
  <2>1. ev.ids \in Seq(Ids)
    BY <1>4 DEF Events
  <2> QED
    BY <1>4, <2>1 DEF ApplyEvent
<1>5. CASE ev.op = "clear"
  BY <1>5 DEF ApplyEvent
<1>6. ev.op \in {"enqueue", "dequeue", "edit", "reorder", "clear"}
  BY DEF Events
<1> QED
  BY <1>1, <1>2, <1>3, <1>4, <1>5, <1>6

\* Two-digit keys are in the order of their digits.
LEMMA KeyLess ==
  ASSUME NEW n \in Nat, NEW a \in Nat, NEW b \in Nat,
         NEW j \in 0..n, NEW k \in 0..n
  PROVE  a * (n + 1) + j < b * (n + 1) + k <=> a < b \/ (a = b /\ j < k)
<1>1. ASSUME NEW x \in Nat, NEW y \in Nat, x < y
      PROVE  x * (n + 1) + (n + 1) <= y * (n + 1)
  <2>1. PICK d \in Nat : y = x + 1 + d
    BY <1>1
  <2>2. y * (n + 1) = x * (n + 1) + (n + 1) + d * (n + 1)
    BY <2>1
  <2>3. d * (n + 1) \in Nat
    OBVIOUS
  <2> QED
    BY <2>2, <2>3
<1>2. a * (n + 1) \in Nat /\ b * (n + 1) \in Nat
  OBVIOUS
<1>3. CASE a < b
  BY <1>1, <1>2, <1>3
<1>4. CASE b < a
  BY <1>1, <1>2, <1>4
<1>5. CASE a = b
  BY <1>2, <1>5
<1> QED
  BY <1>3, <1>4, <1>5

\* The keys by which a recovered queue is reordered.
SortKey(es, ids) ==
  [k \in DOMAIN es |-> Rank(ids, es[k].id) * (Len(es) + 1) + k]

LEMMA SortOrdered ==
  ASSUME NEW S, NEW es \in Seq(S), NEW ids \in Seq(Ids)
  PROVE  /\ Ordered(DOMAIN es, SortKey(es, ids))
         /\ \A j, k \in DOMAIN es :
              SortKey(es, ids)[j] < SortKey(es, ids)[k] <=>
                \/ Rank(ids, es[j].id) < Rank(ids, es[k].id)
                \/ Rank(ids, es[j].id) = Rank(ids, es[k].id) /\ j < k
<1> DEFINE n == Len(es)
           key == SortKey(es, ids)
           rank == [k \in 1..n |-> Rank(ids, es[k].id)]
<1>1. n \in Nat /\ DOMAIN es = 1..n
  OBVIOUS
<1>2. \A k \in 1..n : rank[k] \in Nat
  BY RankType
<1>3. \A k \in 1..n : key[k] = rank[k] * (n + 1) + k
  BY DEF SortKey
<1>4. \A k \in 1..n : rank[k] = Rank(ids, es[k].id)
  OBVIOUS
<1> HIDE DEF n, key, rank
<1>5. \A k \in 1..n : key[k] \in Int
  <2> SUFFICES ASSUME NEW k \in 1..n PROVE key[k] \in Int
    OBVIOUS
  <2>1. PICK a \in Nat : a = rank[k]
    BY <1>2
  <2>2. a * (n + 1) \in Nat /\ k \in Nat
    BY <1>1
  <2> QED
    BY <1>3, <2>1, <2>2
<1>6. ASSUME NEW j \in 1..n, NEW k \in 1..n
      PROVE  key[j] < key[k] <=> rank[j] < rank[k] \/ (rank[j] = rank[k] /\ j < k)
  <2>1. PICK a \in Nat, b \in Nat : a = rank[j] /\ b = rank[k]
    BY <1>2
  <2>2. j \in 0..n /\ k \in 0..n
    BY <1>1
  <2>3. a * (n + 1) + j < b * (n + 1) + k <=> a < b \/ (a = b /\ j < k)
    BY <1>1, <2>2, KeyLess
  <2> QED
    BY <1>3, <2>1, <2>3
<1>7. ASSUME NEW j \in 1..n, NEW k \in 1..n, key[j] = key[k]
      PROVE  j = k
  <2>1. PICK a \in Nat, b \in Nat : a = rank[j] /\ b = rank[k]
    BY <1>2
  <2>2. j \in 0..n /\ k \in 0..n
    BY <1>1
  <2>3. a * (n + 1) + j = b * (n + 1) + k
    BY <1>3, <1>7, <2>1
  <2> QED
    BY <1>1, <2>2, <2>3, KeyDigits
<1>8. IsFiniteSet(1..n)
  BY <1>1, FS_Interval
<1>9. Ordered(1..n, key)
  BY <1>5, <1>7, <1>8 DEF Ordered
<1> QED
  BY <1>1, <1>4, <1>6, <1>9 DEF key

\* A reorder loses no entry.
LEMMA ReorderTakes ==
  ASSUME NEW S, NEW es \in Seq(S), NEW ids \in Seq(Ids)
  PROVE  /\ ApplyReorder(es, ids) \in Seq(S)
         /\ Takes(ApplyReorder(es, ids), es, DOMAIN es, SortKey(es, ids))
         /\ \E f : Picks(ApplyReorder(es, ids), es, DOMAIN es, f)
<1> DEFINE K == DOMAIN es
           key == SortKey(es, ids)
<1>1. Ordered(K, key)
  BY SortOrdered
<1>2. K \in SUBSET DOMAIN es
  OBVIOUS
<1>3. ApplyReorder(es, ids) = OrderBy(es, K, key)
  BY DEF ApplyReorder, SortKey
<1> HIDE DEF K, key
<1>4. OrderBy(es, K, key) \in Seq(S)
  BY <1>1, <1>2, OrderByType
<1>5. Takes(OrderBy(es, K, key), es, K, key)
  BY <1>1, <1>2, OrderByTakes
<1>6. \E f : Picks(OrderBy(es, K, key), es, K, f)
  BY <1>1, <1>2, OrderByPicks
<1> QED
  BY <1>3, <1>4, <1>5, <1>6 DEF K, key

LEMMA ReorderedIds ==
  ASSUME NEW S, NEW es \in Seq(S), NEW ids \in Seq(Ids)
  PROVE  /\ QueuedIds(ApplyReorder(es, ids)) = QueuedIds(es)
         /\ IdsApart(es) => IdsApart(ApplyReorder(es, ids))
<1> DEFINE K == DOMAIN es
           r == ApplyReorder(es, ids)
<1>1. PICK f : Picks(r, es, K, f)
  BY ReorderTakes
<1> HIDE DEF K, r
<1>2. QueuedIds(r) = {es[k].id : k \in K} /\ (IdsApart(es) => IdsApart(r))
  BY <1>1, PicksSet
<1> QED
  BY <1>2 DEF QueuedIds, K, r

\* retain.
LEMMA WithoutIds ==
  ASSUME NEW S, NEW es \in Seq(S), NEW id
  PROVE  /\ Without(es, id) \in Seq(S)
         /\ QueuedIds(Without(es, id)) = QueuedIds(es) \ {id}
         /\ IdsApart(es) => IdsApart(Without(es, id))
<1> DEFINE K == {k \in DOMAIN es : es[k].id # id}
<1>1. K \in SUBSET DOMAIN es
  OBVIOUS
<1>2. {es[k].id : k \in K} = QueuedIds(es) \ {id}
  BY DEF QueuedIds
<1>3. Without(es, id) = Keep(es, K)
  BY DEF Without
<1> HIDE DEF K
<1>4. Keep(es, K) \in Seq(S)
  BY <1>1, KeepType
<1>5. /\ QueuedIds(Keep(es, K)) = {es[k].id : k \in K}
      /\ IdsApart(es) => IdsApart(Keep(es, K))
  BY <1>1, KeepSet
<1> QED
  BY <1>2, <1>3, <1>4, <1>5

LEMMA RevisedIds ==
  ASSUME NEW es \in Seq(Entries), NEW id, NEW ver \in Nat
  PROVE  /\ Revised(es, id, ver) \in Seq(Entries)
         /\ Len(Revised(es, id, ver)) = Len(es)
         /\ \A k \in DOMAIN es : Revised(es, id, ver)[k].id = es[k].id
         /\ QueuedIds(Revised(es, id, ver)) = QueuedIds(es)
         /\ IdsApart(es) => IdsApart(Revised(es, id, ver))
<1> DEFINE r == Revised(es, id, ver)
           n == Len(es)
<1>1. n \in Nat /\ DOMAIN es = 1..n /\ \A k \in 1..n : es[k] \in Entries
  OBVIOUS
<1>2. DOMAIN r = 1..n
  BY <1>1 DEF Revised
<1>3. \A k \in 1..n : r[k] \in Entries /\ r[k].id = es[k].id
  BY <1>1 DEF Revised, Entries
<1>4. r = [k \in 1..n |-> r[k]]
  BY <1>1 DEF Revised
<1> HIDE DEF r, n
<1>5. r \in Seq(Entries) /\ Len(r) = n
  BY <1>1, <1>3, <1>4
<1>6. QueuedIds(r) = QueuedIds(es)
  BY <1>1, <1>2, <1>3 DEF QueuedIds
<1>7. IdsApart(es) => IdsApart(r)
  BY <1>1, <1>2, <1>3 DEF IdsApart
<1> QED
  BY <1>1, <1>3, <1>5, <1>6, <1>7 DEF r, n

\* An event keeps the shape of the entries and gives no prompt two of them; only
\* an enqueue adds one.
LEMMA ApplyType ==
  ASSUME NEW es \in Seq(Entries), IdsApart(es), NEW ev \in Events
  PROVE  /\ ApplyEvent(es, ev) \in Seq(Entries)
         /\ IdsApart(ApplyEvent(es, ev))
<1>1. ASSUME ev.id \in Ids, ev.ver \in Nat,
             ApplyEvent(es, ev) = Append(Without(es, ev.id),
                                         [id |-> ev.id, ver |-> ev.ver])
      PROVE  ApplyEvent(es, ev) \in Seq(Entries) /\ IdsApart(ApplyEvent(es, ev))
  <2> DEFINE w == Without(es, ev.id)
             e == [id |-> ev.id, ver |-> ev.ver]
  <2>1. /\ w \in Seq(Entries) /\ IdsApart(w)
        /\ QueuedIds(w) = QueuedIds(es) \ {ev.id}
    BY WithoutIds
  <2>2. e \in Entries /\ e.id = ev.id
    BY <1>1 DEF Entries
  <2> HIDE DEF w, e
  <2>3. IdsApart(Append(w, e))
    BY <2>1, <2>2, AppendApart
  <2>4. Append(w, e) \in Seq(Entries)
    BY <2>1, <2>2
  <2> QED
    BY <1>1, <2>3, <2>4 DEF w, e
<1>2. ASSUME ApplyEvent(es, ev) = Without(es, ev.id)
      PROVE  ApplyEvent(es, ev) \in Seq(Entries) /\ IdsApart(ApplyEvent(es, ev))
  BY <1>2, WithoutIds
<1>3. ASSUME ev.ver \in Nat, ApplyEvent(es, ev) = Revised(es, ev.id, ev.ver)
      PROVE  ApplyEvent(es, ev) \in Seq(Entries) /\ IdsApart(ApplyEvent(es, ev))
  BY <1>3, RevisedIds
<1>4. ASSUME ev.ids \in Seq(Ids), ApplyEvent(es, ev) = ApplyReorder(es, ev.ids)
      PROVE  ApplyEvent(es, ev) \in Seq(Entries) /\ IdsApart(ApplyEvent(es, ev))
  BY <1>4, ReorderTakes, ReorderedIds
<1>5. ASSUME ApplyEvent(es, ev) = <<>>
      PROVE  ApplyEvent(es, ev) \in Seq(Entries) /\ IdsApart(ApplyEvent(es, ev))
  BY <1>5 DEF IdsApart
<1> QED
  BY <1>1, <1>2, <1>3, <1>4, <1>5, ApplyIs

LEMMA ApplyIds ==
  ASSUME NEW es \in Seq(Entries), NEW ev \in Events
  PROVE  QueuedIds(ApplyEvent(es, ev)) =
           CASE ev.op = "enqueue" -> QueuedIds(es) \cup {ev.id}
             [] ev.op = "dequeue" -> QueuedIds(es) \ {ev.id}
             [] ev.op \in {"edit", "reorder"} -> QueuedIds(es)
             [] ev.op = "clear" -> {}
<1>1. CASE /\ ev.op = "enqueue" /\ ev.id \in Ids /\ ev.ver \in Nat
           /\ ApplyEvent(es, ev) = Append(Without(es, ev.id),
                                         [id |-> ev.id, ver |-> ev.ver])
  <2> DEFINE w == Without(es, ev.id)
             e == [id |-> ev.id, ver |-> ev.ver]
  <2>1. w \in Seq(Entries) /\ QueuedIds(w) = QueuedIds(es) \ {ev.id}
    BY WithoutIds
  <2>2. e.id = ev.id
    OBVIOUS
  <2> HIDE DEF w, e
  <2>3. QueuedIds(Append(w, e)) = QueuedIds(w) \cup {e.id}
    BY <2>1, AppendApart
  <2>4. QueuedIds(ApplyEvent(es, ev)) = QueuedIds(es) \cup {ev.id}
    BY <1>1, <2>1, <2>2, <2>3 DEF w, e
  <2> QED
    BY <1>1, <2>4
<1>2. CASE ev.op = "dequeue" /\ ApplyEvent(es, ev) = Without(es, ev.id)
  BY <1>2, WithoutIds
<1>3. CASE /\ ev.op = "edit" /\ ev.ver \in Nat
           /\ ApplyEvent(es, ev) = Revised(es, ev.id, ev.ver)
  BY <1>3, RevisedIds
<1>4. CASE /\ ev.op = "reorder" /\ ev.ids \in Seq(Ids)
           /\ ApplyEvent(es, ev) = ApplyReorder(es, ev.ids)
  BY <1>4, ReorderedIds
<1>5. CASE ev.op = "clear" /\ ApplyEvent(es, ev) = <<>>
  BY <1>5 DEF QueuedIds
<1> QED
  BY <1>1, <1>2, <1>3, <1>4, <1>5, ApplyIs

------------------------------------------------------------------------------
(***************************************************************************)
(* Replaying a journal again.  Whatever the second replay starts from, the *)
(* entries that the first one has at a line are among those of the second, *)
(* in the same order; at the end nothing else is left of the second.       *)
(***************************************************************************)

\* The entries of a occur in b in their order.
Within(a, b) ==
  /\ \A i \in DOMAIN a : \E k \in DOMAIN b : b[k] = a[i]
  /\ \A i, j \in DOMAIN a, k, l \in DOMAIN b :
       b[k].id = a[i].id /\ b[l].id = a[j].id /\ i < j => k < l

\* What is taken of a is taken of b, in the same order.
SameOrder(a, K, key, b, L, order) ==
  /\ \A i \in K, k \in DOMAIN b : b[k] = a[i] => k \in L
  /\ \A i, j \in K, k, l \in L :
       b[k].id = a[i].id /\ b[l].id = a[j].id /\ key[i] < key[j]
         => order[k] < order[l]

LEMMA WithinTakes ==
  ASSUME NEW a, NEW b, Within(a, b),
         NEW K \in SUBSET DOMAIN a, NEW key,
         NEW L \in SUBSET DOMAIN b, NEW order, \A k \in L : order[k] \in Int,
         SameOrder(a, K, key, b, L, order),
         NEW S, NEW r \in Seq(S), Takes(r, a, K, key),
         NEW T, NEW s \in Seq(T), Takes(s, b, L, order)
  PROVE  Within(r, s)
<1> DEFINE n == Len(r)  m == Len(s)
<1>1. n \in Nat /\ m \in Nat /\ DOMAIN r = 1..n /\ DOMAIN s = 1..m
  OBVIOUS
<1>2. PICK f : Lists(f, n, K, key) /\ \A i \in 1..n : r[i] = a[f[i]]
  BY DEF Takes
<1>3. PICK g : Lists(g, m, L, order) /\ \A i \in 1..m : s[i] = b[g[i]]
  BY DEF Takes
<1> HIDE DEF n, m
<1>4. ASSUME NEW i \in 1..n PROVE \E k \in 1..m : s[k] = r[i]
  <2>1. f[i] \in K
    BY <1>2 DEF Lists
  <2>2. PICK l \in DOMAIN b : b[l] = a[f[i]]
    BY <2>1 DEF Within
  <2>3. l \in L
    BY <2>1, <2>2 DEF SameOrder
  <2>4. PICK k \in 1..m : g[k] = l
    BY <1>3, <2>3 DEF Lists
  <2> QED
    BY <1>2, <1>3, <2>2, <2>4
<1>5. ASSUME NEW i \in 1..n, NEW j \in 1..n, NEW k \in 1..m, NEW l \in 1..m,
             s[k].id = r[i].id, s[l].id = r[j].id, i < j
      PROVE  k < l
  <2>1. f[i] \in K /\ f[j] \in K /\ key[f[i]] < key[f[j]]
    BY <1>2, <1>5 DEF Lists
  <2>2. g[k] \in L /\ g[l] \in L
    BY <1>3 DEF Lists
  <2>3. b[g[k]].id = a[f[i]].id /\ b[g[l]].id = a[f[j]].id
    BY <1>2, <1>3, <1>5
  <2>4. order[g[k]] < order[g[l]]
    BY <2>1, <2>2, <2>3 DEF SameOrder
  <2>5. order[g[k]] \in Int /\ order[g[l]] \in Int
    BY <2>2
  <2>6. ~ l < k
    <3>1. l < k => order[g[l]] < order[g[k]]
      BY <1>3 DEF Lists
    <3> QED
      BY <2>4, <2>5, <3>1
  <2>7. l # k
    BY <2>4, <2>5
  <2> QED
    BY <1>1, <2>6, <2>7
<1> QED
  BY <1>1, <1>4, <1>5 DEF Within

\* retain on both.
LEMMA WithinWithout ==
  ASSUME NEW a \in Seq(Entries), NEW b \in Seq(Entries), Within(a, b), NEW id
  PROVE  Within(Without(a, id), Without(b, id))
<1> DEFINE K == {k \in DOMAIN a : a[k].id # id}
           L == {k \in DOMAIN b : b[k].id # id}
           key == [k \in DOMAIN a |-> k]
           order == [k \in DOMAIN b |-> k]
           r == Keep(a, K)
           s == Keep(b, L)
<1>1. K \in SUBSET DOMAIN a /\ L \in SUBSET DOMAIN b
  OBVIOUS
<1>2. SameOrder(a, K, key, b, L, order)
  <2>1. \A i \in K, k \in DOMAIN b : b[k] = a[i] => k \in L
    OBVIOUS
  <2>2. \A i, j \in K, k, l \in L :
          b[k].id = a[i].id /\ b[l].id = a[j].id /\ i < j => k < l
    BY DEF Within
  <2>3. /\ \A i \in K : key[i] = i
        /\ \A k \in L : order[k] = k
    OBVIOUS
  <2> HIDE DEF K, L, key, order
  <2> QED
    BY <2>1, <2>2, <2>3 DEF SameOrder
<1>3. \A k \in L : order[k] \in Int
  OBVIOUS
<1> HIDE DEF K, L
<1>4. r \in Seq(Entries) /\ s \in Seq(Entries)
  BY <1>1, KeepType
<1>5. Takes(r, a, K, key) /\ Takes(s, b, L, order)
  BY <1>1, KeepTakes
<1> HIDE DEF key, order, r, s
<1>6. Within(r, s)
  BY <1>1, <1>2, <1>3, <1>4, <1>5, WithinTakes
<1> QED
  BY <1>6 DEF r, s, Without, K, L

\* The same order asked of both.
LEMMA WithinReorder ==
  ASSUME NEW a \in Seq(Entries), NEW b \in Seq(Entries), Within(a, b),
         NEW ids \in Seq(Ids)
  PROVE  Within(ApplyReorder(a, ids), ApplyReorder(b, ids))
<1> DEFINE K == DOMAIN a
           L == DOMAIN b
           key == SortKey(a, ids)
           order == SortKey(b, ids)
           r == ApplyReorder(a, ids)
           s == ApplyReorder(b, ids)
<1>1. K \in SUBSET DOMAIN a /\ L \in SUBSET DOMAIN b
  OBVIOUS
<1>2. /\ r \in Seq(Entries) /\ Takes(r, a, K, key)
      /\ s \in Seq(Entries) /\ Takes(s, b, L, order)
  BY ReorderTakes
<1>3. /\ Ordered(L, order)
      /\ \A i, j \in K :
           key[i] < key[j] <=>
             \/ Rank(ids, a[i].id) < Rank(ids, a[j].id)
             \/ Rank(ids, a[i].id) = Rank(ids, a[j].id) /\ i < j
      /\ \A k, l \in L :
           order[k] < order[l] <=>
             \/ Rank(ids, b[k].id) < Rank(ids, b[l].id)
             \/ Rank(ids, b[k].id) = Rank(ids, b[l].id) /\ k < l
  BY SortOrdered
<1> HIDE DEF key, order, r, s
<1>4. SameOrder(a, K, key, b, L, order)
  <2>1. ASSUME NEW i \in K, NEW j \in K, NEW k \in L, NEW l \in L,
               b[k].id = a[i].id, b[l].id = a[j].id, key[i] < key[j]
        PROVE  order[k] < order[l]
    <3>1. i < j => k < l
      BY <2>1 DEF Within
    <3> HIDE DEF K, L
    <3> QED
      BY <1>3, <2>1, <3>1
  <2>2. \A i \in K, k \in DOMAIN b : b[k] = a[i] => k \in L
    OBVIOUS
  <2> QED
    BY <2>1, <2>2 DEF SameOrder
<1>5. \A k \in L : order[k] \in Int
  BY <1>3 DEF Ordered
<1> HIDE DEF K, L
<1>6. Within(r, s)
  BY <1>1, <1>2, <1>4, <1>5, WithinTakes
<1> QED
  BY <1>6 DEF r, s

\* The same entry at the end of both.
LEMMA WithinAppend ==
  ASSUME NEW a \in Seq(Entries), NEW b \in Seq(Entries), Within(a, b),
         NEW e \in Entries, e.id \notin QueuedIds(a), e.id \notin QueuedIds(b)
  PROVE  Within(Append(a, e), Append(b, e))
<1> DEFINE n == Len(a)  m == Len(b)
           r == Append(a, e)
           s == Append(b, e)
<1>1. n \in Nat /\ m \in Nat /\ DOMAIN a = 1..n /\ DOMAIN b = 1..m
  OBVIOUS
<1>2. /\ DOMAIN r = 1..(n + 1) /\ r[n + 1] = e
      /\ \A i \in 1..n : r[i] = a[i]
  BY AppendProperties
<1>3. /\ DOMAIN s = 1..(m + 1) /\ s[m + 1] = e
      /\ \A i \in 1..m : s[i] = b[i]
  BY AppendProperties
<1> HIDE DEF n, m, r, s
<1>4. /\ \A i \in 1..n : a[i].id # e.id
      /\ \A i \in 1..m : b[i].id # e.id
  BY <1>1 DEF QueuedIds
<1>5. ASSUME NEW i \in 1..(n + 1)
      PROVE  \E k \in 1..(m + 1) : s[k] = r[i]
  <2>1. CASE i \in 1..n
    <3>1. PICK k \in 1..m : b[k] = a[i]
      BY <1>1, <2>1 DEF Within
    <3>2. k \in 1..(m + 1)
      BY <1>1
    <3> QED
      BY <1>2, <1>3, <2>1, <3>1, <3>2
  <2>2. CASE i = n + 1
    BY <1>1, <1>2, <1>3, <2>2
  <2> QED
    BY <1>1, <2>1, <2>2
<1>6. ASSUME NEW i \in 1..(n + 1), NEW j \in 1..(n + 1),
             NEW k \in 1..(m + 1), NEW l \in 1..(m + 1),
             s[k].id = r[i].id, s[l].id = r[j].id, i < j
      PROVE  k < l
  <2>1. i \in 1..n /\ r[i] = a[i]
    BY <1>1, <1>2, <1>6
  <2>2. k \in 1..m /\ s[k] = b[k]
    <3>1. k # m + 1
      BY <1>3, <1>4, <1>6, <2>1
    <3> QED
      BY <1>1, <1>3, <3>1
  <2>3. CASE l = m + 1
    BY <1>1, <2>2, <2>3
  <2>4. CASE l # m + 1
    <3>1. l \in 1..m /\ s[l] = b[l]
      BY <1>1, <1>3, <2>4
    <3>2. j \in 1..n /\ r[j] = a[j]
      <4>1. j # n + 1
        BY <1>2, <1>4, <1>6, <3>1
      <4> QED
        BY <1>1, <1>2, <4>1
    <3> QED
      BY <1>1, <1>6, <2>1, <2>2, <3>1, <3>2 DEF Within
  <2> QED
    BY <2>3, <2>4
<1>7. Within(r, s)
  BY <1>2, <1>3, <1>5, <1>6 DEF Within
<1> QED
  BY <1>7 DEF r, s

\* The same edit of both.
LEMMA WithinRevised ==
  ASSUME NEW a \in Seq(Entries), NEW b \in Seq(Entries), Within(a, b),
         NEW id, NEW ver \in Nat
  PROVE  Within(Revised(a, id, ver), Revised(b, id, ver))
<1> DEFINE r == Revised(a, id, ver)
           s == Revised(b, id, ver)
<1>1. /\ DOMAIN r = DOMAIN a /\ DOMAIN s = DOMAIN b
      /\ \A i \in DOMAIN a : r[i] = IF a[i].id = id
                                    THEN [a[i] EXCEPT !.ver = ver] ELSE a[i]
      /\ \A k \in DOMAIN b : s[k] = IF b[k].id = id
                                    THEN [b[k] EXCEPT !.ver = ver] ELSE b[k]
  BY DEF Revised
<1>2. /\ \A i \in DOMAIN a : r[i].id = a[i].id
      /\ \A k \in DOMAIN b : s[k].id = b[k].id
  BY RevisedIds
<1> HIDE DEF r, s
<1>3. \A i \in DOMAIN r : \E k \in DOMAIN s : s[k] = r[i]
  <2> SUFFICES ASSUME NEW i \in DOMAIN a PROVE \E k \in DOMAIN b : s[k] = r[i]
    BY <1>1
  <2>1. PICK k \in DOMAIN b : b[k] = a[i]
    BY DEF Within
  <2> QED
    BY <1>1, <2>1
<1>4. Within(r, s)
  BY <1>1, <1>2, <1>3 DEF Within
<1> QED
  BY <1>4 DEF r, s

\* The same event applied to both.
LEMMA WithinApply ==
  ASSUME NEW a \in Seq(Entries), NEW b \in Seq(Entries), Within(a, b),
         NEW ev \in Events
  PROVE  Within(ApplyEvent(a, ev), ApplyEvent(b, ev))
<1>1. CASE ev.op = "enqueue"
  <2> DEFINE e == [id |-> ev.id, ver |-> ev.ver]
             r == Without(a, ev.id)
             s == Without(b, ev.id)
  <2>1. ev.id \in Ids /\ ev.ver \in Nat
    BY <1>1, ApplyIs
  <2>2. /\ ApplyEvent(a, ev) = Append(r, e)
        /\ ApplyEvent(b, ev) = Append(s, e)
    BY <1>1, ApplyIs
  <2>3. e \in Entries /\ e.id = ev.id
    BY <2>1 DEF Entries
  <2>4. /\ r \in Seq(Entries) /\ QueuedIds(r) = QueuedIds(a) \ {ev.id}
        /\ s \in Seq(Entries) /\ QueuedIds(s) = QueuedIds(b) \ {ev.id}
    BY WithoutIds
  <2>5. Within(r, s)
    BY WithinWithout
  <2> HIDE DEF e, r, s
  <2>6. Within(Append(r, e), Append(s, e))
    BY <2>3, <2>4, <2>5, WithinAppend
  <2> QED
    BY <2>2, <2>6
<1>2. CASE ev.op = "dequeue"
  <2>1. /\ ApplyEvent(a, ev) = Without(a, ev.id)
        /\ ApplyEvent(b, ev) = Without(b, ev.id)
    BY <1>2, ApplyIs
  <2> QED
    BY <2>1, WithinWithout
<1>3. CASE ev.op = "edit"
  <2>1. ev.ver \in Nat
    BY <1>3, ApplyIs
  <2>2. /\ ApplyEvent(a, ev) = Revised(a, ev.id, ev.ver)
        /\ ApplyEvent(b, ev) = Revised(b, ev.id, ev.ver)
    BY <1>3, ApplyIs
  <2> QED
    BY <2>1, <2>2, WithinRevised
<1>4. CASE ev.op = "reorder"
  <2>1. ev.ids \in Seq(Ids)
    BY <1>4, ApplyIs
  <2>2. /\ ApplyEvent(a, ev) = ApplyReorder(a, ev.ids)
        /\ ApplyEvent(b, ev) = ApplyReorder(b, ev.ids)
    BY <1>4, ApplyIs
  <2> QED
    BY <2>1, <2>2, WithinReorder
<1>5. CASE ev.op = "clear"
  <2>1. ApplyEvent(a, ev) = <<>> /\ ApplyEvent(b, ev) = <<>>
    BY <1>5, ApplyIs
  <2> QED
    BY <2>1 DEF Within
<1> QED
  BY <1>1, <1>2, <1>3, <1>4, <1>5, ApplyIs

\* Entries that occur in others with no further prompt are all of them.
LEMMA WithinAll ==
  ASSUME NEW a \in Seq(Entries), NEW b \in Seq(Entries), IdsApart(a), IdsApart(b),
         Within(a, b), QueuedIds(b) \subseteq QueuedIds(a)
  PROVE  b = a
<1> DEFINE n == Len(a)  m == Len(b)
           K == QueuedIds(a)
           at == [id \in K |-> CHOOSE i \in DOMAIN a : a[i].id = id]
           f == [i \in 1..n |-> a[i].id]
           g == [k \in 1..m |-> b[k].id]
<1>1. n \in Nat /\ m \in Nat /\ DOMAIN a = 1..n /\ DOMAIN b = 1..m
  OBVIOUS
<1>2. \A i \in 1..n : a[i].id \in K /\ f[i] = a[i].id
  BY DEF QueuedIds
<1>3. \A k \in 1..m : b[k].id \in K /\ g[k] = b[k].id
  <2>1. \A k \in 1..m : b[k].id \in QueuedIds(b)
    BY <1>1 DEF QueuedIds
  <2>2. \A k \in 1..m : b[k].id \in K
    BY <2>1
  <2> HIDE DEF K
  <2> QED
    BY <2>2
<1>4. \A id \in K : at[id] \in 1..n /\ a[at[id]].id = id
  <2> SUFFICES ASSUME NEW id \in K PROVE at[id] \in 1..n /\ a[at[id]].id = id
    OBVIOUS
  <2>1. \E i \in DOMAIN a : a[i].id = id
    BY DEF QueuedIds
  <2>2. at[id] = CHOOSE i \in DOMAIN a : a[i].id = id
    OBVIOUS
  <2> HIDE DEF at
  <2> QED
    BY <1>1, <2>1, <2>2
<1>5. \A i \in 1..n : at[a[i].id] = i
  BY <1>1, <1>2, <1>4 DEF IdsApart
<1> HIDE DEF n, m, at, f, g
<1>6. \A id \in K : \E i \in 1..n : a[i].id = id
  BY <1>4
<1> HIDE DEF K
<1>7. Lists(f, n, K, at)
  <2>1. \A i, j \in 1..n : i < j => at[f[i]] < at[f[j]]
    BY <1>2, <1>5
  <2>2. \A id \in K : \E i \in 1..n : f[i] = id
    BY <1>2, <1>6
  <2> QED
    BY <1>2, <2>1, <2>2 DEF Lists
<1>8. Lists(g, m, K, at)
  <2>1. ASSUME NEW k \in 1..m, NEW l \in 1..m, k < l
        PROVE  at[g[k]] < at[g[l]]
    <3> DEFINE i == at[b[k].id]
               j == at[b[l].id]
    <3>1. i \in 1..n /\ j \in 1..n /\ a[i].id = b[k].id /\ a[j].id = b[l].id
      BY <1>3, <1>4
    <3> HIDE DEF i, j
    <3>2. i # j
      <4>1. b[k].id # b[l].id
        BY <1>1, <2>1 DEF IdsApart
      <4> QED
        BY <3>1, <4>1
    <3>3. ~ j < i
      <4>1. j < i => l < k
        BY <1>1, <3>1 DEF Within
      <4> QED
        BY <1>1, <2>1, <4>1
    <3>4. i < j
      BY <1>1, <3>1, <3>2, <3>3
    <3> QED
      BY <1>3, <3>4 DEF i, j
  <2>2. ASSUME NEW id \in K PROVE \E k \in 1..m : g[k] = id
    <3>1. PICK i \in 1..n : a[i].id = id
      BY <1>6
    <3>2. PICK k \in 1..m : b[k] = a[i]
      BY <1>1 DEF Within
    <3> QED
      BY <1>3, <3>1, <3>2
  <2> QED
    BY <1>3, <2>1, <2>2 DEF Lists
<1>9. \A id \in K : at[id] \in Int
  BY <1>1, <1>4
<1>10. n = m
  BY <1>1, <1>7, <1>8, <1>9, ListsUnique
<1>11. \A i \in 1..n : f[i] = g[i]
  BY <1>1, <1>7, <1>8, <1>9, ListsUnique
<1>12. ASSUME NEW i \in 1..n PROVE b[i] = a[i]
  <2>1. PICK k \in 1..m : b[k] = a[i]
    BY <1>1 DEF Within
  <2>2. i \in 1..m /\ b[i].id = a[i].id
    BY <1>2, <1>3, <1>10, <1>11
  <2>3. k = i
    BY <1>1, <2>1, <2>2 DEF IdsApart
  <2> QED
    BY <2>1, <2>3
<1> QED
  BY <1>1, <1>10, <1>12

\* A journal replayed over what it comes to comes to the same.
LEMMA ReplayAgain ==
  ASSUME NEW events \in Seq(Lines)
  PROVE  /\ Replay(<<>>, events) \in Seq(Entries)
         /\ IdsApart(Replay(<<>>, events))
         /\ Replay(Replay(<<>>, events), events) = Replay(<<>>, events)
<1> DEFINE N == Len(events)
<1>1. N \in Nat /\ \A n \in 1..N : events[n].ev \in Events
  <2>1. \A l \in Lines : l.ev \in Events
    BY DEF Lines
  <2>2. N \in Nat /\ \A n \in 1..N : events[n] \in Lines
    OBVIOUS
  <2> HIDE DEF N
  <2> QED
    BY <2>1, <2>2
<1>2. PICK a : Runs(a, <<>>, events, N)
  BY <1>1, RunsExist
<1>3. PICK b : Runs(b, a[N], events, N)
  BY <1>1, RunsExist
<1>4. /\ Replay(<<>>, events) = a[N]
      /\ Replay(a[N], events) = b[N]
  BY <1>2, <1>3, ReplayIs
<1> HIDE DEF N
<1> DEFINE Good(es) == es \in Seq(Entries) /\ IdsApart(es)
           A == {n \in 0..N : Good(a[n])}
<1>5. \A n \in 0..N : n \in A
  <2>1. 0 \in A
    <3>1. a[0] = <<>> /\ 0 \in 0..N
      BY <1>1, <1>2 DEF Runs
    <3>2. Good(<<>>)
      BY DEF IdsApart
    <3> QED
      BY <3>1, <3>2
  <2>2. ASSUME NEW n \in 0..N, n \in A, n < N PROVE n + 1 \in A
    <3>1. n + 1 \in 1..N /\ n + 1 \in 0..N /\ (n + 1) - 1 = n
      BY <1>1, <2>2
    <3>2. a[n + 1] = ApplyEvent(a[n], events[n + 1].ev)
      BY <1>2, <3>1 DEF Runs
    <3>3. events[n + 1].ev \in Events
      BY <1>1, <3>1
    <3>4. a[n] \in Seq(Entries) /\ IdsApart(a[n])
      BY <2>2
    <3>5. Good(a[n + 1])
      BY <3>2, <3>3, <3>4, ApplyType
    <3> QED
      BY <3>1, <3>5
  <2> HIDE DEF A
  <2> QED
    BY <1>1, <2>1, <2>2, AllNumbers
<1>6. \A n \in 0..N : a[n] \in Seq(Entries) /\ IdsApart(a[n])
  BY <1>5
<1> HIDE DEF A
<1>7. a[N] \in Seq(Entries) /\ IdsApart(a[N])
  BY <1>1, <1>6
<1> DEFINE once == a[N]
           Step(n) == /\ Good(b[n]) /\ Within(a[n], b[n])
                      /\ QueuedIds(b[n]) \subseteq QueuedIds(a[n]) \cup QueuedIds(once)
           B == {n \in 0..N : Step(n)}
<1>8. \A n \in 0..N : n \in B
  <2>1. 0 \in B
    <3>1. a[0] = <<>> /\ b[0] = once
      BY <1>2, <1>3 DEF Runs
    <3>2. Within(a[0], b[0])
      BY <3>1 DEF Within
    <3> HIDE DEF once
    <3> QED
      BY <1>1, <1>7, <3>1, <3>2 DEF once
  <2>2. ASSUME NEW n \in 0..N, n \in B, n < N PROVE n + 1 \in B
    <3>1. n + 1 \in 1..N /\ n + 1 \in 0..N /\ (n + 1) - 1 = n
      BY <1>1, <2>2
    <3>2. PICK ev \in Events : ev = events[n + 1].ev
      BY <1>1, <3>1
    <3>3. /\ a[n + 1] = ApplyEvent(a[n], ev)
          /\ b[n + 1] = ApplyEvent(b[n], ev)
      BY <1>2, <1>3, <3>1, <3>2 DEF Runs
    <3>4. /\ a[n] \in Seq(Entries) /\ IdsApart(a[n])
          /\ b[n] \in Seq(Entries) /\ IdsApart(b[n])
          /\ Within(a[n], b[n])
          /\ QueuedIds(b[n]) \subseteq QueuedIds(a[n]) \cup QueuedIds(once)
      BY <1>6, <2>2
    <3>5. Good(b[n + 1])
      BY <3>3, <3>4, ApplyType
    <3>6. Within(a[n + 1], b[n + 1])
      BY <3>3, <3>4, WithinApply
    <3>7. QueuedIds(b[n + 1]) \subseteq QueuedIds(a[n + 1]) \cup QueuedIds(once)
      <4>1. ev.op \in {"enqueue", "dequeue", "edit", "reorder", "clear"}
        BY DEF Events
      <4> HIDE DEF once
      <4> QED
        BY <3>3, <3>4, <4>1, ApplyIds
    <3> QED
      BY <3>1, <3>5, <3>6, <3>7
  <2> HIDE DEF B
  <2> QED
    BY <1>1, <2>1, <2>2, AllNumbers
<1>9. Step(N)
  BY <1>1, <1>8
<1>10. b[N] = once
  BY <1>7, <1>9, WithinAll
<1> QED
  BY <1>4, <1>7, <1>10

------------------------------------------------------------------------------
(***************************************************************************)
(* What is read of a journal that gets one more line.                      *)
(***************************************************************************)

\* The readable lines, and those of them that are newer than a snapshot.
Legible(lines) == Keep(lines, {i \in DOMAIN lines : lines[i] # None})
After(whole, at) == Keep(whole, {i \in DOMAIN whole : at = None \/ whole[i].ts > at})

LEMMA NewerIs ==
  ASSUME NEW lines, NEW at
  PROVE  Newer(lines, at) = IF garbled THEN After(<<>>, at)
                                       ELSE After(Legible(lines), at)
BY DEF Newer, Readable, After, Legible

LEMMA LegibleType ==
  ASSUME NEW lines \in Seq(Lines \cup {None})
  PROVE  /\ Legible(lines) \in Seq(Lines)
         /\ \A i \in DOMAIN Legible(lines) :
              \E k \in DOMAIN lines : Legible(lines)[i] = lines[k] /\ lines[k] # None
<1> DEFINE K == {i \in DOMAIN lines : lines[i] # None}
           r == Keep(lines, K)
<1>1. K \in SUBSET DOMAIN lines /\ \A k \in K : lines[k] # None
  OBVIOUS
<1> HIDE DEF K
<1>2. /\ r \in Seq(Lines \cup {None})
      /\ \A i \in 1..Len(r) : \E k \in K : r[i] = lines[k]
  BY <1>1, KeepType
<1> HIDE DEF r
<1>3. DOMAIN r = 1..Len(r) /\ Len(r) \in Nat /\ r = [i \in 1..Len(r) |-> r[i]]
  BY <1>2
<1>4. \A i \in 1..Len(r) :
        r[i] \in Lines /\ \E k \in DOMAIN lines : r[i] = lines[k] /\ lines[k] # None
  BY <1>1, <1>2
<1>5. r \in Seq(Lines)
  BY <1>3, <1>4
<1> QED
  BY <1>3, <1>4, <1>5 DEF Legible, r, K

LEMMA AfterType ==
  ASSUME NEW whole \in Seq(Lines), NEW at
  PROVE  /\ After(whole, at) \in Seq(Lines)
         /\ \A i \in DOMAIN After(whole, at) :
              \E k \in DOMAIN whole : After(whole, at)[i] = whole[k]
<1> DEFINE K == {i \in DOMAIN whole : at = None \/ whole[i].ts > at}
           r == Keep(whole, K)
<1>1. K \in SUBSET DOMAIN whole
  OBVIOUS
<1> HIDE DEF K
<1>2. r \in Seq(Lines) /\ \A i \in 1..Len(r) : \E k \in K : r[i] = whole[k]
  BY <1>1, KeepType
<1> HIDE DEF r
<1>3. DOMAIN r = 1..Len(r)
  BY <1>2
<1> QED
  BY <1>1, <1>2, <1>3 DEF After, r, K

\* A whole line is read, an unreadable one is not.
LEMMA LegibleAppend ==
  ASSUME NEW lines \in Seq(Lines \cup {None}), None \notin Lines
  PROVE  /\ \A l \in Lines :
              Legible(Append(lines, l)) = Append(Legible(lines), l)
         /\ Legible(Append(lines, None)) = Legible(lines)
<1> DEFINE K == {i \in DOMAIN lines : lines[i] # None}
           n == Len(lines)
           now(x) == {i \in DOMAIN Append(lines, x) : Append(lines, x)[i] # None}
<1>1. K \in SUBSET DOMAIN lines /\ DOMAIN lines = 1..n /\ n \in Nat
  OBVIOUS
<1>2. ASSUME NEW x \in Lines \cup {None}
      PROVE  /\ DOMAIN Append(lines, x) = 1..(n + 1) /\ Append(lines, x)[n + 1] = x
             /\ \A i \in 1..n : Append(lines, x)[i] = lines[i]
  BY AppendProperties
<1>3. ASSUME NEW x \in Lines \cup {None}
      PROVE  now(x) = IF x = None THEN K ELSE K \cup {n + 1}
  <2>1. \A i : i \in 1..(n + 1) <=> i \in 1..n \/ i = n + 1
    BY <1>1
  <2> QED
    BY <1>1, <1>2, <2>1
<1>4. ASSUME NEW x \in Lines \cup {None}
      PROVE  /\ Keep(Append(lines, x), K) = Keep(lines, K)
             /\ Keep(Append(lines, x), K \cup {n + 1}) = Append(Keep(lines, K), x)
  <2> DEFINE T == Lines \cup {None}
  <2>1. lines \in Seq(T) /\ x \in T
    OBVIOUS
  <2> HIDE DEF K, T, now
  <2> QED
    BY <1>1, <2>1, KeepAppend
<1>5. \A x : Legible(Append(lines, x)) = Keep(Append(lines, x), now(x))
  BY DEF Legible
<1>6. Legible(lines) = Keep(lines, K)
  BY DEF Legible
<1> HIDE DEF K, n, now
<1>7. ASSUME NEW l \in Lines
      PROVE  Legible(Append(lines, l)) = Append(Legible(lines), l)
  BY <1>3, <1>4, <1>5, <1>6
<1>8. Legible(Append(lines, None)) = Legible(lines)
  BY <1>3, <1>4, <1>5, <1>6
<1> QED
  BY <1>7, <1>8

\* A line later than the snapshot is replayed.
LEMMA AfterAppend ==
  ASSUME NEW whole \in Seq(Lines), NEW at, NEW l \in Lines, at = None \/ l.ts > at
  PROVE  After(Append(whole, l), at) = Append(After(whole, at), l)
<1> DEFINE K == {i \in DOMAIN whole : at = None \/ whole[i].ts > at}
           n == Len(whole)
           t == Append(whole, l)
           now == {i \in DOMAIN t : at = None \/ t[i].ts > at}
<1>1. K \in SUBSET DOMAIN whole /\ DOMAIN whole = 1..n /\ n \in Nat
  OBVIOUS
<1>2. /\ DOMAIN t = 1..(n + 1) /\ t[n + 1] = l
      /\ \A i \in 1..n : t[i] = whole[i]
  BY AppendProperties
<1>3. now = K \cup {n + 1}
  <2>1. \A i : i \in 1..(n + 1) <=> i \in 1..n \/ i = n + 1
    BY <1>1
  <2> HIDE DEF t
  <2> QED
    BY <1>1, <1>2, <2>1
<1>4. Keep(t, K \cup {n + 1}) = Append(Keep(whole, K), l)
  <2> HIDE DEF K
  <2> QED
    BY <1>1, KeepAppend
<1>5. After(t, at) = Keep(t, now) /\ After(whole, at) = Keep(whole, K)
  BY DEF After
<1> HIDE DEF K, now, t
<1> QED
  BY <1>3, <1>4, <1>5 DEF t

\* No line is later than a snapshot of now.
LEMMA AfterNow ==
  ASSUME NEW whole, NEW at, at # None,
         \A i \in DOMAIN whole : ~ whole[i].ts > at
  PROVE  After(whole, at) = <<>>
<1>1. {i \in DOMAIN whole : at = None \/ whole[i].ts > at} = {}
  OBVIOUS
<1> QED
  BY <1>1, KeepNothing DEF After

\* What a replay returns keeps the shape of the entries, and has only prompts
\* that it started from or that an event queued.
LEMMA ReplayType ==
  ASSUME NEW es \in Seq(Entries), IdsApart(es), NEW events \in Seq(Lines),
         NEW X, QueuedIds(es) \subseteq X,
         \A n \in DOMAIN events :
           events[n].ev.op = "enqueue" => events[n].ev.id \in X
  PROVE  /\ Replay(es, events) \in Seq(Entries)
         /\ IdsApart(Replay(es, events))
         /\ QueuedIds(Replay(es, events)) \subseteq X
<1> DEFINE N == Len(events)
<1>1. N \in Nat /\ DOMAIN events = 1..N /\ \A n \in 1..N : events[n].ev \in Events
  <2>1. \A l \in Lines : l.ev \in Events
    BY DEF Lines
  <2>2. N \in Nat /\ DOMAIN events = 1..N /\ \A n \in 1..N : events[n] \in Lines
    OBVIOUS
  <2> HIDE DEF N
  <2> QED
    BY <2>1, <2>2
<1>2. PICK g : Runs(g, es, events, N)
  BY <1>1, RunsExist
<1>3. Replay(es, events) = g[N]
  BY <1>2, ReplayIs
<1> HIDE DEF N
<1> DEFINE Good(a) == a \in Seq(Entries) /\ IdsApart(a) /\ QueuedIds(a) \subseteq X
           A == {n \in 0..N : Good(g[n])}
<1>4. 0 \in A
  BY <1>1, <1>2 DEF Runs
<1>5. ASSUME NEW n \in 0..N, n \in A, n < N PROVE n + 1 \in A
  <2>1. n + 1 \in 1..N /\ n + 1 \in 0..N /\ (n + 1) - 1 = n
    BY <1>1, <1>5
  <2>2. PICK ev \in Events : ev = events[n + 1].ev
    BY <1>1, <2>1
  <2>3. g[n + 1] = ApplyEvent(g[n], ev)
    BY <1>2, <2>1, <2>2 DEF Runs
  <2>4. g[n] \in Seq(Entries) /\ IdsApart(g[n]) /\ QueuedIds(g[n]) \subseteq X
    BY <1>5
  <2>5. g[n + 1] \in Seq(Entries) /\ IdsApart(g[n + 1])
    BY <2>3, <2>4, ApplyType
  <2>6. QueuedIds(g[n + 1]) \subseteq X
    <3>1. ev.op = "enqueue" => ev.id \in X
      BY <1>1, <2>1, <2>2
    <3>2. ev.op \in {"enqueue", "dequeue", "edit", "reorder", "clear"}
      BY DEF Events
    <3> QED
      BY <2>3, <2>4, <3>1, <3>2, ApplyIds
  <2> QED
    BY <2>1, <2>5, <2>6
<1> HIDE DEF A
<1>6. \A n \in 0..N : n \in A
  BY <1>1, <1>4, <1>5, AllNumbers
<1>7. N \in A
  BY <1>1, <1>6
<1> QED
  BY <1>3, <1>7 DEF A

------------------------------------------------------------------------------
(***************************************************************************)
(* The inductive invariant, whatever the environment does: the shapes, and *)
(* what is in memory, on disk and on the clients' screens.                 *)
(***************************************************************************)

\* No prompt is queued twice, and the running turn is the front of the queue.
MemoryOK ==
  /\ queue \in Seq(Items(Ids)) /\ IdsApart(queue) /\ QueuedIds(queue) \subseteq asked
  /\ asked \subseteq Ids /\ ended \subseteq asked
  /\ run \in Ids \cup {None} /\ (run # None => FrontRuns(queue, run))
  /\ Told => run = None

\* Between two handlers the clients see the queue.
SeenOK ==
  /\ mirror \in Seq(Entries)
  /\ phase = "idle" => mirror = Rows(queue, run)

\* No line comes from the future, and only prompts that clients sent are queued.
JournalOK ==
  /\ log \in Seq(Lines \cup {None}) /\ clock \in 0..MaxLines
  /\ \A i \in DOMAIN log : log[i] # None => log[i].ts <= clock
  /\ \A i \in DOMAIN log : log[i] # None /\ log[i].ev.op = "enqueue"
                             => log[i].ev.id \in asked

SavedOK ==
  /\ snap \in Snapshots \cup {None}
  /\ snap # None => /\ snap.at <= clock /\ IdsApart(snap.entries)
                    /\ QueuedIds(snap.entries) \subseteq asked

\* The file is torn or unreadable only where appends may be cut short.
FaultsOK ==
  /\ torn \in BOOLEAN /\ garbled \in BOOLEAN /\ torned \subseteq Ids
  /\ "short" \notin env => ~torn /\ ~garbled
  /\ "split" \notin env => ~garbled

PhaseOK == phase \in {"idle", "written", "down"} /\ crashes \in 0..MaxCrash

JournalInv == MemoryOK /\ SeenOK /\ JournalOK /\ SavedOK /\ FaultsOK /\ PhaseOK

\* An item as recovery and the clients know it.
Listing(s) == [i \in DOMAIN s |-> [id |-> s[i].id, ver |-> s[i].ver]]

LEMMA ListingType ==
  ASSUME NEW s \in Seq(Items(Ids))
  PROVE  /\ Listing(s) \in Seq(Entries) /\ Len(Listing(s)) = Len(s)
         /\ DOMAIN Listing(s) = DOMAIN s
         /\ \A i \in DOMAIN s : /\ Listing(s)[i].id = s[i].id
                                /\ Listing(s)[i].ver = s[i].ver
         /\ QueuedIds(Listing(s)) = QueuedIds(s)
         /\ IdsApart(s) => IdsApart(Listing(s))
<1> DEFINE n == Len(s)
           r == Listing(s)
<1>1. n \in Nat /\ DOMAIN s = 1..n /\ \A i \in 1..n : s[i] \in Items(Ids)
  OBVIOUS
<1>2. /\ DOMAIN r = 1..n
      /\ \A i \in 1..n : r[i].id = s[i].id /\ r[i].ver = s[i].ver
      /\ \A i \in 1..n : r[i] = [id |-> s[i].id, ver |-> s[i].ver]
  BY <1>1 DEF Listing
<1>3. r = [i \in 1..n |-> r[i]]
  BY <1>1 DEF Listing
<1> HIDE DEF n, r
<1>4. \A i \in 1..n : r[i] \in Entries
  BY <1>1, <1>2 DEF Items, Entries
<1>5. r \in Seq(Entries) /\ Len(r) = n
  BY <1>1, <1>3, <1>4
<1>6. QueuedIds(r) = QueuedIds(s) /\ (IdsApart(s) => IdsApart(r))
  BY <1>1, <1>2 DEF QueuedIds, IdsApart
<1> QED
  BY <1>1, <1>2, <1>5, <1>6 DEF n, r

\* With no turn running, clients see the whole queue.
LEMMA RowsAreListing ==
  ASSUME NEW s \in Seq(Items(Ids)), None \notin Ids
  PROVE  Rows(s, None) = Listing(s)
<1>1. {k \in DOMAIN s : s[k].id \in Ids /\ s[k].id # None} = DOMAIN s
  <2>1. \A k \in DOMAIN s : s[k] \in Items(Ids)
    OBVIOUS
  <2> QED
    BY <2>1 DEF Items
<1>2. Keep(s, DOMAIN s) = s
  BY KeepAll
<1> QED
  BY <1>1, <1>2 DEF Rows, Wire, Listing

\* The ids that clients see.
LEMMA RowsIds ==
  ASSUME NEW s \in Seq(Items(Ids)), NEW r
  PROVE  /\ Rows(s, r) \in Seq(Entries)
         /\ EntryIds(Rows(s, r)) = QueuedIds(s) \ {r}
<1> DEFINE K == {k \in DOMAIN s : s[k].id \in Ids /\ s[k].id # r}
           shown == Keep(s, K)
<1>1. K \in SUBSET DOMAIN s
  OBVIOUS
<1>2. {s[k].id : k \in K} = QueuedIds(s) \ {r}
  <2>1. \A k \in DOMAIN s : s[k] \in Items(Ids)
    OBVIOUS
  <2> QED
    BY <2>1 DEF QueuedIds, Items
<1>3. Rows(s, r) = [i \in DOMAIN shown |-> [id |-> shown[i].id, ver |-> shown[i].ver]]
  BY DEF Rows, Wire
<1> HIDE DEF K
<1>4. QueuedIds(shown) = {s[k].id : k \in K}
  BY <1>1, KeepSet
<1>5. EntryIds(Rows(s, r)) = QueuedIds(shown)
  BY <1>3 DEF EntryIds, QueuedIds
<1>6. Rows(s, r) \in Seq(Entries)
  BY WireType DEF Rows, Entries
<1> QED
  BY <1>2, <1>4, <1>5, <1>6

\* Recovery returns entries of prompts that clients sent, none twice.
LEMMA RecoveredType ==
  ASSUME JournalOK, SavedOK
  PROVE  /\ Recovered \in Seq(Entries) /\ IdsApart(Recovered)
         /\ QueuedIds(Recovered) \subseteq asked
         /\ Base \in Seq(Entries) /\ Newer(log, SnapshotAt) \in Seq(Lines)
         /\ Legible(log) \in Seq(Lines)
         /\ \A i \in DOMAIN Legible(log) :
              /\ Legible(log)[i].ts <= clock
              /\ Legible(log)[i].ev.op = "enqueue" => Legible(log)[i].ev.id \in asked
<1>1. /\ Base \in Seq(Entries) /\ IdsApart(Base) /\ QueuedIds(Base) \subseteq asked
  <2>1. CASE snap = None
    BY <2>1 DEF Base, IdsApart, QueuedIds
  <2>2. CASE snap # None
    BY <2>2 DEF SavedOK, Snapshots, Base
  <2> QED
    BY <2>1, <2>2
<1>2. /\ Legible(log) \in Seq(Lines)
      /\ \A i \in DOMAIN Legible(log) :
           \E k \in DOMAIN log : Legible(log)[i] = log[k] /\ log[k] # None
  BY LegibleType DEF JournalOK
<1>3. \A i \in DOMAIN Legible(log) :
        /\ Legible(log)[i].ts <= clock
        /\ Legible(log)[i].ev.op = "enqueue" => Legible(log)[i].ev.id \in asked
  BY <1>2 DEF JournalOK
<1> DEFINE whole == IF garbled THEN <<>> ELSE Legible(log)
           events == After(whole, SnapshotAt)
<1>4. /\ whole \in Seq(Lines)
      /\ \A i \in DOMAIN whole : whole[i].ev.op = "enqueue" => whole[i].ev.id \in asked
  BY <1>2, <1>3
<1>5. Newer(log, SnapshotAt) = events
  BY NewerIs
<1> HIDE DEF whole
<1>6. /\ events \in Seq(Lines)
      /\ \A i \in DOMAIN events : \E k \in DOMAIN whole : events[i] = whole[k]
  BY <1>4, AfterType
<1> HIDE DEF events
<1>7. \A i \in DOMAIN events :
        events[i].ev.op = "enqueue" => events[i].ev.id \in asked
  BY <1>4, <1>6
<1>8. /\ Replay(Base, events) \in Seq(Entries) /\ IdsApart(Replay(Base, events))
      /\ QueuedIds(Replay(Base, events)) \subseteq asked
  BY <1>1, <1>6, <1>7, ReplayType
<1> QED
  BY <1>1, <1>2, <1>3, <1>5, <1>6, <1>8 DEF Recovered

\* A handler that writes an event.
LEMMA PersistKeeps ==
  ASSUME JournalInv, NEW ev \in Events, Persist(ev), UNCHANGED env,
         asked \subseteq asked', ev.op = "enqueue" => ev.id \in asked'
  PROVE  SeenOK' /\ JournalOK' /\ SavedOK' /\ FaultsOK' /\ PhaseOK'
<1>1. /\ clock \in Nat /\ MaxLines \in Nat
      /\ log \in Seq(Lines \cup {None})
  BY JournalAssumption DEF JournalInv, JournalOK
<1>2. /\ clock' \in 0..MaxLines /\ clock <= clock'
  BY <1>1 DEF Persist, Emit
<1>3. SeenOK'
  BY DEF JournalInv, SeenOK, Persist
<1>4. JournalOK'
  <2>1. \A i \in DOMAIN log : log[i] # None => log[i].ts <= clock'
    <3>1. \A i \in DOMAIN log : log[i] # None => log[i] \in Lines /\ log[i].ts <= clock
      BY DEF JournalInv, JournalOK
    <3>2. \A l \in Lines : l.ts \in Nat
      BY DEF Lines
    <3> QED
      BY <1>1, <1>2, <3>1, <3>2
  <2>2. \A i \in DOMAIN log : log[i] # None /\ log[i].ev.op = "enqueue"
                                => log[i].ev.id \in asked'
    BY DEF JournalInv, JournalOK
  <2>3. CASE log' = log
    BY <1>1, <1>2, <2>1, <2>3, <2>2 DEF JournalOK
  <2>4. CASE log' # log
    <3> DEFINE line == [ev |-> ev, ts |-> clock']
    <3>1. PICK x \in {None, line} : log' = Append(log, x)
      BY <2>4 DEF Persist, Emit
    <3>2. line \in Lines /\ line.ts = clock' /\ line.ev = ev
      BY <1>2 DEF Lines
    <3> DEFINE n == Len(log)  T == Lines \cup {None}
    <3>3. x \in T /\ log \in Seq(T) /\ n \in Nat /\ DOMAIN log = 1..n
      BY <1>1, <3>2
    <3> HIDE DEF n, T
    <3>4. /\ log' \in Seq(T) /\ DOMAIN log' = 1..(n + 1) /\ log'[n + 1] = x
          /\ \A i \in 1..n : log'[i] = log[i]
      BY <3>1, <3>3, AppendProperties DEF n
    <3>5. \A i : i \in 1..(n + 1) <=> i \in 1..n \/ i = n + 1
      BY <3>3
    <3> HIDE DEF line
    <3>6. \A i \in DOMAIN log' : log'[i] # None => log'[i].ts <= clock'
      BY <1>2, <2>1, <3>1, <3>2, <3>3, <3>4, <3>5
    <3>7. \A i \in DOMAIN log' : log'[i] # None /\ log'[i].ev.op = "enqueue"
                                   => log'[i].ev.id \in asked'
      BY <2>2, <3>1, <3>2, <3>3, <3>4, <3>5
    <3> QED
      BY <1>2, <3>4, <3>6, <3>7 DEF JournalOK, T
  <2> QED
    BY <2>3, <2>4
<1>5. SavedOK'
  <2>1. snap' = snap
    BY DEF Persist
  <2>2. snap # None => snap.at \in Nat
    BY DEF JournalInv, SavedOK, Snapshots
  <2> QED
    BY <1>1, <1>2, <2>1, <2>2 DEF JournalInv, SavedOK
<1>6. FaultsOK'
  <2>1. Touches(ev) \subseteq Ids
    BY DEF Touches, Events
  <2> QED
    BY <2>1 DEF JournalInv, FaultsOK, Persist, Emit
<1>7. PhaseOK'
  BY DEF JournalInv, PhaseOK, Persist
<1> QED
  BY <1>3, <1>4, <1>5, <1>6, <1>7

\* queue_input.
LEMMA QueueInputKeeps ==
  ASSUME JournalInv, UNCHANGED env, NEW id \in Ids, NEW sendNow \in BOOLEAN,
         QueueInput(id, sendNow)
  PROVE  JournalInv'
<1> DEFINE item == [id |-> id, ver |-> 0, now |-> FALSE]
           ev == Enqueue(id)
<1>1. /\ item \in Items(Ids) /\ item.id = id /\ id \notin QueuedIds(queue)
      /\ queue \in Seq(Items(Ids)) /\ IdsApart(queue)
  BY DEF JournalInv, MemoryOK, QueueInput, Items
<1>2. /\ asked' = asked \cup {id} /\ run' = run /\ Persist(ev)
      /\ queue' \in {InsertSendNow(queue, run, item), Append(queue, item)}
  BY DEF QueueInput
<1>3. /\ ev \in Events /\ ev.id = id
  BY DEF Enqueue, Events
<1> HIDE DEF item, ev
<1>4. /\ queue' \in Seq(Items(Ids)) /\ IdsApart(queue')
      /\ QueuedIds(queue') = QueuedIds(queue) \cup {id}
      /\ FrontRuns(queue, run) => FrontRuns(queue', run)
  <2>1. CASE queue' = InsertSendNow(queue, run, item)
    BY <1>1, <2>1, InsertSendNowType, InsertSendNowIds
  <2>2. CASE queue' = Append(queue, item)
    <3>1. QueuedIds(queue') = QueuedIds(queue) \cup {id} /\ IdsApart(queue')
      BY <1>1, <2>2, AppendApart
    <3>2. queue' \in Seq(Items(Ids))
      BY <1>1, <2>2
    <3>3. FrontRuns(queue, run) => FrontRuns(queue', run)
      BY <1>1, <2>2, AppendProperties DEF FrontRuns
    <3> QED
      BY <3>1, <3>2, <3>3
  <2> QED
    BY <1>2, <2>1, <2>2
<1>5. MemoryOK'
  BY <1>2, <1>4 DEF JournalInv, MemoryOK, Told, Persist
<1>6. asked \subseteq asked' /\ (ev.op = "enqueue" => ev.id \in asked')
  BY <1>2, <1>3
<1>7. SeenOK' /\ JournalOK' /\ SavedOK' /\ FaultsOK' /\ PhaseOK'
  BY <1>2, <1>3, <1>6, PersistKeeps
<1> QED
  BY <1>5, <1>7 DEF JournalInv

\* handle_remove_queued_prompt.
LEMMA RemoveKeeps ==
  ASSUME JournalInv, UNCHANGED env, NEW id \in asked, NEW ver,
         RemoveQueuedPrompt(id, ver)
  PROVE  JournalInv'
<1> DEFINE match == RowMatches(queue, run, Ids, id, ver)
           ev == Dequeue(id)
<1>1. /\ UNCHANGED <<run, asked>> /\ Persist(ev)
      /\ queue' = queue \/ \E k \in match : queue' = RemoveRow(queue, k)
  <2>1. match # {} => (CHOOSE k \in match : TRUE) \in match
    OBVIOUS
  <2> HIDE DEF match
  <2> QED
    BY <2>1 DEF RemoveQueuedPrompt, match
<1>2. ev \in Events /\ ev.op # "enqueue"
  BY DEF JournalInv, MemoryOK, Dequeue, Events
<1>3. \A k \in match : k \in DOMAIN queue /\ queue[k].id # run
  BY DEF RowMatches
<1>4. queue \in Seq(Items(Ids)) /\ IdsApart(queue)
  BY DEF JournalInv, MemoryOK
<1> HIDE DEF match, ev
<1>5. /\ queue' \in Seq(Items(Ids)) /\ IdsApart(queue')
      /\ QueuedIds(queue') \subseteq QueuedIds(queue)
      /\ FrontRuns(queue, run) => FrontRuns(queue', run)
  <2>1. CASE queue' = queue
    BY <1>4, <2>1
  <2>2. ASSUME NEW k \in match, queue' = RemoveRow(queue, k)
        PROVE  /\ queue' \in Seq(Items(Ids)) /\ IdsApart(queue')
               /\ QueuedIds(queue') \subseteq QueuedIds(queue)
               /\ FrontRuns(queue, run) => FrontRuns(queue', run)
    <3>1. k \in DOMAIN queue /\ queue[k].id # run
      BY <1>3
    <3>2. /\ queue' \in Seq(Items(Ids))
          /\ FrontRuns(queue, run) => FrontRuns(queue', run)
      BY <1>4, <2>2, <3>1, RemoveRowType
    <3>3. /\ QueuedIds(RemoveAt(queue, k)) = QueuedIds(queue) \ {queue[k].id}
          /\ IdsApart(RemoveAt(queue, k))
      BY <1>4, <3>1, RemoveAtIds
    <3> QED
      BY <2>2, <3>2, <3>3 DEF RemoveRow
  <2> QED
    BY <1>1, <2>1, <2>2
<1>6. MemoryOK'
  BY <1>1, <1>5 DEF JournalInv, MemoryOK, Told, Persist
<1>7. SeenOK' /\ JournalOK' /\ SavedOK' /\ FaultsOK' /\ PhaseOK'
  BY <1>1, <1>2, PersistKeeps
<1> QED
  BY <1>6, <1>7 DEF JournalInv

\* The order that a client asks for.
LEMMA OrderType ==
  ASSUME NEW order \in Orders PROVE order \in Seq(EntryIds(mirror))
BY DEF Orders, SeqOf

\* handle_reorder_queue.
LEMMA ReorderKeeps ==
  ASSUME JournalInv, UNCHANGED env, NEW order \in Orders, ReorderQueue(order)
  PROVE  /\ JournalInv'
         /\ Reordered([i \in DOMAIN queue' |-> queue'[i].id]) \in Events
<1> DEFINE ids == [i \in DOMAIN queue' |-> queue'[i].id]
           ev == Reordered(ids)
<1>1. /\ UNCHANGED <<run, asked>> /\ Persist(ev)
      /\ queue' = ReorderRows(queue, run, Ids, order)
  BY DEF ReorderQueue
<1>2. queue \in Seq(Items(Ids)) /\ IdsApart(queue)
  BY DEF JournalInv, MemoryOK
<1>3. /\ queue' \in Seq(Items(Ids)) /\ IdsApart(queue')
      /\ QueuedIds(queue') = QueuedIds(queue)
      /\ FrontRuns(queue, run) => FrontRuns(queue', run)
  <2>1. order \in Seq(EntryIds(mirror))
    BY OrderType
  <2> HIDE DEF ev
  <2> QED
    BY <1>1, <1>2, <2>1, ReorderRowsType, ReorderIds
<1>4. ids \in Seq(Ids)
  <2>1. \A i \in DOMAIN queue' : queue'[i] \in Items(Ids)
    BY <1>3
  <2>2. \A i \in DOMAIN queue' : queue'[i].id \in Ids
    BY <2>1 DEF Items
  <2>3. DOMAIN queue' = 1..Len(queue') /\ Len(queue') \in Nat
    BY <1>3
  <2> QED
    BY <2>2, <2>3
<1> HIDE DEF ids
<1>5. ev \in Events /\ ev.op # "enqueue"
  BY <1>4 DEF Reordered, Events
<1> HIDE DEF ev
<1>6. MemoryOK'
  BY <1>1, <1>3 DEF JournalInv, MemoryOK, Told, Persist
<1>7. SeenOK' /\ JournalOK' /\ SavedOK' /\ FaultsOK' /\ PhaseOK'
  BY <1>1, <1>5, PersistKeeps
<1> QED
  BY <1>5, <1>6, <1>7 DEF JournalInv, ev, ids

\* handle_clear_queue.
LEMMA ClearKeeps ==
  ASSUME JournalInv, UNCHANGED env, NEW owner, ClearQueue(owner)
  PROVE  JournalInv'
<1> DEFINE K == {k \in DOMAIN queue : \/ queue[k].id = run
                                      \/ owner # None /\ OwnerOf[queue[k].id] # owner}
<1>1. /\ UNCHANGED <<run, asked>> /\ Persist(Cleared)
      /\ queue' = Keep(queue, K)
  BY DEF ClearQueue
<1>2. queue \in Seq(Items(Ids)) /\ IdsApart(queue)
  BY DEF JournalInv, MemoryOK
<1>3. /\ K \in SUBSET DOMAIN queue
      /\ FrontRuns(queue, run) => 1 \in K
      /\ {queue[k].id : k \in K} \subseteq QueuedIds(queue)
  BY <1>2 DEF FrontRuns, QueuedIds
<1> HIDE DEF K
<1>4. /\ queue' \in Seq(Items(Ids)) /\ IdsApart(queue')
      /\ QueuedIds(queue') \subseteq QueuedIds(queue)
      /\ FrontRuns(queue, run) => FrontRuns(queue', run)
  <2>1. /\ queue' \in Seq(Items(Ids)) /\ IdsApart(queue')
        /\ QueuedIds(queue') \subseteq QueuedIds(queue)
    BY <1>1, <1>2, <1>3, KeepType, KeepSet
  <2>2. FrontRuns(queue, run) => FrontRuns(queue', run)
    BY <1>1, <1>2, <1>3, KeepHead DEF FrontRuns
  <2> QED
    BY <2>1, <2>2
<1>5. Cleared \in Events /\ Cleared.op # "enqueue"
  BY DEF Cleared, Events
<1>6. MemoryOK'
  BY <1>1, <1>4 DEF JournalInv, MemoryOK, Told, Persist
<1>7. SeenOK' /\ JournalOK' /\ SavedOK' /\ FaultsOK' /\ PhaseOK'
  BY <1>1, <1>5, PersistKeeps
<1> QED
  BY <1>6, <1>7 DEF JournalInv

\* handle_edit_queued_prompt.
LEMMA EditKeeps ==
  ASSUME JournalInv, UNCHANGED env, NEW id \in asked, EditQueuedPrompt(id)
  PROVE  JournalInv'
<1>1. PICK k \in DOMAIN queue :
        /\ queue[k].id = id /\ queue' = EditRow(queue, k)
        /\ Persist(Edited(id, queue[k].ver + 1))
  BY DEF EditQueuedPrompt
<1>2. UNCHANGED <<run, asked>>
  BY DEF EditQueuedPrompt
<1>3. /\ queue \in Seq(Items(Ids)) /\ IdsApart(queue) /\ id \in Ids
      /\ queue[k].ver \in Nat
  <2>1. queue \in Seq(Items(Ids)) /\ IdsApart(queue) /\ id \in Ids
    BY DEF JournalInv, MemoryOK
  <2>2. queue[k] \in Items(Ids)
    BY <2>1
  <2> QED
    BY <2>1, <2>2 DEF Items
<1>4. /\ queue' \in Seq(Items(Ids)) /\ IdsApart(queue')
      /\ QueuedIds(queue') = QueuedIds(queue)
      /\ FrontRuns(queue, run) => FrontRuns(queue', run)
  BY <1>1, <1>3, EditRowType, EditRowIds
<1> DEFINE ev == Edited(id, queue[k].ver + 1)
<1>5. ev \in Events /\ ev.op # "enqueue"
  BY <1>3 DEF Edited, Events
<1>6. Persist(ev)
  BY <1>1
<1> HIDE DEF ev
<1>7. MemoryOK'
  BY <1>2, <1>4, <1>6 DEF JournalInv, MemoryOK, Told, Persist
<1>8. SeenOK' /\ JournalOK' /\ SavedOK' /\ FaultsOK' /\ PhaseOK'
  BY <1>2, <1>5, <1>6, PersistKeeps
<1> QED
  BY <1>7, <1>8 DEF JournalInv

\* What a step that writes no event leaves alone.
LEMMA QuietKeeps ==
  ASSUME JournalInv, UNCHANGED <<env, disk, snap, asked>>
  PROVE  JournalOK' /\ SavedOK' /\ FaultsOK'
BY DEF JournalInv, JournalOK, SavedOK, FaultsOK, disk

\* handle_interject_queued_prompt.
LEMMA InterjectKeeps ==
  ASSUME JournalInv, UNCHANGED env, NEW id, NEW ver, NEW edit \in BOOLEAN,
         InterjectQueuedPrompt(id, ver, edit)
  PROVE  JournalInv'
<1>1. PICK k \in RowMatches(queue, run, Ids, id, ver) :
        queue' = PromoteRow(queue, run, k, edit)
  BY DEF InterjectQueuedPrompt
<1>2. /\ mirror' = Rows(queue', run) /\ "promote" \in env
      /\ UNCHANGED <<run, asked, ended, snap, phase, crashes, disk>>
  BY DEF InterjectQueuedPrompt
<1>3. k \in DOMAIN queue /\ queue[k].id # run
  BY DEF RowMatches
<1>4. queue \in Seq(Items(Ids)) /\ IdsApart(queue)
  BY DEF JournalInv, MemoryOK
<1>5. /\ queue' \in Seq(Items(Ids)) /\ IdsApart(queue')
      /\ QueuedIds(queue') = QueuedIds(queue)
      /\ FrontRuns(queue, run) => FrontRuns(queue', run)
  BY <1>1, <1>3, <1>4, PromoteRowType, PromoteRowIds
<1>6. MemoryOK' /\ SeenOK' /\ PhaseOK'
  BY <1>2, <1>5, RowsIds DEF JournalInv, MemoryOK, SeenOK, PhaseOK, Told
<1> QED
  BY <1>2, <1>6, QuietKeeps DEF JournalInv

\* maybe_start_running_task.
LEMMA StartKeeps ==
  ASSUME JournalInv, UNCHANGED env, StartTurn
  PROVE  JournalInv'
<1>1. /\ queue \in Seq(Items(Ids)) /\ queue # <<>> /\ run' = queue[1].id
      /\ mirror' = Rows(queue, run') /\ "turn" \in env
      /\ UNCHANGED <<queue, asked, ended, snap, phase, crashes, disk>>
  BY DEF JournalInv, MemoryOK, StartTurn
<1>2. run' \in Ids
  <2>1. queue[1] \in Items(Ids)
    BY <1>1
  <2> QED
    BY <1>1, <2>1 DEF Items
<1>3. MemoryOK'
  BY <1>1, <1>2 DEF JournalInv, MemoryOK, FrontRuns, Told
<1>4. SeenOK' /\ PhaseOK'
  BY <1>1, RowsIds DEF JournalInv, SeenOK, PhaseOK
<1> QED
  BY <1>1, <1>3, <1>4, QuietKeeps DEF JournalInv

\* handle_completion, or a cancel.
LEMMA EndKeeps ==
  ASSUME JournalInv, UNCHANGED env, EndTurn
  PROVE  /\ JournalInv'
         /\ QueuedIds(queue') = QueuedIds(queue) \ {run}
<1>1. /\ queue \in Seq(Items(Ids)) /\ IdsApart(queue) /\ FrontRuns(queue, run)
      /\ run \in QueuedIds(queue) /\ QueuedIds(queue) \subseteq asked
  BY DEF JournalInv, MemoryOK, EndTurn, FrontRuns, QueuedIds
<1>2. /\ queue' = Tail(queue) /\ run' = None /\ mirror' = Rows(queue', None)
      /\ ended' = ended \cup {run}
      /\ UNCHANGED <<asked, snap, phase, crashes, disk>>
  BY DEF EndTurn
<1>3. /\ queue # <<>> /\ queue[1].id = run
  BY <1>1 DEF FrontRuns
<1>4. /\ queue' \in Seq(Items(Ids))
      /\ IdsApart(queue') /\ QueuedIds(queue') = QueuedIds(queue) \ {run}
  BY <1>1, <1>2, <1>3, TailApart
<1>5. MemoryOK'
  BY <1>1, <1>2, <1>4 DEF JournalInv, MemoryOK
<1>6. SeenOK' /\ PhaseOK'
  BY <1>2, <1>4, RowsIds DEF JournalInv, SeenOK, PhaseOK
<1> QED
  BY <1>2, <1>4, <1>5, <1>6, QuietKeeps DEF JournalInv

\* broadcast_queue.
LEMMA BroadcastKeeps ==
  ASSUME JournalInv, UNCHANGED env, Broadcast
  PROVE  JournalInv'
<1>1. MemoryOK'
  BY DEF JournalInv, MemoryOK, Broadcast, Told
<1>2. SeenOK' /\ PhaseOK'
  BY RowsIds DEF JournalInv, MemoryOK, SeenOK, PhaseOK, Broadcast
<1> QED
  BY <1>1, <1>2, QuietKeeps DEF JournalInv, Broadcast

\* A crash.
LEMMA CrashKeeps ==
  ASSUME JournalInv, UNCHANGED env, Crash
  PROVE  JournalInv'
<1>1. MemoryOK'
  BY DEF JournalInv, MemoryOK, Crash, IdsApart, QueuedIds
<1>2. SeenOK' /\ PhaseOK'
  BY JournalAssumption DEF JournalInv, SeenOK, PhaseOK, Crash
<1> QED
  BY <1>1, <1>2, QuietKeeps DEF JournalInv, Crash

\* The entries loaded into the queue are listed as they were.
LEMMA LoadedIs ==
  ASSUME NEW es \in Seq(Entries), IdsApart(es), NEW q,
         q = [i \in DOMAIN es |-> [id |-> es[i].id, ver |-> es[i].ver, now |-> FALSE]]
  PROVE  /\ q \in Seq(Items(Ids)) /\ IdsApart(q) /\ QueuedIds(q) = QueuedIds(es)
         /\ Listing(q) = es
<1> DEFINE n == Len(es)
<1>1. /\ n \in Nat /\ DOMAIN es = 1..n /\ es = [i \in 1..n |-> es[i]]
      /\ \A i \in 1..n : es[i] \in Entries
  OBVIOUS
<1>2. /\ DOMAIN q = 1..n
      /\ \A i \in 1..n : q[i].id = es[i].id /\ q[i].ver = es[i].ver
  BY <1>1
<1> HIDE DEF n
<1>3. \A i \in 1..n : q[i] \in Items(Ids)
  <2>1. \A i \in 1..n : es[i].id \in Ids /\ es[i].ver \in Nat
    BY <1>1 DEF Entries
  <2> QED
    BY <1>1, <2>1 DEF Items
<1>4. q \in Seq(Items(Ids))
  <2>1. q = [i \in 1..n |-> q[i]]
    BY <1>1
  <2> QED
    BY <1>1, <1>3, <2>1
<1>5. IdsApart(q) /\ QueuedIds(q) = QueuedIds(es)
  BY <1>1, <1>2 DEF IdsApart, QueuedIds
<1>6. \A i \in 1..n : [id |-> es[i].id, ver |-> es[i].ver] = es[i]
  BY <1>1 DEF Entries
<1>7. Listing(q) = [i \in 1..n |-> [id |-> q[i].id, ver |-> q[i].ver]]
  BY <1>2 DEF Listing
<1>8. Listing(q) = es
  BY <1>1, <1>2, <1>6, <1>7
<1> QED
  BY <1>4, <1>5, <1>8

\* recover_queue: the queue is what was recovered, and so is what the next
\* recovery would return, whether or not the snapshot was saved.
LEMMA RecoverKeeps ==
  ASSUME JournalInv, UNCHANGED env, Recover
  PROVE  /\ JournalInv'
         /\ Recovered' = Recovered /\ Listing(queue') = Recovered
         /\ QueuedIds(queue') = QueuedIds(Recovered)
<1>1. /\ Recovered \in Seq(Entries) /\ IdsApart(Recovered)
      /\ QueuedIds(Recovered) \subseteq asked
      /\ Legible(log) \in Seq(Lines)
      /\ \A i \in DOMAIN Legible(log) : Legible(log)[i].ts <= clock
  BY RecoveredType DEF JournalInv
<1>2. /\ queue' = [i \in DOMAIN Recovered |->
                     [id |-> Recovered[i].id, ver |-> Recovered[i].ver, now |-> FALSE]]
      /\ run' = None /\ phase' = "written"
      /\ UNCHANGED <<mirror, asked, ended, crashes, disk>>
      /\ snap' = snap \/ snap' = [entries |-> Recovered, at |-> clock]
  BY DEF Recover
<1>3. /\ queue' \in Seq(Items(Ids)) /\ IdsApart(queue')
      /\ QueuedIds(queue') = QueuedIds(Recovered) /\ Listing(queue') = Recovered
  <2> DEFINE es == Recovered  q == queue'
  <2>1. es \in Seq(Entries) /\ IdsApart(es)
    BY <1>1
  <2>2. q = [i \in DOMAIN es |-> [id |-> es[i].id, ver |-> es[i].ver, now |-> FALSE]]
    BY <1>2
  <2> HIDE DEF es, q
  <2>3. /\ q \in Seq(Items(Ids)) /\ IdsApart(q)
        /\ QueuedIds(q) = QueuedIds(es) /\ Listing(q) = es
    BY <2>1, <2>2, LoadedIs
  <2> QED
    BY <2>3 DEF es, q
<1>4. clock \in Nat /\ None \notin Nat /\ None \notin Snapshots
  BY JournalAssumption DEF JournalInv, JournalOK
<1>5. MemoryOK'
  BY <1>1, <1>2, <1>3 DEF JournalInv, MemoryOK
<1>6. SeenOK' /\ PhaseOK'
  BY <1>2 DEF JournalInv, SeenOK, PhaseOK
<1>7. JournalOK' /\ FaultsOK'
  BY <1>2 DEF JournalInv, JournalOK, FaultsOK, disk
<1>8. SavedOK'
  <2>1. CASE snap' = snap
    BY <1>2, <2>1 DEF JournalInv, SavedOK, disk
  <2>2. CASE snap' = [entries |-> Recovered, at |-> clock]
    <3>1. /\ snap' \in Snapshots
          /\ snap'.entries = Recovered /\ snap'.at = clock
      BY <1>1, <1>4, <2>2 DEF Snapshots
    <3> QED
      BY <1>1, <1>2, <1>4, <3>1 DEF SavedOK, disk
  <2> QED
    BY <1>2, <2>1, <2>2
<1>9. Recovered' = Recovered
  <2>1. CASE snap' = snap
    BY <1>2, <2>1 DEF Recovered, Base, SnapshotAt, Newer, Readable, disk
  <2>2. CASE snap' = [entries |-> Recovered, at |-> clock]
    <3>1. /\ snap' # None /\ snap'.entries = Recovered /\ snap'.at = clock
      BY <1>1, <1>4, <2>2 DEF Snapshots
    <3>2. /\ Base' = Recovered /\ SnapshotAt' = clock
      BY <3>1 DEF Base, SnapshotAt
    <3>3. /\ After(<<>>, clock) = <<>>
          /\ After(Legible(log), clock) = <<>>
      <4>1. clock # None
        BY <1>4
      <4>2. \A i \in DOMAIN Legible(log) : ~ Legible(log)[i].ts > clock
        <5>1. \A i \in DOMAIN Legible(log) : Legible(log)[i] \in Lines
          BY <1>1
        <5> QED
          BY <1>1, <1>4, <5>1 DEF Lines
      <4> QED
        BY <4>1, <4>2, AfterNow
    <3>4. Newer(log, clock) = <<>>
      BY <3>3, NewerIs
    <3>5. Newer(log, SnapshotAt)' = Newer(log, clock)
      BY <1>2, <3>2 DEF Newer, Readable, disk
    <3>6. Recovered' = Replay(Recovered, <<>>)
      BY <3>2, <3>4, <3>5 DEF Recovered
    <3> QED
      BY <3>6, ReplayNone
  <2> QED
    BY <1>2, <2>1, <2>2
<1> QED
  BY <1>3, <1>5, <1>6, <1>7, <1>8, <1>9 DEF JournalInv

\* The first state.
LEMMA JournalInit == ASSUME Init PROVE JournalInv
<1>1. Rows(<<>>, None) = <<>>
  <2>1. <<>> \in Seq(Items(Ids)) /\ Listing(<<>>) = <<>>
    BY DEF Listing
  <2> QED
    BY <2>1, RowsAreListing, JournalAssumption
<1>2. MemoryOK /\ SeenOK
  BY <1>1 DEF Init, MemoryOK, SeenOK, IdsApart, QueuedIds
<1>3. JournalOK
  <2>1. <<>> \in Seq(Lines \cup {None}) /\ DOMAIN <<>> = {}
    OBVIOUS
  <2>2. 0 \in 0..MaxLines
    BY JournalAssumption
  <2> QED
    BY <2>1, <2>2 DEF Init, JournalOK
<1>4. SavedOK /\ FaultsOK
  BY DEF Init, SavedOK, FaultsOK
<1>5. PhaseOK
  BY JournalAssumption DEF Init, PhaseOK
<1> QED
  BY <1>2, <1>3, <1>4, <1>5 DEF JournalInv

\* Every step keeps the invariant.
LEMMA JournalNext ==
  ASSUME JournalInv, [Next /\ UNCHANGED env]_<<vars, env>>
  PROVE  JournalInv'
<1>1. CASE UNCHANGED <<vars, env>>
  <2>1. MemoryOK' /\ SeenOK'
    BY <1>1 DEF JournalInv, MemoryOK, SeenOK, vars, Told
  <2>2. JournalOK' /\ SavedOK' /\ FaultsOK' /\ PhaseOK'
    BY <1>1 DEF JournalInv, JournalOK, SavedOK, FaultsOK, PhaseOK, vars
  <2> QED
    BY <2>1, <2>2 DEF JournalInv
<1>2. CASE Next /\ UNCHANGED env
  <2> USE <1>2
  <2>1. CASE \E id \in Ids : \E sendNow \in BOOLEAN : QueueInput(id, sendNow)
    BY <2>1, QueueInputKeeps
  <2>2. CASE \E id \in asked : \E ver \in 0..MaxVer : RemoveQueuedPrompt(id, ver)
    BY <2>2, RemoveKeeps
  <2>3. CASE \E order \in Orders : ReorderQueue(order)
    BY <2>3, ReorderKeeps
  <2>4. CASE \E owner \in {OwnerOf[id] : id \in Ids} \cup {None} : ClearQueue(owner)
    BY <2>4, ClearKeeps
  <2>5. CASE \E id \in asked : EditQueuedPrompt(id)
    BY <2>5, EditKeeps
  <2>6. CASE \E id \in asked : \E ver \in 0..MaxVer : \E edit \in BOOLEAN :
               InterjectQueuedPrompt(id, ver, edit)
    BY <2>6, InterjectKeeps
  <2>7. CASE StartTurn
    BY <2>7, StartKeeps
  <2>8. CASE EndTurn
    BY <2>8, EndKeeps
  <2>9. CASE Broadcast
    BY <2>9, BroadcastKeeps
  <2>10. CASE Crash
    BY <2>10, CrashKeeps
  <2>11. CASE Recover
    BY <2>11, RecoverKeeps
  <2> QED
    BY <2>1, <2>2, <2>3, <2>4, <2>5, <2>6, <2>7, <2>8, <2>9, <2>10, <2>11 DEF Next
<1> QED
  BY <1>1, <1>2

LEMMA JournalAlways == Spec => []JournalInv
BY JournalInit, JournalNext, PTL DEF Spec

\* The files, the queue and the broadcast keep their shapes, and a recovery
\* returns entries of prompts that exist, after any crashes and short writes.
THEOREM JournalTyped == Spec => []TypeOK
<1>1. JournalInv => TypeOK
  <2> SUFFICES ASSUME JournalInv PROVE TypeOK
    OBVIOUS
  <2>1. Recovered \in Seq(Entries)
    BY RecoveredType DEF JournalInv
  <2> QED
    BY <2>1 DEF JournalInv, TypeOK, MemoryOK, SeenOK, JournalOK, SavedOK, FaultsOK,
                PhaseOK
<1> QED
  BY <1>1, JournalAlways, PTL

\* A recovery that runs again over what the lines come to returns the same: its
\* snapshot may have been lost, or may hold events that are read once more.
THEOREM RecoveryIsRepeatable == Spec => []ReplayTwice
<1>1. JournalInv => ReplayTwice
  <2> SUFFICES ASSUME JournalInv PROVE ReplayTwice
    OBVIOUS
  <2>1. Readable(log) \in Seq(Lines)
    <3>1. Legible(log) \in Seq(Lines)
      BY RecoveredType DEF JournalInv
    <3> QED
      BY <3>1 DEF Readable, Legible
  <2> QED
    BY <2>1, ReplayAgain DEF ReplayTwice
<1> QED
  BY <1>1, JournalAlways, PTL

------------------------------------------------------------------------------
(***************************************************************************)
(* What an append makes of the recovered queue, with a clock that tells    *)
(* the events apart and no line cut inside a character.                    *)
(***************************************************************************)

\* A whole line applies its event; a line that is lost leaves the recovered
\* queue as it is, and its event's prompts are counted as torn.
LEMMA WrittenOrLost ==
  ASSUME JournalInv, UNCHANGED env, NEW ev \in Events, Persist(ev),
         "coarse" \notin env, "short" \notin env \/ "split" \notin env
  PROVE  \/ Recovered' = ApplyEvent(Recovered, ev) /\ torned' = torned
         \/ /\ "short" \in env
            /\ Recovered' = Recovered /\ torned' = torned \cup Touches(ev)
<1> DEFINE line == [ev |-> ev, ts |-> clock']
           whole == Legible(log)
           at == SnapshotAt
<1>1. /\ Base \in Seq(Entries) /\ Newer(log, SnapshotAt) \in Seq(Lines)
      /\ whole \in Seq(Lines)
  BY RecoveredType DEF JournalInv
<1>2. /\ clock \in Nat /\ clock' = clock + 1 /\ snap' = snap
      /\ log \in Seq(Lines \cup {None}) /\ None \notin Lines
  BY JournalAssumption DEF JournalInv, JournalOK, Persist, Emit
<1>3. ~garbled /\ ~garbled'
  BY DEF JournalInv, FaultsOK, Persist, Emit
<1>4. line \in Lines /\ line.ev = ev /\ line.ts = clock + 1
  BY <1>2 DEF Lines
<1>5. at = None \/ line.ts > at
  <2>1. snap # None => snap.at \in Nat /\ snap.at <= clock
    BY DEF JournalInv, SavedOK, Snapshots
  <2> HIDE DEF line
  <2> QED
    BY <1>2, <1>4, <2>1 DEF SnapshotAt
<1>6. Newer(log, at) = After(whole, at)
  BY <1>3, NewerIs
<1>7. Newer(log, SnapshotAt)' = After(Legible(log'), at)
  BY <1>2, <1>3 DEF Newer, Readable, After, Legible, SnapshotAt
<1>8. Base' = Base
  BY <1>2 DEF Base
<1> HIDE DEF line, whole, at
<1>9. CASE ~torn /\ log' = Append(log, line) /\ torned' = torned
  <2>1. Legible(log') = Append(whole, line)
    BY <1>2, <1>4, <1>9, LegibleAppend DEF whole
  <2>2. After(Append(whole, line), at) = Append(After(whole, at), line)
    BY <1>1, <1>4, <1>5, AfterAppend
  <2>3. After(whole, at) \in Seq(Lines)
    BY <1>1, AfterType
  <2>4. Recovered' = Replay(Base, Append(After(whole, at), line))
    BY <1>7, <1>8, <2>1, <2>2 DEF Recovered
  <2>5. Replay(Base, Append(After(whole, at), line))
          = ApplyEvent(Replay(Base, After(whole, at)), line.ev)
    BY <1>4, <2>3, ReplayAppend
  <2>6. Recovered = Replay(Base, After(whole, at))
    BY <1>6 DEF Recovered, at
  <2> QED
    BY <1>4, <1>9, <2>4, <2>5, <2>6
<1>10. CASE /\ log' = log \/ log' = Append(log, None)
            /\ torned' = torned \cup Touches(ev) /\ "short" \in env
  <2>1. Legible(log') = whole
    BY <1>2, <1>10, LegibleAppend DEF whole
  <2>2. Recovered' = Recovered
    BY <1>6, <1>7, <1>8, <2>1 DEF Recovered, at
  <2> QED
    BY <1>10, <2>2
<1> QED
  BY <1>2, <1>9, <1>10 DEF JournalInv, FaultsOK, Persist, Emit, line

------------------------------------------------------------------------------
(***************************************************************************)
(* Where only removals, reorders, clears and edits change the queue, the   *)
(* event that a handler writes does to the listed queue what the handler   *)
(* does to the queue.                                                      *)
(***************************************************************************)

\* Entries that agree with the items of a queue are its listing.
LEMMA ListedAs ==
  ASSUME NEW s \in Seq(Items(Ids)), NEW r \in Seq(Entries), Len(r) = Len(s),
         \A i \in 1..Len(s) : r[i] = [id |-> s[i].id, ver |-> s[i].ver]
  PROVE  Listing(s) = r
<1> DEFINE n == Len(s)
<1>1. DOMAIN s = 1..n /\ DOMAIN r = 1..n /\ r = [i \in 1..n |-> r[i]]
  OBVIOUS
<1>2. Listing(s) = [i \in 1..n |-> [id |-> s[i].id, ver |-> s[i].ver]]
  BY <1>1 DEF Listing
<1> QED
  BY <1>1, <1>2

\* queue_input, at the end of the queue.
LEMMA InputTells ==
  ASSUME JournalInv, NEW id \in Ids \ asked,
         queue' = Append(queue, [id |-> id, ver |-> 0, now |-> FALSE])
  PROVE  Listing(queue') = ApplyEvent(Listing(queue), Enqueue(id))
<1> DEFINE item == [id |-> id, ver |-> 0, now |-> FALSE]
           es == Listing(queue)
           e == [id |-> id, ver |-> 0]
           n == Len(queue)
<1>1. /\ queue \in Seq(Items(Ids)) /\ id \notin QueuedIds(queue)
      /\ item \in Items(Ids) /\ e \in Entries
  BY DEF JournalInv, MemoryOK, Items, Entries
<1>2. /\ es \in Seq(Entries) /\ Len(es) = n /\ QueuedIds(es) = QueuedIds(queue)
      /\ n \in Nat
  BY <1>1, ListingType
<1>3. ApplyEvent(es, Enqueue(id)) = Append(Without(es, id), e)
  BY DEF ApplyEvent, ApplyEnqueue, Enqueue
<1>4. Without(es, id) = es
  <2> HIDE DEF es
  <2>1. {k \in DOMAIN es : es[k].id # id} = DOMAIN es
    BY <1>1, <1>2 DEF QueuedIds
  <2> QED
    BY <1>2, <2>1, KeepAll DEF Without
<1>5. /\ queue' \in Seq(Items(Ids)) /\ Len(queue') = n + 1
      /\ \A i \in 1..n : queue'[i] = queue[i]
      /\ queue'[n + 1] = item
  <2> HIDE DEF item
  <2> QED
    BY <1>1, AppendProperties DEF item
<1>6. /\ DOMAIN Append(es, e) = 1..(n + 1) /\ Append(es, e)[n + 1] = e
      /\ \A i \in 1..n : Append(es, e)[i] = es[i]
      /\ Append(es, e) \in Seq(Entries)
  <2> HIDE DEF es, e, n
  <2> QED
    BY <1>1, <1>2, AppendProperties
<1>7. \A i \in 1..n : es[i] = [id |-> queue[i].id, ver |-> queue[i].ver]
  BY <1>1 DEF Listing
<1>8. e = [id |-> item.id, ver |-> item.ver]
  OBVIOUS
<1> HIDE DEF es, e, item, n
<1>9. \A i \in 1..(n + 1) :
        Append(es, e)[i] = [id |-> queue'[i].id, ver |-> queue'[i].ver]
  <2>1. \A i \in 1..(n + 1) : i \in 1..n \/ i = n + 1
    BY <1>2
  <2> QED
    BY <1>5, <1>6, <1>7, <1>8, <2>1
<1>10. Len(Append(es, e)) = Len(queue')
  BY <1>2, <1>5, <1>6
<1>11. Listing(queue') = Append(es, e)
  BY <1>5, <1>6, <1>9, <1>10, ListedAs
<1> QED
  BY <1>3, <1>4, <1>11 DEF es, e

\* handle_remove_queued_prompt, when the row is there.
LEMMA RemoveTells ==
  ASSUME JournalInv, NEW k \in DOMAIN queue, queue' = RemoveAt(queue, k)
  PROVE  Listing(queue') = ApplyEvent(Listing(queue), Dequeue(queue[k].id))
<1> DEFINE es == Listing(queue)
           id == queue[k].id
           n == Len(queue)
<1>1. /\ queue \in Seq(Items(Ids)) /\ IdsApart(queue) /\ n \in Nat
      /\ DOMAIN queue = 1..n
  BY DEF JournalInv, MemoryOK
<1>2. /\ es \in Seq(Entries) /\ Len(es) = n /\ DOMAIN es = 1..n
      /\ \A i \in 1..n : es[i].id = queue[i].id
  BY <1>1, ListingType
<1>3. ApplyEvent(es, Dequeue(id)) = Without(es, id)
  BY DEF ApplyEvent, Dequeue
<1>4. Without(es, id) = RemoveAt(es, k)
  <2>1. {j \in DOMAIN es : es[j].id # id} = DOMAIN es \ {k}
    <3> HIDE DEF es
    <3> QED
      BY <1>1, <1>2 DEF IdsApart
  <2> HIDE DEF es, id
  <2> QED
    BY <1>1, <1>2, <2>1, KeepOthers DEF Without
<1>5. /\ queue' \in Seq(Items(Ids)) /\ Len(queue') = n - 1
      /\ \A i \in 1..(n - 1) : queue'[i] = queue[IF i < k THEN i ELSE i + 1]
  BY <1>1, RemoveAtIs
<1>6. /\ RemoveAt(es, k) \in Seq(Entries) /\ Len(RemoveAt(es, k)) = n - 1
      /\ \A i \in 1..(n - 1) :
           RemoveAt(es, k)[i] = es[IF i < k THEN i ELSE i + 1]
  <2> HIDE DEF es
  <2> QED
    BY <1>1, <1>2, RemoveAtIs
<1>7. \A i \in 1..n : es[i] = [id |-> queue[i].id, ver |-> queue[i].ver]
  BY <1>1 DEF Listing
<1> HIDE DEF es, id, n
<1>8. ASSUME NEW i \in 1..(n - 1)
      PROVE  RemoveAt(es, k)[i] = [id |-> queue'[i].id, ver |-> queue'[i].ver]
  <2>1. PICK j \in 1..n : j = IF i < k THEN i ELSE i + 1
    BY <1>1
  <2>2. queue'[i] = queue[j] /\ RemoveAt(es, k)[i] = es[j]
    BY <1>5, <1>6, <2>1
  <2> QED
    BY <1>7, <2>2
<1>9. Listing(queue') = RemoveAt(es, k)
  BY <1>5, <1>6, <1>8, ListedAs
<1> QED
  BY <1>3, <1>4, <1>9 DEF es, id

\* handle_edit_queued_prompt.
LEMMA EditTells ==
  ASSUME JournalInv, NEW k \in DOMAIN queue, queue' = EditRow(queue, k)
  PROVE  Listing(queue')
           = ApplyEvent(Listing(queue), Edited(queue[k].id, queue[k].ver + 1))
<1> DEFINE es == Listing(queue)
           id == queue[k].id
           ver == queue[k].ver + 1
           n == Len(queue)
<1>1. /\ queue \in Seq(Items(Ids)) /\ IdsApart(queue) /\ DOMAIN queue = 1..n
      /\ \A i \in 1..n : queue[i] \in Items(Ids)
  BY DEF JournalInv, MemoryOK
<1>2. DOMAIN es = 1..n /\ \A i \in 1..n : es[i] = [id |-> queue[i].id, ver |-> queue[i].ver]
  BY <1>1 DEF Listing
<1>3. ApplyEvent(es, Edited(id, ver)) = Revised(es, id, ver)
  BY DEF ApplyEvent, Edited, Revised
<1>4. /\ DOMAIN queue' = 1..n
      /\ \A i \in 1..n : queue'[i] = IF i = k THEN [queue[k] EXCEPT !.ver = @ + 1]
                                              ELSE queue[i]
  BY <1>1 DEF EditRow
<1>5. ASSUME NEW i \in 1..n
      PROVE  [id |-> queue'[i].id, ver |-> queue'[i].ver]
               = IF es[i].id = id THEN [es[i] EXCEPT !.ver = ver] ELSE es[i]
  <2>1. CASE i = k
    <3>1. queue'[i].id = id /\ queue'[i].ver = ver
      BY <1>1, <1>4, <2>1 DEF Items
    <3>2. es[i] = [id |-> id, ver |-> queue[k].ver]
      BY <1>2, <2>1
    <3> QED
      BY <3>1, <3>2
  <2>2. CASE i # k
    <3>1. queue'[i] = queue[i] /\ queue[i].id # id
      BY <1>1, <1>4, <2>2 DEF IdsApart
    <3> QED
      BY <1>2, <3>1
  <2> QED
    BY <2>1, <2>2
<1>6. Listing(queue') = [i \in 1..n |-> [id |-> queue'[i].id, ver |-> queue'[i].ver]]
  BY <1>4 DEF Listing
<1>7. Revised(es, id, ver)
        = [i \in 1..n |-> IF es[i].id = id THEN [es[i] EXCEPT !.ver = ver] ELSE es[i]]
  BY <1>2 DEF Revised
<1> HIDE DEF es, id, ver
<1>8. Listing(queue') = Revised(es, id, ver)
  BY <1>5, <1>6, <1>7
<1> QED
  BY <1>3, <1>8 DEF es, id, ver

\* Entries sorted by the ids of a queue that holds the same prompts are that
\* queue: handle_reorder_queue writes every id in its new order.
LEMMA ReorderAsNamed ==
  ASSUME NEW es \in Seq(Entries), NEW r \in Seq(Entries), IdsApart(r),
         NEW f, Picks(r, es, DOMAIN es, f),
         NEW ids \in Seq(Ids), Len(ids) = Len(r),
         \A i \in 1..Len(r) : ids[i] = r[i].id
  PROVE  ApplyReorder(es, ids) = r
<1> DEFINE n == Len(r)
           K == DOMAIN es
           key == SortKey(es, ids)
<1>1. n \in Nat /\ DOMAIN r = 1..n /\ DOMAIN ids = 1..n
  OBVIOUS
<1>2. /\ \A i \in 1..n : f[i] \in K /\ r[i] = es[f[i]]
      /\ \A k \in K : \E i \in 1..n : f[i] = k
  BY <1>1 DEF Picks
<1>3. /\ Ordered(K, key)
      /\ \A j, k \in K :
           key[j] < key[k] <=>
             \/ Rank(ids, es[j].id) < Rank(ids, es[k].id)
             \/ Rank(ids, es[j].id) = Rank(ids, es[k].id) /\ j < k
  BY SortOrdered
<1>4. /\ Takes(ApplyReorder(es, ids), es, K, key)
      /\ ApplyReorder(es, ids) \in Seq(Entries)
  BY ReorderTakes
<1> HIDE DEF n, K, key
<1>5. ASSUME NEW i \in 1..n PROVE Rank(ids, es[f[i]].id) = i
  <2>1. es[f[i]].id = ids[i] /\ i \in DOMAIN ids
    BY <1>1, <1>2 DEF n
  <2>2. \A j \in 1..n : ids[j] = ids[i] => j = i
    BY <1>1 DEF IdsApart, n
  <2>3. \A j \in DOMAIN ids :
          ids[j] = ids[i] /\ (\A l \in 1..(j - 1) : ids[l] # ids[i]) <=> j = i
    BY <1>1, <2>2
  <2> QED
    BY <2>1, <2>3 DEF Rank
<1>6. \A i, j \in 1..n : i < j => key[f[i]] < key[f[j]]
  BY <1>2, <1>3, <1>5
<1>7. Lists(f, n, K, key)
  BY <1>2, <1>6 DEF Lists
<1>8. Takes(r, es, K, key)
  BY <1>2, <1>7 DEF Takes, n
<1>9. \A k \in K : key[k] \in Int
  BY <1>3 DEF Ordered
<1> QED
  BY <1>4, <1>8, <1>9, TakesUnique

\* handle_reorder_queue, with no turn running.
LEMMA ReorderTells ==
  ASSUME JournalInv, NEW order \in Orders, queue' = ReorderRows(queue, run, Ids, order)
  PROVE  Listing(queue')
           = ApplyEvent(Listing(queue), Reordered([i \in DOMAIN queue' |-> queue'[i].id]))
<1> DEFINE es == Listing(queue)
           r == Listing(queue')
           ids == [i \in DOMAIN queue' |-> queue'[i].id]
           n == Len(queue')
           K == DOMAIN queue
           key == ReorderKey(queue, run, Ids, order)
<1>1. queue \in Seq(Items(Ids)) /\ IdsApart(queue)
  BY DEF JournalInv, MemoryOK
<1>2. order \in Seq(EntryIds(mirror))
  BY OrderType
<1>3. queue' \in Seq(Items(Ids)) /\ IdsApart(queue')
  BY <1>1, <1>2, ReorderRowsType, ReorderIds
<1>4. PICK f : Picks(queue', queue, K, f)
  <2>1. Ordered(K, key)
    BY <1>1, <1>2, ReorderOrdered
  <2>2. K \in SUBSET DOMAIN queue
    OBVIOUS
  <2> HIDE DEF K, key
  <2>3. \E f : Picks(OrderBy(queue, K, key), queue, K, f)
    BY <1>1, <2>1, <2>2, OrderByPicks
  <2> QED
    BY <2>3 DEF ReorderRows, K, key
<1>5. /\ es \in Seq(Entries) /\ DOMAIN es = K
      /\ \A k \in K : es[k] = [id |-> queue[k].id, ver |-> queue[k].ver]
  BY <1>1, ListingType DEF Listing
<1>6. /\ r \in Seq(Entries) /\ Len(r) = n /\ IdsApart(r) /\ DOMAIN r = DOMAIN queue'
      /\ \A i \in DOMAIN queue' : r[i] = [id |-> queue'[i].id, ver |-> queue'[i].ver]
  BY <1>3, ListingType DEF Listing
<1>7. n \in Nat /\ DOMAIN queue' = 1..n
  BY <1>3
<1>8. ids \in Seq(Ids) /\ Len(ids) = n /\ \A i \in 1..n : ids[i] = queue'[i].id
  <2>1. \A i \in DOMAIN queue' : queue'[i] \in Items(Ids)
    BY <1>3
  <2>2. \A i \in DOMAIN queue' : queue'[i].id \in Ids
    BY <2>1 DEF Items
  <2> HIDE DEF n
  <2>3. ids \in Seq(Ids)
    BY <1>7, <2>2
  <2> QED
    BY <1>7, <2>3
<1>9. ApplyEvent(es, Reordered(ids)) = ApplyReorder(es, ids)
  BY DEF ApplyEvent, Reordered
<1> HIDE DEF es, r, ids, n, K
<1>10. Picks(r, es, DOMAIN es, f)
  <2>1. /\ f \in [DOMAIN queue' -> K]
        /\ \A i \in DOMAIN queue' : f[i] \in K /\ queue'[i] = queue[f[i]]
        /\ \A i, j \in DOMAIN queue' : f[i] = f[j] => i = j
        /\ \A k \in K : \E i \in DOMAIN queue' : f[i] = k
    BY <1>4 DEF Picks
  <2>2. ASSUME NEW i \in DOMAIN queue' PROVE r[i] = es[f[i]]
    <3>1. PICK k \in K : k = f[i] /\ queue'[i] = queue[k]
      BY <2>1
    <3> QED
      BY <1>5, <1>6, <3>1
  <2> QED
    BY <1>5, <1>6, <2>1, <2>2 DEF Picks
<1>11. \A i \in 1..n : ids[i] = r[i].id
  BY <1>6, <1>7, <1>8
<1>12. ApplyReorder(es, ids) = r
  BY <1>5, <1>6, <1>8, <1>10, <1>11, ReorderAsNamed
<1> QED
  BY <1>9, <1>12 DEF es, r, ids

\* Every handler that may run where all changes are written, and none is
\* refused or scoped.
LEMMA HandlersTell ==
  ASSUME JournalInv, UNCHANGED env, Told, Apt, Next, phase' # "down"
  PROVE  \/ /\ UNCHANGED <<queue, torned>> /\ phase # "down"
            /\ Recovered' = Recovered
         \/ Recovered' = Recovered /\ Listing(queue') = Recovered /\ torned' = torned
         \/ \E ev \in Events : /\ Listing(queue') = ApplyEvent(Listing(queue), ev)
                               /\ Persist(ev) /\ phase # "down"
<1>1. /\ run = None /\ queue \in Seq(Items(Ids))
      /\ None \notin Ids /\ asked \subseteq Ids
  BY JournalAssumption DEF JournalInv, MemoryOK
<1>2. {"send_now", "promote", "turn", "stale_remove", "scoped_clear"} \cap env = {}
  BY DEF Told, Apt
<1>3. ASSUME NEW id \in Ids, NEW sendNow \in BOOLEAN, QueueInput(id, sendNow)
      PROVE  \E ev \in Events : /\ Listing(queue') = ApplyEvent(Listing(queue), ev)
                                /\ Persist(ev) /\ phase # "down"
  <2>1. /\ id \in Ids \ asked /\ Persist(Enqueue(id)) /\ phase = "idle"
        /\ queue' = Append(queue, [id |-> id, ver |-> 0, now |-> FALSE])
    BY <1>2, <1>3 DEF QueueInput
  <2>2. Listing(queue') = ApplyEvent(Listing(queue), Enqueue(id))
    BY <2>1, InputTells
  <2>3. Enqueue(id) \in Events
    BY DEF Enqueue, Events
  <2> QED
    BY <2>1, <2>2, <2>3
<1>4. ASSUME NEW id \in asked, NEW ver, RemoveQueuedPrompt(id, ver)
      PROVE  \E ev \in Events : /\ Listing(queue') = ApplyEvent(Listing(queue), ev)
                                /\ Persist(ev) /\ phase # "down"
  <2>1. PICK k \in DOMAIN queue : queue[k].id = id /\ queue' = RemoveAt(queue, k)
    BY <1>2, <1>4 DEF RemoveQueuedPrompt, RowMatches, RemoveRow
  <2>2. Listing(queue') = ApplyEvent(Listing(queue), Dequeue(id))
    BY <2>1, RemoveTells
  <2>3. Dequeue(id) \in Events
    BY <1>1 DEF Dequeue, Events
  <2> QED
    BY <1>4, <2>2, <2>3 DEF RemoveQueuedPrompt
<1>5. ASSUME NEW order \in Orders, ReorderQueue(order)
      PROVE  \E ev \in Events : /\ Listing(queue') = ApplyEvent(Listing(queue), ev)
                                /\ Persist(ev) /\ phase # "down"
  <2> DEFINE ev == Reordered([i \in DOMAIN queue' |-> queue'[i].id])
  <2>1. ev \in Events
    BY <1>5, ReorderKeeps
  <2>2. Listing(queue') = ApplyEvent(Listing(queue), ev)
    BY <1>5, ReorderTells DEF ReorderQueue
  <2>3. Persist(ev) /\ phase # "down"
    BY <1>5 DEF ReorderQueue
  <2> QED
    BY <2>1, <2>2, <2>3
<1>6. ASSUME NEW owner, ClearQueue(owner)
      PROVE  \E ev \in Events : /\ Listing(queue') = ApplyEvent(Listing(queue), ev)
                                /\ Persist(ev) /\ phase # "down"
  <2>1. {k \in DOMAIN queue : \/ queue[k].id = run
                              \/ owner # None /\ OwnerOf[queue[k].id] # owner} = {}
    <3>1. owner = None
      BY <1>2, <1>6 DEF ClearQueue
    <3>2. \A k \in DOMAIN queue : queue[k].id # None
      <4>1. \A k \in DOMAIN queue : queue[k] \in Items(Ids)
        BY <1>1
      <4> QED
        BY <1>1, <4>1 DEF Items
    <3> QED
      BY <1>1, <3>1, <3>2
  <2>2. queue' = <<>> /\ Persist(Cleared) /\ phase # "down"
    BY <1>6, <2>1, KeepNothing DEF ClearQueue
  <2>3. Listing(queue') = ApplyEvent(Listing(queue), Cleared)
    BY <2>2 DEF Listing, ApplyEvent, Cleared
  <2>4. Cleared \in Events
    BY DEF Cleared, Events
  <2> QED
    BY <2>2, <2>3, <2>4
<1>7. ASSUME NEW id \in asked, EditQueuedPrompt(id)
      PROVE  \E ev \in Events : /\ Listing(queue') = ApplyEvent(Listing(queue), ev)
                                /\ Persist(ev) /\ phase # "down"
  <2>1. PICK k \in DOMAIN queue :
          /\ queue[k].id = id /\ queue' = EditRow(queue, k)
          /\ Persist(Edited(id, queue[k].ver + 1))
    BY <1>7 DEF EditQueuedPrompt
  <2>2. Listing(queue') = ApplyEvent(Listing(queue), Edited(id, queue[k].ver + 1))
    BY <2>1, EditTells
  <2>3. Edited(id, queue[k].ver + 1) \in Events
    <3>1. queue[k] \in Items(Ids)
      BY <1>1
    <3> QED
      BY <1>1, <3>1 DEF Edited, Events, Items
  <2> QED
    BY <1>7, <2>1, <2>2, <2>3 DEF EditQueuedPrompt
<1>8. ASSUME Broadcast
      PROVE  /\ UNCHANGED <<queue, torned>> /\ phase # "down" /\ Recovered' = Recovered
  BY <1>8 DEF Broadcast, Recovered, Base, SnapshotAt, Newer, Readable, disk
<1>9. ASSUME Recover
      PROVE  Recovered' = Recovered /\ Listing(queue') = Recovered /\ torned' = torned
  BY <1>9, RecoverKeeps DEF Recover, disk
<1>10. /\ ~ StartTurn /\ ~ EndTurn /\ ~ Crash
       /\ \A id, ver, edit : ~ InterjectQueuedPrompt(id, ver, edit)
  BY <1>1, <1>2 DEF StartTurn, EndTurn, Crash, InterjectQueuedPrompt
<1> QED
  BY <1>3, <1>4, <1>5, <1>6, <1>7, <1>8, <1>9, <1>10 DEF Next

------------------------------------------------------------------------------
(***************************************************************************)
(* The properties of the recovered queue.                                  *)
(***************************************************************************)

\* Where every change is written and no line is lost, recovery returns the queue.
Matches == Told /\ Trusted /\ phase # "down" => Recovered = Listing(queue)

LEMMA MatchesNext ==
  ASSUME JournalInv, Matches, [Next /\ UNCHANGED env]_<<vars, env>>
  PROVE  Matches'
<1>1. CASE UNCHANGED <<vars, env>>
  BY <1>1 DEF Matches, Told, Trusted, Apt, vars, Recovered, Base, SnapshotAt, Newer,
              Readable, Listing
<1>2. CASE Next /\ UNCHANGED env
  <2> SUFFICES ASSUME Told, Trusted, phase' # "down"
               PROVE  Recovered' = Listing(queue')
    BY <1>2 DEF Matches, Told, Trusted, Apt, Listing
  <2>1. CASE UNCHANGED queue /\ phase # "down" /\ Recovered' = Recovered
    BY <2>1 DEF Matches, Listing
  <2>2. CASE Recovered' = Recovered /\ Listing(queue') = Recovered
    BY <2>2
  <2>3. CASE \E ev \in Events : /\ Listing(queue') = ApplyEvent(Listing(queue), ev)
                                /\ Persist(ev) /\ phase # "down"
    <3>1. PICK ev \in Events : /\ Listing(queue') = ApplyEvent(Listing(queue), ev)
                               /\ Persist(ev) /\ phase # "down"
      BY <2>3
    <3>2. "coarse" \notin env /\ "short" \notin env
      BY DEF Trusted, Apt
    <3>3. Recovered' = ApplyEvent(Recovered, ev)
      BY <1>2, <3>1, <3>2, WrittenOrLost
    <3>4. Recovered = Listing(queue)
      BY <3>1 DEF Matches
    <3> QED
      BY <3>1, <3>3, <3>4
  <2> QED
    BY <1>2, <2>1, <2>2, <2>3, HandlersTell DEF Trusted
<1> QED
  BY <1>1, <1>2

LEMMA NothingToReplay ==
  ASSUME ~garbled, log = <<>>
  PROVE  Newer(log, None) = <<>>
<1>1. /\ {i \in DOMAIN <<>> : <<>>[i] # None} = {}
      /\ {i \in DOMAIN <<>> : None = None \/ <<>>[i].ts > None} = {}
  OBVIOUS
<1>2. Legible(<<>>) = <<>> /\ After(<<>>, None) = <<>>
  BY <1>1, KeepNothing DEF Legible, After
<1> QED
  BY <1>2, NewerIs

\* A new session has nothing to recover.
LEMMA RecoversNothing ==
  ASSUME Init PROVE Recovered = Listing(queue)
<1>1. log = <<>> /\ ~garbled /\ snap = None /\ queue = <<>>
  BY DEF Init
<1>2. Newer(log, SnapshotAt) = <<>>
  BY <1>1, NothingToReplay DEF SnapshotAt
<1> QED
  BY <1>1, <1>2, ReplayNone DEF Recovered, Base, Listing

LEMMA MatchesAlways == Spec => []Matches
<1>1. Init => Matches
  BY RecoversNothing DEF Matches
<1> QED
  BY <1>1, JournalAlways, MatchesNext, PTL DEF Spec

\* What a crash recovers is the queue: recover_queue after any edits, removals,
\* reorders and clears, over any number of crashes, whether or not the earlier
\* recoveries saved their snapshot.
THEOREM RecoveryReturnsQueue == Spec => []ReplayMatches
<1>1. JournalInv /\ Matches => ReplayMatches
  <2> SUFFICES ASSUME JournalInv, Matches, Told, Trusted, phase # "down"
               PROVE  Recovered = Rows(queue, run)
    BY DEF ReplayMatches
  <2>1. run = None /\ queue \in Seq(Items(Ids)) /\ None \notin Ids
    BY JournalAssumption DEF JournalInv, MemoryOK
  <2>2. Rows(queue, run) = Listing(queue)
    BY <2>1, RowsAreListing
  <2> QED
    BY <2>2 DEF Matches
<1> QED
  BY <1>1, JournalAlways, MatchesAlways, PTL

\* The queue that clients see when no handler runs would survive a crash: each
\* handler appends its event before it broadcasts.
THEOREM ShownSurvivesCrash == Spec => []SeenIsDurable
<1>1. JournalInv /\ ReplayMatches => SeenIsDurable
  BY DEF JournalInv, SeenOK, ReplayMatches, SeenIsDurable
<1> QED
  BY <1>1, JournalAlways, RecoveryReturnsQueue, PTL

\* With turns, send-nows and promotions, which are not written: every prompt
\* that waits is recovered.
Kept == Trusted /\ phase # "down" => QueuedIds(queue) \ {run} \subseteq QueuedIds(Recovered)

\* A step that writes no event, nor touches the files.
LEMMA QuietRecovers ==
  ASSUME UNCHANGED <<snap, disk>>
  PROVE  Recovered' = Recovered
BY DEF Recovered, Base, SnapshotAt, Newer, Readable, disk

LEMMA KeptNext ==
  ASSUME JournalInv, Kept, [Next /\ UNCHANGED env]_<<vars, env>>
  PROVE  Kept'
<1>1. CASE UNCHANGED <<vars, env>>
  <2>1. UNCHANGED <<snap, disk>>
    BY <1>1 DEF vars, disk
  <2> QED
    BY <1>1, <2>1, QuietRecovers DEF Kept, Trusted, Apt, vars, QueuedIds
<1>2. CASE Next /\ UNCHANGED env
  <2> SUFFICES ASSUME Trusted, phase' # "down"
               PROVE  QueuedIds(queue') \ {run'} \subseteq QueuedIds(Recovered')
    BY <1>2 DEF Kept, Trusted, Apt, QueuedIds
  <2> USE <1>2
  <2>1. /\ {"stale_remove", "scoped_clear", "coarse", "short"} \cap env = {}
        /\ phase # "down" => QueuedIds(queue) \ {run} \subseteq QueuedIds(Recovered)
    BY DEF Trusted, Apt, Kept
  <2>2. /\ queue \in Seq(Items(Ids)) /\ IdsApart(queue)
        /\ run # None => FrontRuns(queue, run)
        /\ Recovered \in Seq(Entries) /\ asked \subseteq Ids
    BY RecoveredType DEF JournalInv, MemoryOK
  <2>3. ASSUME NEW ev \in Events, Persist(ev)
        PROVE  QueuedIds(Recovered') =
                 CASE ev.op = "enqueue" -> QueuedIds(Recovered) \cup {ev.id}
                   [] ev.op = "dequeue" -> QueuedIds(Recovered) \ {ev.id}
                   [] ev.op \in {"edit", "reorder"} -> QueuedIds(Recovered)
                   [] ev.op = "clear" -> {}
    <3>1. Recovered' = ApplyEvent(Recovered, ev)
      BY <2>1, <2>3, WrittenOrLost
    <3> DEFINE es == Recovered
    <3>2. QueuedIds(ApplyEvent(es, ev)) =
            CASE ev.op = "enqueue" -> QueuedIds(es) \cup {ev.id}
              [] ev.op = "dequeue" -> QueuedIds(es) \ {ev.id}
              [] ev.op \in {"edit", "reorder"} -> QueuedIds(es)
              [] ev.op = "clear" -> {}
      <4>1. es \in Seq(Entries)
        BY <2>2
      <4> HIDE DEF es
      <4> QED
        BY <4>1, ApplyIds
    <3> QED
      BY <3>1, <3>2
  <2>4. CASE \E id \in Ids : \E sendNow \in BOOLEAN : QueueInput(id, sendNow)
    <3>1. PICK id \in Ids, sendNow \in BOOLEAN : QueueInput(id, sendNow)
      BY <2>4
    <3> DEFINE item == [id |-> id, ver |-> 0, now |-> FALSE]
    <3>2. /\ Persist(Enqueue(id)) /\ run' = run /\ phase # "down"
          /\ queue' \in {InsertSendNow(queue, run, item), Append(queue, item)}
      BY <3>1 DEF QueueInput
    <3>3. item \in Items(Ids) /\ item.id = id
      BY DEF Items
    <3> HIDE DEF item
    <3>4. QueuedIds(queue') = QueuedIds(queue) \cup {id}
      <4>1. QueuedIds(InsertSendNow(queue, run, item)) = QueuedIds(queue) \cup {id}
        BY <2>2, <3>3, InsertSendNowIds
      <4>2. QueuedIds(Append(queue, item)) = QueuedIds(queue) \cup {id}
        BY <2>2, <3>3, AppendApart
      <4> QED
        BY <3>2, <4>1, <4>2
    <3>5. Enqueue(id) \in Events /\ Enqueue(id).op = "enqueue" /\ Enqueue(id).id = id
      BY DEF Enqueue, Events
    <3>6. QueuedIds(Recovered') = QueuedIds(Recovered) \cup {id}
      BY <2>3, <3>2, <3>5
    <3> QED
      BY <2>1, <3>2, <3>4, <3>6
  <2>5. CASE \E id \in asked : \E ver \in 0..MaxVer : RemoveQueuedPrompt(id, ver)
    <3>1. PICK id \in asked, ver \in 0..MaxVer : RemoveQueuedPrompt(id, ver)
      BY <2>5
    <3>2. PICK k \in DOMAIN queue : queue[k].id = id /\ queue' = RemoveAt(queue, k)
      BY <2>1, <3>1 DEF RemoveQueuedPrompt, RowMatches, RemoveRow
    <3>3. QueuedIds(queue') = QueuedIds(queue) \ {id}
      BY <2>2, <3>2, RemoveAtIds
    <3>4. Persist(Dequeue(id)) /\ run' = run /\ phase # "down"
      BY <3>1 DEF RemoveQueuedPrompt
    <3>5. Dequeue(id) \in Events /\ Dequeue(id).op = "dequeue" /\ Dequeue(id).id = id
      BY <2>2 DEF Dequeue, Events
    <3>6. QueuedIds(Recovered') = QueuedIds(Recovered) \ {id}
      BY <2>3, <3>4, <3>5
    <3> QED
      BY <2>1, <3>3, <3>4, <3>6
  <2>6. CASE \E order \in Orders : ReorderQueue(order)
    <3>1. PICK order \in Orders : ReorderQueue(order)
      BY <2>6
    <3> DEFINE ev == Reordered([i \in DOMAIN queue' |-> queue'[i].id])
    <3>2. ev \in Events
      BY <3>1, ReorderKeeps
    <3>3. /\ Persist(ev) /\ run' = run /\ phase # "down"
          /\ queue' = ReorderRows(queue, run, Ids, order)
      BY <3>1 DEF ReorderQueue
    <3>4. ev.op = "reorder"
      BY DEF Reordered
    <3> HIDE DEF ev
    <3>5. QueuedIds(queue') = QueuedIds(queue)
      <4>1. order \in Seq(EntryIds(mirror))
        BY OrderType
      <4> QED
        BY <2>2, <3>3, <4>1, ReorderIds
    <3>6. QueuedIds(Recovered') = QueuedIds(Recovered)
      BY <2>3, <3>2, <3>3, <3>4
    <3> QED
      BY <2>1, <3>3, <3>5, <3>6
  <2>7. CASE \E owner \in {OwnerOf[id] : id \in Ids} \cup {None} : ClearQueue(owner)
    <3>1. PICK owner : ClearQueue(owner)
      BY <2>7
    <3> DEFINE K == {k \in DOMAIN queue :
                       \/ queue[k].id = run
                       \/ owner # None /\ OwnerOf[queue[k].id] # owner}
    <3>2. /\ run' = run /\ queue' = Keep(queue, K) /\ owner = None
      BY <2>1, <3>1 DEF ClearQueue
    <3>3. K \in SUBSET DOMAIN queue /\ {queue[k].id : k \in K} \subseteq {run}
      BY <3>2
    <3> HIDE DEF K
    <3>4. QueuedIds(queue') \subseteq {run}
      BY <2>2, <3>2, <3>3, KeepSet
    <3> QED
      BY <3>2, <3>4
  <2>8. CASE \E id \in asked : EditQueuedPrompt(id)
    <3>1. PICK id \in asked : EditQueuedPrompt(id)
      BY <2>8
    <3>2. PICK k \in DOMAIN queue :
            /\ queue[k].id = id /\ queue' = EditRow(queue, k)
            /\ Persist(Edited(id, queue[k].ver + 1))
      BY <3>1 DEF EditQueuedPrompt
    <3> DEFINE ev == Edited(id, queue[k].ver + 1)
    <3>3. ev \in Events /\ ev.op = "edit"
      <4>1. queue[k] \in Items(Ids)
        BY <2>2
      <4> QED
        BY <2>2, <4>1 DEF Edited, Events, Items
    <3>4. Persist(ev) /\ run' = run /\ phase # "down"
      BY <3>1, <3>2 DEF EditQueuedPrompt
    <3> HIDE DEF ev
    <3>5. QueuedIds(queue') = QueuedIds(queue)
      BY <2>2, <3>2, EditRowIds
    <3>6. QueuedIds(Recovered') = QueuedIds(Recovered)
      BY <2>3, <3>3, <3>4
    <3> QED
      BY <2>1, <3>4, <3>5, <3>6
  <2>9. CASE \E id \in asked : \E ver \in 0..MaxVer : \E edit \in BOOLEAN :
               InterjectQueuedPrompt(id, ver, edit)
    <3>1. PICK id \in asked, ver \in 0..MaxVer, edit \in BOOLEAN :
            InterjectQueuedPrompt(id, ver, edit)
      BY <2>9
    <3>2. PICK k \in DOMAIN queue :
            queue[k].id # run /\ queue' = PromoteRow(queue, run, k, edit)
      BY <3>1 DEF InterjectQueuedPrompt, RowMatches
    <3>3. QueuedIds(queue') = QueuedIds(queue)
      BY <2>2, <3>2, PromoteRowIds
    <3>4. UNCHANGED <<run, snap, disk>> /\ phase # "down"
      BY <3>1 DEF InterjectQueuedPrompt
    <3>5. Recovered' = Recovered
      BY <3>4, QuietRecovers
    <3> QED
      BY <2>1, <3>3, <3>4, <3>5
  <2>10. CASE StartTurn
    <3>1. UNCHANGED <<queue, snap, disk>> /\ phase # "down" /\ run = None
      BY <2>10 DEF StartTurn
    <3>2. Recovered' = Recovered
      BY <3>1, QuietRecovers
    <3>3. None \notin QueuedIds(queue)
      <4>1. None \notin Ids
        BY JournalAssumption
      <4>2. QueuedIds(queue) \subseteq Ids
        BY DEF JournalInv, MemoryOK
      <4> QED
        BY <4>1, <4>2
    <3>4. QueuedIds(queue') = QueuedIds(queue)
      BY <3>1 DEF QueuedIds
    <3> QED
      BY <2>1, <3>1, <3>2, <3>3, <3>4
  <2>11. CASE EndTurn
    <3>1. UNCHANGED <<snap, disk>> /\ phase # "down"
      BY <2>11 DEF EndTurn
    <3>2. Recovered' = Recovered
      BY <3>1, QuietRecovers
    <3>3. QueuedIds(queue') = QueuedIds(queue) \ {run}
      BY <2>11, EndKeeps
    <3> QED
      BY <2>1, <3>1, <3>2, <3>3
  <2>12. CASE Broadcast
    <3>1. UNCHANGED <<queue, run, snap, disk>> /\ phase # "down"
      BY <2>12 DEF Broadcast
    <3>2. Recovered' = Recovered
      BY <3>1, QuietRecovers
    <3> QED
      BY <2>1, <3>1, <3>2 DEF QueuedIds
  <2>13. CASE Recover
    BY <2>13, RecoverKeeps
  <2>14. ~ Crash
    BY DEF Crash
  <2> QED
    BY <2>4, <2>5, <2>6, <2>7, <2>8, <2>9, <2>10, <2>11, <2>12, <2>13, <2>14 DEF Next
<1> QED
  BY <1>1, <1>2

\* No waiting prompt is forgotten by a crash: the changes that no event tells
\* of, turns, send-nows and promotions, only remove the front or reorder.
THEOREM NoPromptForgotten == Spec => []NoRowForgotten
<1>1. Init => Kept
  BY DEF Init, Kept, QueuedIds
<1>2. Spec => []Kept
  BY <1>1, JournalAlways, KeptNext, PTL DEF Spec
<1>3. JournalInv /\ Kept => NoRowForgotten
  <2> SUFFICES ASSUME JournalInv, Kept, Trusted, phase # "down"
               PROVE  EntryIds(Rows(queue, run)) \subseteq EntryIds(Recovered)
    BY DEF NoRowForgotten
  <2>1. EntryIds(Rows(queue, run)) = QueuedIds(queue) \ {run}
    BY RowsIds DEF JournalInv, MemoryOK
  <2>2. EntryIds(Recovered) = QueuedIds(Recovered)
    BY DEF EntryIds, QueuedIds
  <2> QED
    BY <2>1, <2>2 DEF Kept
<1> QED
  BY <1>2, <1>3, JournalAlways, PTL

------------------------------------------------------------------------------
(***************************************************************************)
(* Short writes: what is known of one prompt, and which events touch it.   *)
(***************************************************************************)

\* The versions that s holds of a prompt: none or one when its ids are apart.
Vers(s, id) == {s[k].ver : k \in {j \in DOMAIN s : s[j].id = id}}

\* What an event makes of the versions V of a prompt.
VersAfter(ev, V, id) ==
  CASE ev.op = "enqueue" -> IF id = ev.id THEN {ev.ver} ELSE V
    [] ev.op = "dequeue" -> IF id = ev.id THEN {} ELSE V
    [] ev.op = "edit" -> IF id = ev.id THEN {ev.ver : v \in V} ELSE V
    [] ev.op = "reorder" -> V
    [] ev.op = "clear" -> {}

LEMMA VersPicks ==
  ASSUME NEW r, NEW q, NEW K, NEW f, Picks(r, q, K, f), NEW id
  PROVE  Vers(r, id) = {q[k].ver : k \in {j \in K : q[j].id = id}}
BY DEF Picks, Vers

LEMMA VersWithout ==
  ASSUME NEW es \in Seq(Entries), NEW x, NEW id
  PROVE  /\ id = x => Vers(Without(es, x), id) = {}
         /\ id # x => Vers(Without(es, x), id) = Vers(es, id)
<1> DEFINE K == {k \in DOMAIN es : es[k].id # x}
           r == Keep(es, K)
<1>1. K \in SUBSET DOMAIN es
  OBVIOUS
<1>2. /\ id = x => {es[k].ver : k \in {j \in K : es[j].id = id}} = {}
      /\ id # x => {es[k].ver : k \in {j \in K : es[j].id = id}} = Vers(es, id)
  BY DEF Vers
<1> HIDE DEF K
<1>3. PICK f : Picks(r, es, K, f)
  BY <1>1, KeepPicks
<1> HIDE DEF r
<1>4. Vers(r, id) = {es[k].ver : k \in {j \in K : es[j].id = id}}
  BY <1>3, VersPicks
<1> QED
  BY <1>2, <1>4 DEF Without, r, K

LEMMA VersApply ==
  ASSUME NEW es \in Seq(Entries), NEW ev \in Events, NEW id
  PROVE  Vers(ApplyEvent(es, ev), id) = VersAfter(ev, Vers(es, id), id)
<1>1. CASE /\ ev.op = "enqueue" /\ ev.id \in Ids /\ ev.ver \in Nat
           /\ ApplyEvent(es, ev) = Append(Without(es, ev.id),
                                         [id |-> ev.id, ver |-> ev.ver])
  <2> DEFINE w == Without(es, ev.id)
             e == [id |-> ev.id, ver |-> ev.ver]
             n == Len(w)
             a == Append(w, e)
  <2>1. w \in Seq(Entries)
    BY WithoutIds
  <2>2. /\ id = ev.id => Vers(w, id) = {}
        /\ id # ev.id => Vers(w, id) = Vers(es, id)
    BY VersWithout
  <2>3. e \in Entries /\ e.id = ev.id /\ e.ver = ev.ver
    BY <1>1 DEF Entries
  <2> HIDE DEF w, e
  <2>4. /\ DOMAIN a = 1..(n + 1) /\ a[n + 1] = e /\ n \in Nat /\ DOMAIN w = 1..n
        /\ \A i \in 1..n : a[i] = w[i]
    BY <2>1, <2>3, AppendProperties
  <2> HIDE DEF a, n
  <2>5. \A i : i \in 1..(n + 1) <=> i \in 1..n \/ i = n + 1
    BY <2>4
  <2>6. Vers(a, id) = Vers(w, id) \cup (IF id = e.id THEN {e.ver} ELSE {})
    BY <2>4, <2>5 DEF Vers
  <2>7. Vers(a, id) = IF id = ev.id THEN {ev.ver} ELSE Vers(es, id)
    BY <2>2, <2>3, <2>6
  <2>8. VersAfter(ev, Vers(es, id), id) = IF id = ev.id THEN {ev.ver} ELSE Vers(es, id)
    BY <1>1 DEF VersAfter
  <2> QED
    BY <1>1, <2>7, <2>8 DEF a, w, e
<1>2. CASE ev.op = "dequeue" /\ ApplyEvent(es, ev) = Without(es, ev.id)
  <2>1. /\ id = ev.id => Vers(Without(es, ev.id), id) = {}
        /\ id # ev.id => Vers(Without(es, ev.id), id) = Vers(es, id)
    BY VersWithout
  <2> QED
    BY <1>2, <2>1 DEF VersAfter
<1>3. CASE /\ ev.op = "edit" /\ ev.ver \in Nat
           /\ ApplyEvent(es, ev) = Revised(es, ev.id, ev.ver)
  <2> DEFINE r == Revised(es, ev.id, ev.ver)
  <2>1. /\ DOMAIN r = DOMAIN es
        /\ \A k \in DOMAIN es : r[k].id = es[k].id
    BY <1>3, RevisedIds DEF Revised
  <2>2. \A k \in DOMAIN es : r[k].ver = IF es[k].id = ev.id THEN ev.ver ELSE es[k].ver
    <3>1. \A k \in DOMAIN es : es[k] \in Entries
      OBVIOUS
    <3> QED
      BY <3>1 DEF Revised, Entries
  <2> HIDE DEF r
  <2>3. id = ev.id => Vers(r, id) = {ev.ver : v \in Vers(es, id)}
    <3>1. id = ev.id => \A k \in DOMAIN es : r[k].id = id => r[k].ver = ev.ver
      BY <2>1, <2>2
    <3>2. id = ev.id => \A k \in DOMAIN es :
                          (r[k].id = id) <=> (es[k].id = id)
      BY <2>1
    <3>3. Vers(es, id) # {} <=> \E k \in DOMAIN es : es[k].id = id
      BY DEF Vers
    <3>4. id = ev.id => Vers(r, id) \subseteq {ev.ver : v \in Vers(es, id)}
      BY <2>1, <3>1, <3>2, <3>3 DEF Vers
    <3>5. id = ev.id => {ev.ver : v \in Vers(es, id)} \subseteq Vers(r, id)
      BY <2>1, <3>1, <3>2, <3>3 DEF Vers
    <3> QED
      BY <3>4, <3>5
  <2>4. id # ev.id => Vers(r, id) = Vers(es, id)
    <3>1. id # ev.id =>
            \A k \in DOMAIN es : r[k].id = id => es[k].id = id /\ r[k].ver = es[k].ver
      BY <2>1, <2>2
    <3> QED
      BY <2>1, <3>1 DEF Vers
  <2> QED
    BY <1>3, <2>3, <2>4 DEF VersAfter, r
<1>4. CASE /\ ev.op = "reorder" /\ ev.ids \in Seq(Ids)
           /\ ApplyEvent(es, ev) = ApplyReorder(es, ev.ids)
  <2> DEFINE K == DOMAIN es
             r == ApplyReorder(es, ev.ids)
  <2>1. PICK f : Picks(r, es, K, f)
    BY <1>4, ReorderTakes
  <2> HIDE DEF r, K
  <2>2. Vers(r, id) = {es[k].ver : k \in {j \in K : es[j].id = id}}
    BY <2>1, VersPicks
  <2>3. Vers(r, id) = Vers(es, id)
    BY <2>2 DEF Vers, K
  <2> QED
    BY <1>4, <2>3 DEF VersAfter, r
<1>5. CASE ev.op = "clear" /\ ApplyEvent(es, ev) = <<>>
  BY <1>5 DEF Vers, VersAfter
<1> QED
  BY <1>1, <1>2, <1>3, <1>4, <1>5, ApplyIs

\* An event that does not name a prompt leaves it as it is.
LEMMA VersUntouched ==
  ASSUME NEW ev \in Events, NEW id \in Ids, id \notin Touches(ev), NEW V
  PROVE  VersAfter(ev, V, id) = V
<1>1. ev.op \in {"enqueue", "dequeue", "edit", "reorder", "clear"}
  BY DEF Events
<1> QED
  BY <1>1 DEF VersAfter, Touches

\* Of a prompt that no lost event named, recovery knows what the queue holds.
Intact ==
  Told /\ Apt /\ "split" \notin env /\ phase # "down" =>
    \A id \in Ids \ torned : Vers(Listing(queue), id) = Vers(Recovered, id)

LEMMA IntactNext ==
  ASSUME JournalInv, Intact, [Next /\ UNCHANGED env]_<<vars, env>>
  PROVE  Intact'
<1>1. CASE UNCHANGED <<vars, env>>
  <2>1. UNCHANGED <<snap, disk>>
    BY <1>1 DEF vars, disk
  <2>2. Recovered' = Recovered
    BY <2>1, QuietRecovers
  <2> QED
    BY <1>1, <2>2 DEF Intact, Told, Apt, vars, Listing
<1>2. CASE Next /\ UNCHANGED env
  <2> SUFFICES ASSUME Told, Apt, "split" \notin env, phase' # "down",
                      NEW id \in Ids \ torned'
               PROVE  Vers(Listing(queue'), id) = Vers(Recovered', id)
    BY <1>2 DEF Intact, Told, Apt, Listing
  <2>1. CASE UNCHANGED <<queue, torned>> /\ phase # "down" /\ Recovered' = Recovered
    BY <2>1 DEF Intact, Listing
  <2>2. CASE Recovered' = Recovered /\ Listing(queue') = Recovered
    BY <2>2
  <2>3. CASE \E ev \in Events : /\ Listing(queue') = ApplyEvent(Listing(queue), ev)
                                /\ Persist(ev) /\ phase # "down"
    <3>1. PICK ev \in Events : /\ Listing(queue') = ApplyEvent(Listing(queue), ev)
                               /\ Persist(ev) /\ phase # "down"
      BY <2>3
    <3> DEFINE held == Listing(queue)
               kept == Recovered
    <3>2. held \in Seq(Entries) /\ kept \in Seq(Entries)
      BY RecoveredType, ListingType DEF JournalInv, MemoryOK
    <3>3. id \notin torned => Vers(held, id) = Vers(kept, id)
      BY <3>1 DEF Intact
    <3> HIDE DEF held, kept
    <3>4. /\ Vers(ApplyEvent(held, ev), id) = VersAfter(ev, Vers(held, id), id)
          /\ Vers(ApplyEvent(kept, ev), id) = VersAfter(ev, Vers(kept, id), id)
      BY <3>2, VersApply
    <3>5. CASE Recovered' = ApplyEvent(Recovered, ev) /\ torned' = torned
      <4>1. Vers(held, id) = Vers(kept, id)
        BY <3>3, <3>5
      <4>2. Vers(ApplyEvent(held, ev), id) = Vers(ApplyEvent(kept, ev), id)
        BY <3>4, <4>1
      <4> QED
        BY <3>1, <3>5, <4>2 DEF held, kept
    <3>6. CASE Recovered' = Recovered /\ torned' = torned \cup Touches(ev)
      <4>1. id \notin torned /\ id \notin Touches(ev)
        BY <3>6
      <4>2. VersAfter(ev, Vers(held, id), id) = Vers(held, id)
        BY <4>1, VersUntouched
      <4>3. Vers(ApplyEvent(held, ev), id) = Vers(kept, id)
        BY <3>3, <3>4, <4>1, <4>2
      <4> QED
        BY <3>1, <3>6, <4>3 DEF held, kept
    <3>7. "coarse" \notin env
      BY DEF Apt
    <3> QED
      BY <1>2, <3>1, <3>5, <3>6, <3>7, WrittenOrLost
  <2> QED
    BY <1>2, <2>1, <2>2, <2>3, HandlersTell
<1> QED
  BY <1>1, <1>2

\* "Skip corrupted lines": a short write costs the prompts of the events whose
\* lines it spoils, and leaves every other prompt recoverable as it is queued.
THEOREM ShortWriteCostsItsPrompts == Spec => []TornLosesNoOther
<1>1. Init => Intact
  BY RecoversNothing DEF Intact
<1>2. Spec => []Intact
  BY <1>1, JournalAlways, IntactNext, PTL DEF Spec
<1>3. JournalInv /\ Intact => TornLosesNoOther
  <2> SUFFICES ASSUME JournalInv, Intact, Told, Apt, "split" \notin env,
                      phase # "down", NEW id \in asked \ torned
               PROVE  /\ id \in EntryIds(Rows(queue, run)) <=> id \in EntryIds(Recovered)
                      /\ \A i \in DOMAIN Recovered, k \in DOMAIN queue :
                           Recovered[i].id = id /\ queue[k].id = id
                             => Recovered[i].ver = queue[k].ver
    BY DEF TornLosesNoOther
  <2>1. /\ run = None /\ queue \in Seq(Items(Ids)) /\ IdsApart(queue)
        /\ None \notin Ids /\ id \in Ids
    BY JournalAssumption DEF JournalInv, MemoryOK
  <2> DEFINE es == Recovered
             shown == Listing(queue)
  <2>2. Rows(queue, run) = shown
    BY <2>1, RowsAreListing
  <2>3. Vers(shown, id) = Vers(es, id)
    BY <2>1 DEF Intact
  <2>4. /\ DOMAIN shown = DOMAIN queue
        /\ \A k \in DOMAIN queue : shown[k].id = queue[k].id /\ shown[k].ver = queue[k].ver
        /\ IdsApart(shown)
    BY <2>1, ListingType
  <2> HIDE DEF es, shown
  <2>5. id \in EntryIds(shown) <=> id \in EntryIds(es)
    BY <2>3 DEF EntryIds, Vers
  <2>6. ASSUME NEW i \in DOMAIN es, NEW k \in DOMAIN queue,
               es[i].id = id, queue[k].id = id
        PROVE  es[i].ver = queue[k].ver
    <3>1. es[i].ver \in Vers(es, id)
      BY <2>6 DEF Vers
    <3>2. \A j \in DOMAIN shown : shown[j].id = id => j = k
      BY <2>4, <2>6 DEF IdsApart
    <3>3. Vers(shown, id) \subseteq {queue[k].ver}
      BY <2>4, <3>2 DEF Vers
    <3> QED
      BY <2>3, <3>1, <3>3
  <2> QED
    BY <2>2, <2>5, <2>6 DEF es
<1> QED
  BY <1>2, <1>3, JournalAlways, PTL

==============================================================================
