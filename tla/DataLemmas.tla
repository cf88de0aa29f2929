----------------------------- MODULE DataLemmas -----------------------------
(***************************************************************************)
(* What appending to, taking the head off, and removing from the middle of *)
(* a queue does to its elements.  The queues of PCBs and the inboxes are   *)
(* sequences in the models; these facts are all the proofs use of them.    *)
(*                                                                         *)
(* The least element of a set of natural numbers, which the handler of     *)
(* interrupts looks for among lines and devices, and the pager among the   *)
(* entries of a page table; and, from it, what a loop that counts upwards  *)
(* computes.                                                               *)
(***************************************************************************)
EXTENDS Integers, SequencesExt, SequenceTheorems, FiniteSetTheorems, WellFoundedInduction, TLAPS

(* No element is linked twice.                                             *)
Once(q) == \A i, j \in DOMAIN q : q[i] = q[j] => i = j

(* Appending (list_add_tail) adds one element.                             *)
LEMMA AppendRange ==
    ASSUME NEW S, NEW q \in Seq(S), NEW e \in S
    PROVE  /\ Append(q, e) \in Seq(S)
           /\ ToSet(Append(q, e)) = ToSet(q) \cup {e}
<1>1. /\ Append(q, e) \in Seq(S)
      /\ Len(Append(q, e)) = Len(q) + 1
      /\ \A i \in 1..Len(q) : Append(q, e)[i] = q[i]
      /\ Append(q, e)[Len(q) + 1] = e
  BY AppendProperties
<1>2. /\ Len(q) \in Nat
      /\ DOMAIN q = 1..Len(q)
      /\ DOMAIN Append(q, e) = 1..(Len(q) + 1)
  BY <1>1, LenProperties
<1>3. ToSet(Append(q, e)) \subseteq ToSet(q) \cup {e}
  BY <1>1, <1>2 DEF ToSet
<1>4. ToSet(q) \cup {e} \subseteq ToSet(Append(q, e))
  BY <1>1, <1>2 DEF ToSet
<1> QED BY <1>1, <1>3, <1>4

(* An element that is not linked can be appended.                          *)
LEMMA AppendOnce ==
    ASSUME NEW S, NEW q \in Seq(S), NEW e \in S, Once(q), e \notin ToSet(q)
    PROVE  Once(Append(q, e))
<1>1. /\ Append(q, e) \in Seq(S)
      /\ Len(Append(q, e)) = Len(q) + 1
      /\ \A i \in 1..Len(q) : Append(q, e)[i] = q[i]
      /\ Append(q, e)[Len(q) + 1] = e
  BY AppendProperties
<1>2. /\ Len(q) \in Nat
      /\ DOMAIN q = 1..Len(q)
      /\ DOMAIN Append(q, e) = 1..(Len(q) + 1)
  BY <1>1, LenProperties
<1>3. \A i \in 1..Len(q) : q[i] # e
  BY <1>2 DEF ToSet
<1> QED BY <1>1, <1>2, <1>3 DEF Once

(* Taking the head (removeProcQ) takes one element.                        *)
LEMMA TailRange ==
    ASSUME NEW S, NEW q \in Seq(S), q # <<>>, Once(q)
    PROVE  /\ Head(q) \in S /\ Tail(q) \in Seq(S)
           /\ Head(q) \in ToSet(q)
           /\ ToSet(Tail(q)) = ToSet(q) \ {Head(q)}
           /\ Once(Tail(q))
<1>1. /\ Head(q) \in S /\ Tail(q) \in Seq(S) /\ Len(Tail(q)) = Len(q) - 1
      /\ \A i \in 1..Len(Tail(q)) : Tail(q)[i] = q[i + 1]
  BY HeadTailProperties
<1>2. /\ Len(q) \in Nat \ {0} /\ DOMAIN q = 1..Len(q)
      /\ DOMAIN Tail(q) = 1..(Len(q) - 1)
  BY <1>1, LenProperties, EmptySeq
<1>3. Head(q) = q[1] /\ 1 \in DOMAIN q
  BY <1>2
<1>4. Once(Tail(q))
  BY <1>1, <1>2 DEF Once
<1>5. ToSet(Tail(q)) \subseteq ToSet(q) \ {Head(q)}
  BY <1>1, <1>2, <1>3 DEF ToSet, Once
<1>6. ASSUME NEW x \in ToSet(q), x # Head(q)
      PROVE  x \in ToSet(Tail(q))
  <2>1. PICK i \in 1..Len(q) : x = q[i] /\ i # 1
    BY <1>2, <1>3, <1>6 DEF ToSet
  <2>2. i - 1 \in DOMAIN Tail(q) /\ Tail(q)[i - 1] = x
    <3>1. i - 1 \in 1..(Len(q) - 1) /\ (i - 1) + 1 = i
      BY <1>2, <2>1
    <3>2. Tail(q)[i - 1] = q[(i - 1) + 1]
      BY <1>1, <1>2, <3>1
    <3> QED BY <1>2, <2>1, <3>1, <3>2
  <2> QED BY <2>2 DEF ToSet
<1>7. Head(q) \in ToSet(q)
  BY <1>3 DEF ToSet
<1> QED BY <1>1, <1>4, <1>5, <1>6, <1>7

(* Removing from the middle leaves a sequence of such elements.            *)
LEMMA RemoveAtType ==
    ASSUME NEW S, NEW q \in Seq(S), NEW i \in DOMAIN q
    PROVE  RemoveAt(q, i) \in Seq(S)
<1>1. Len(q) \in Nat /\ DOMAIN q = 1..Len(q) /\ \A j \in 1..Len(q) : q[j] \in S
  BY LenProperties, ElementOfSeq
<1>2. SubSeq(q, 1, i - 1) \in Seq(S)
  BY <1>1, SubSeqProperties
<1>3. SubSeq(q, i + 1, Len(q)) \in Seq(S)
  BY <1>1, SubSeqProperties
<1> QED BY <1>2, <1>3, ConcatProperties DEF RemoveAt

(* Removing from the middle (list_del): the elements behind move up.       *)
Skip(i, j) == IF j < i THEN j ELSE j + 1

LEMMA RemoveAtElements ==
    ASSUME NEW S, NEW q \in Seq(S), NEW i \in DOMAIN q
    PROVE  /\ DOMAIN RemoveAt(q, i) = 1..(Len(q) - 1)
           /\ \A j \in DOMAIN RemoveAt(q, i) :
                 Skip(i, j) \in DOMAIN q \ {i} /\ RemoveAt(q, i)[j] = q[Skip(i, j)]
           /\ \A j, k \in DOMAIN RemoveAt(q, i) : Skip(i, j) = Skip(i, k) => j = k
<1> DEFINE r == RemoveAt(q, i)
           n == Len(q)
           a == SubSeq(q, 1, i - 1)
           b == SubSeq(q, i + 1, n)
<1>1. n \in Nat /\ DOMAIN q = 1..n /\ i \in 1..n
  BY LenProperties
<1>2. a \in Seq(S) /\ Len(a) = i - 1 /\ \A j \in 1..(i - 1) : a[j] = q[j]
  BY <1>1, SubSeqProperties
<1>3. b \in Seq(S) /\ Len(b) = n - i /\ \A j \in 1..(n - i) : b[j] = q[i + j]
  BY <1>1, SubSeqProperties
<1>4. r = a \o b
  BY DEF RemoveAt
<1> HIDE DEF r, n, a, b
<1>5. /\ r \in Seq(S) /\ Len(r) = n - 1
      /\ \A j \in 1..(n - 1) : r[j] = IF j <= i - 1 THEN a[j] ELSE b[j - (i - 1)]
  <2>1. /\ a \o b \in Seq(S) /\ Len(a \o b) = Len(a) + Len(b)
        /\ \A j \in 1..(Len(a) + Len(b)) :
              (a \o b)[j] = IF j <= Len(a) THEN a[j] ELSE b[j - Len(a)]
    BY <1>2, <1>3, ConcatProperties
  <2>2. Len(a) + Len(b) = n - 1
    BY <1>1, <1>2, <1>3
  <2> QED BY <1>2, <1>4, <2>1, <2>2
<1>6. DOMAIN r = 1..(n - 1)
  BY <1>5, LenProperties
<1>7. ASSUME NEW j \in 1..(n - 1)
      PROVE  Skip(i, j) \in DOMAIN q \ {i} /\ r[j] = q[Skip(i, j)]
  <2>1. CASE j < i
    BY <1>1, <1>2, <1>5, <1>7, <2>1 DEF Skip
  <2>2. CASE ~ (j < i)
    <3>1. j - (i - 1) \in 1..(n - i) /\ i + (j - (i - 1)) = j + 1 /\ ~ (j <= i - 1)
      BY <1>1, <1>7, <2>2
    <3>2. r[j] = b[j - (i - 1)] /\ b[j - (i - 1)] = q[j + 1]
      BY <1>3, <1>5, <3>1
    <3>3. j + 1 \in 1..n /\ j + 1 # i
      BY <1>1, <1>7, <2>2
    <3> QED BY <1>1, <2>2, <3>2, <3>3 DEF Skip
  <2> QED BY <2>1, <2>2
<1>8. \A j, k \in 1..(n - 1) : Skip(i, j) = Skip(i, k) => j = k
  BY <1>1 DEF Skip
<1> QED BY <1>6, <1>7, <1>8 DEF r, n

LEMMA RemoveAtLength ==
    ASSUME NEW S, NEW q \in Seq(S), NEW i \in DOMAIN q
    PROVE  Len(RemoveAt(q, i)) = Len(q) - 1
<1>1. PICK n, k : n = Len(RemoveAt(q, i)) /\ k = Len(q)
  OBVIOUS
<1>2. n \in Nat /\ k \in Nat /\ 1..n = 1..(k - 1)
  <2>1. RemoveAt(q, i) \in Seq(S)
    BY RemoveAtType
  <2>2. DOMAIN RemoveAt(q, i) = 1..(Len(q) - 1)
    BY RemoveAtElements
  <2>3. Len(q) \in Nat
    BY LenProperties
  <2>4. /\ Len(RemoveAt(q, i)) \in Nat
        /\ DOMAIN RemoveAt(q, i) = 1..Len(RemoveAt(q, i))
    BY <2>1, LenProperties
  <2> QED BY <1>1, <2>2, <2>3, <2>4
<1>3. i \in 1..k
  BY <1>1, LenProperties
<1>4. n = k - 1
  BY <1>2, <1>3
<1> QED BY <1>1, <1>4

(* It takes one element.                                                   *)
LEMMA RemoveAtRange ==
    ASSUME NEW S, NEW q \in Seq(S), NEW i \in DOMAIN q, Once(q)
    PROVE  /\ ToSet(RemoveAt(q, i)) = ToSet(q) \ {q[i]}
           /\ Once(RemoveAt(q, i))
<1> DEFINE r == RemoveAt(q, i)
           n == Len(q)
<1>1. n \in Nat /\ DOMAIN q = 1..n /\ i \in 1..n
  BY LenProperties
<1>2. /\ DOMAIN r = 1..(n - 1)
      /\ \A j \in DOMAIN r : Skip(i, j) \in DOMAIN q \ {i} /\ r[j] = q[Skip(i, j)]
      /\ \A j, k \in DOMAIN r : Skip(i, j) = Skip(i, k) => j = k
  BY RemoveAtElements
<1> HIDE DEF r, n
<1>3. ASSUME NEW j \in DOMAIN r, NEW k \in DOMAIN r, r[j] = r[k]  PROVE j = k
  BY <1>2, <1>3 DEF Once
<1>4. ASSUME NEW j \in DOMAIN r  PROVE r[j] \in ToSet(q) /\ r[j] # q[i]
  BY <1>2 DEF Once, ToSet
<1>5. ASSUME NEW k \in DOMAIN q, k # i  PROVE q[k] \in ToSet(r)
  <2>1. CASE k < i
    <3>1. k \in DOMAIN r /\ Skip(i, k) = k
      BY <1>1, <1>2, <2>1 DEF Skip
    <3> QED BY <1>2, <3>1 DEF ToSet
  <2>2. CASE k > i
    <3>1. k - 1 \in DOMAIN r /\ Skip(i, k - 1) = k
      BY <1>1, <1>2, <2>2 DEF Skip
    <3> QED BY <1>2, <3>1 DEF ToSet
  <2> QED BY <1>1, <1>5, <2>1, <2>2
<1>6. ToSet(r) = ToSet(q) \ {q[i]}
  BY <1>4, <1>5 DEF ToSet
<1> QED BY <1>3, <1>6 DEF Once, r

(* The same of the ends of a queue, element by element.                    *)
LEMMA AppendElements ==
    ASSUME NEW S, NEW q \in Seq(S), NEW e \in S
    PROVE  /\ Append(q, e) \in Seq(S) /\ Len(q) \in Nat /\ DOMAIN q = 1..Len(q)
           /\ DOMAIN Append(q, e) = 1..(Len(q) + 1)
           /\ \A j \in DOMAIN q : Append(q, e)[j] = q[j]
           /\ Append(q, e)[Len(q) + 1] = e
<1>1. /\ Append(q, e) \in Seq(S)
      /\ Len(Append(q, e)) = Len(q) + 1
      /\ \A i \in 1..Len(q) : Append(q, e)[i] = q[i]
      /\ Append(q, e)[Len(q) + 1] = e
  BY AppendProperties
<1> QED BY <1>1, LenProperties

LEMMA TailElements ==
    ASSUME NEW S, NEW q \in Seq(S), q # <<>>
    PROVE  /\ Tail(q) \in Seq(S) /\ Len(q) \in Nat /\ DOMAIN q = 1..Len(q)
           /\ 1 \in DOMAIN q /\ Head(q) = q[1]
           /\ DOMAIN Tail(q) = 1..(Len(q) - 1)
           /\ \A j \in DOMAIN Tail(q) : Tail(q)[j] = q[j + 1]
<1>1. /\ Tail(q) \in Seq(S) /\ Len(Tail(q)) = Len(q) - 1
      /\ \A i \in 1..Len(Tail(q)) : Tail(q)[i] = q[i + 1]
  BY HeadTailProperties
<1>2. Len(q) \in Nat \ {0} /\ DOMAIN q = 1..Len(q) /\ DOMAIN Tail(q) = 1..(Len(q) - 1)
  BY <1>1, LenProperties, EmptySeq
<1> QED BY <1>1, <1>2

(* Appending to a queue that is not empty leaves its head alone.           *)
LEMMA HeadTailOfAppend ==
    ASSUME NEW S, NEW a \in Seq(S), a # <<>>, NEW x \in S
    PROVE  /\ Append(a, x) # <<>> /\ Head(Append(a, x)) = Head(a)
           /\ Tail(Append(a, x)) = Append(Tail(a), x)
<1>1. PICK b, u, v : b = Append(a, x) /\ u = Tail(b) /\ v = Append(Tail(a), x)
  OBVIOUS
<1>2. /\ Len(a) \in Nat /\ 1 \in DOMAIN a /\ DOMAIN a = 1..Len(a) /\ Head(a) = a[1]
      /\ Tail(a) \in Seq(S) /\ DOMAIN Tail(a) = 1..(Len(a) - 1)
      /\ \A j \in DOMAIN Tail(a) : Tail(a)[j] = a[j + 1]
  BY TailElements
<1>3. /\ b \in Seq(S) /\ DOMAIN b = 1..(Len(a) + 1)
      /\ \A j \in DOMAIN a : b[j] = a[j]
      /\ b[Len(a) + 1] = x
  BY <1>1, AppendElements
<1>4. b # <<>>
  BY <1>2, <1>3, EmptySeq, LenProperties
<1>5. /\ u \in Seq(S) /\ Len(b) \in Nat /\ DOMAIN b = 1..Len(b) /\ Head(b) = b[1]
      /\ DOMAIN u = 1..(Len(b) - 1)
      /\ \A j \in DOMAIN u : u[j] = b[j + 1]
  BY <1>1, <1>3, <1>4, TailElements
<1>6. Len(Tail(a)) = Len(a) - 1 /\ Len(b) = Len(a) + 1
  <2>1. Len(Tail(a)) \in Nat /\ DOMAIN Tail(a) = 1..Len(Tail(a))
    BY <1>2, LenProperties
  <2> QED BY <1>2, <1>3, <1>5, <2>1
<1>7. /\ v \in Seq(S) /\ DOMAIN v = 1..Len(a)
      /\ \A j \in 1..(Len(a) - 1) : v[j] = Tail(a)[j]
      /\ v[Len(a)] = x
  <2>1. PICK t : t = Tail(a)
    OBVIOUS
  <2>2. /\ v \in Seq(S) /\ DOMAIN t = 1..Len(t) /\ DOMAIN v = 1..(Len(t) + 1)
        /\ \A j \in DOMAIN t : v[j] = t[j]
        /\ v[Len(t) + 1] = x
    BY <1>1, <1>2, <2>1, AppendElements
  <2> QED BY <1>2, <1>6, <2>1, <2>2
<1>8. u = v
  <2>1. DOMAIN u = 1..Len(a)
    BY <1>2, <1>5, <1>6
  <2>2. ASSUME NEW j \in 1..Len(a)  PROVE u[j] = v[j]
    BY <1>2, <1>3, <1>5, <1>7, <2>1
  <2>3. Len(u) = Len(a) /\ Len(v) = Len(a)
    <3>1. Len(u) \in Nat /\ DOMAIN u = 1..Len(u) /\ Len(v) \in Nat /\ DOMAIN v = 1..Len(v)
      BY <1>5, <1>7, LenProperties
    <3> QED BY <1>2, <1>7, <2>1, <3>1
  <2>4. \A j \in 1..Len(u) : u[j] = v[j]
    BY <2>2, <2>3
  <2> QED BY <1>5, <1>7, <2>3, <2>4, SeqEqual
<1> QED BY <1>1, <1>2, <1>3, <1>4, <1>5, <1>8

(* The elements of a kind in a queue; that there is at most one; and that  *)
(* those of one kind are in front of those of another.                     *)
Among(q, M) == {e \in ToSet(q) : e \in M}
AtMostOne(q, M) == \A i, j \in DOMAIN q : q[i] \in M /\ q[j] \in M => i = j
Before(q, M, N) == \A i, j \in DOMAIN q : q[i] \in M /\ q[j] \in N => i < j

LEMMA AmongAppend ==
    ASSUME NEW S, NEW q \in Seq(S), NEW e \in S, NEW M
    PROVE  /\ e \in M => Among(Append(q, e), M) = Among(q, M) \cup {e}
           /\ e \notin M => Among(Append(q, e), M) = Among(q, M)
           /\ AtMostOne(q, M) /\ (e \in M => Among(q, M) = {}) => AtMostOne(Append(q, e), M)
           /\ \A N : M \cap N = {} /\ Before(q, M, N) /\ (e \in M => Among(q, N) = {}) =>
                 Before(Append(q, e), M, N)
<1>1. PICK r : r = Append(q, e)
  OBVIOUS
<1>2. /\ Len(q) \in Nat /\ DOMAIN q = 1..Len(q) /\ DOMAIN r = 1..(Len(q) + 1)
      /\ \A j \in DOMAIN q : r[j] = q[j]
      /\ r[Len(q) + 1] = e
  BY <1>1, AppendElements
<1>3. ToSet(r) = ToSet(q) \cup {e}
  BY <1>1, AppendRange
<1>4. \A i \in DOMAIN r : i \notin DOMAIN q => i = Len(q) + 1 /\ \A j \in DOMAIN q : j < i
  BY <1>2
<1>5. \A K : Among(q, K) = {} <=> \A j \in DOMAIN q : q[j] \notin K
  BY DEF Among, ToSet
<1>6. ASSUME AtMostOne(q, M), e \in M => Among(q, M) = {}
      PROVE  AtMostOne(r, M)
  <2>1. ASSUME NEW i \in DOMAIN r, NEW j \in DOMAIN r, r[i] \in M, r[j] \in M  PROVE i = j
    <3>1. CASE i \in DOMAIN q /\ j \in DOMAIN q
      BY <1>2, <1>6, <2>1, <3>1 DEF AtMostOne
    <3>2. CASE i \notin DOMAIN q \/ j \notin DOMAIN q
      BY <1>2, <1>4, <1>5, <1>6, <2>1, <3>2
    <3> QED BY <3>1, <3>2
  <2> QED BY <2>1 DEF AtMostOne
<1>7. ASSUME NEW N, M \cap N = {}, Before(q, M, N), e \in M => Among(q, N) = {}
      PROVE  Before(r, M, N)
  <2>1. ASSUME NEW i \in DOMAIN r, NEW j \in DOMAIN r, r[i] \in M, r[j] \in N  PROVE i < j
    <3>1. CASE i \in DOMAIN q /\ j \in DOMAIN q
      BY <1>2, <1>7, <2>1, <3>1 DEF Before
    <3>2. CASE i \in DOMAIN q /\ j \notin DOMAIN q
      BY <1>4, <3>2
    <3>3. CASE i \notin DOMAIN q
      BY <1>2, <1>4, <1>5, <1>7, <2>1, <3>3
    <3> QED BY <3>1, <3>2, <3>3
  <2> QED BY <2>1 DEF Before
<1>8. /\ e \in M => Among(r, M) = Among(q, M) \cup {e}
      /\ e \notin M => Among(r, M) = Among(q, M)
  BY <1>3 DEF Among
<1> QED BY <1>1, <1>6, <1>7, <1>8

LEMMA AmongRemoved ==
    ASSUME NEW S, NEW q \in Seq(S), NEW i \in DOMAIN q, NEW M, AtMostOne(q, M)
    PROVE  /\ AtMostOne(RemoveAt(q, i), M)
           /\ q[i] \in M => Among(RemoveAt(q, i), M) = {}
           /\ q[i] \notin M => Among(RemoveAt(q, i), M) = Among(q, M)
<1>1. PICK r : r = RemoveAt(q, i)
  OBVIOUS
<1>2. /\ Len(q) \in Nat /\ DOMAIN q = 1..Len(q) /\ DOMAIN r = 1..(Len(q) - 1)
      /\ \A j \in DOMAIN r : Skip(i, j) \in DOMAIN q \ {i} /\ r[j] = q[Skip(i, j)]
      /\ \A j, k \in DOMAIN r : Skip(i, j) = Skip(i, k) => j = k
  BY <1>1, RemoveAtElements, LenProperties
<1>3. AtMostOne(r, M)
  BY <1>2 DEF AtMostOne
<1>4. ASSUME q[i] \in M  PROVE Among(r, M) = {}
  BY <1>2, <1>4 DEF Among, AtMostOne, ToSet
<1>5. ASSUME q[i] \notin M  PROVE Among(r, M) = Among(q, M)
  <2>1. Among(r, M) \subseteq Among(q, M)
    BY <1>2 DEF Among, ToSet
  <2>2. ASSUME NEW e \in Among(q, M)  PROVE e \in Among(r, M)
    <3>1. PICK k \in DOMAIN q : q[k] = e
      BY <2>2 DEF Among, ToSet
    <3>2. k # i
      BY <1>5, <2>2, <3>1 DEF Among
    <3>3. \E j \in DOMAIN r : Skip(i, j) = k
      <4>1. CASE k < i
        <5>1. k \in DOMAIN r /\ Skip(i, k) = k
          BY <1>2, <4>1 DEF Skip
        <5> QED BY <5>1
      <4>2. CASE k > i
        <5>1. k - 1 \in DOMAIN r /\ Skip(i, k - 1) = k
          BY <1>2, <4>2 DEF Skip
        <5> QED BY <5>1
      <4> QED BY <1>2, <3>2, <4>1, <4>2
    <3> QED BY <1>2, <2>2, <3>1, <3>3 DEF Among, ToSet
  <2> QED BY <2>1, <2>2
<1> QED BY <1>1, <1>3, <1>4, <1>5

LEMMA AmongPassed ==
    ASSUME NEW S, NEW q \in Seq(S), q # <<>>, NEW M, NEW N, AtMostOne(q, M), Before(q, N, M)
    PROVE  /\ AtMostOne(Tail(q), M) /\ Before(Tail(q), N, M)
           /\ Head(q) \in M => Among(Tail(q), M) = {} /\ Among(q, N) = {}
           /\ Head(q) \notin M => Among(Tail(q), M) = Among(q, M)
<1>1. PICK r : r = Tail(q)
  OBVIOUS
<1>2. /\ Len(q) \in Nat /\ DOMAIN q = 1..Len(q) /\ DOMAIN r = 1..(Len(q) - 1)
      /\ 1 \in DOMAIN q /\ Head(q) = q[1]
      /\ \A j \in DOMAIN r : r[j] = q[j + 1]
  BY <1>1, TailElements
<1>3. \A j \in DOMAIN r : j + 1 \in DOMAIN q /\ j + 1 # 1
  BY <1>2
<1>4. AtMostOne(r, M)
  BY <1>2, <1>3 DEF AtMostOne
<1>5. Before(r, N, M)
  <2>1. ASSUME NEW i \in DOMAIN r, NEW j \in DOMAIN r, r[i] \in N, r[j] \in M  PROVE i < j
    <3>1. i + 1 < j + 1
      BY <1>2, <1>3, <2>1 DEF Before
    <3> QED BY <1>2, <3>1
  <2> QED BY <2>1 DEF Before
<1>6. ASSUME Head(q) \in M  PROVE Among(r, M) = {} /\ Among(q, N) = {}
  <2>1. \A j \in DOMAIN r : r[j] \notin M
    BY <1>2, <1>3, <1>6 DEF AtMostOne
  <2>2. ASSUME NEW j \in DOMAIN q, q[j] \in N  PROVE FALSE
    <3>1. j < 1
      BY <1>2, <1>6, <2>2 DEF Before
    <3> QED BY <1>2, <3>1
  <2> QED BY <2>1, <2>2 DEF Among, ToSet
<1>7. ASSUME Head(q) \notin M  PROVE Among(r, M) = Among(q, M)
  <2>1. Among(r, M) \subseteq Among(q, M)
    BY <1>2, <1>3 DEF Among, ToSet
  <2>2. ASSUME NEW e \in Among(q, M)  PROVE e \in Among(r, M)
    <3>1. PICK k \in DOMAIN q : q[k] = e
      BY <2>2 DEF Among, ToSet
    <3>2. k # 1
      BY <1>2, <1>7, <2>2, <3>1 DEF Among
    <3>3. k - 1 \in DOMAIN r /\ r[k - 1] = e
      <4>1. k - 1 \in DOMAIN r /\ (k - 1) + 1 = k
        BY <1>2, <3>2
      <4> QED BY <1>2, <3>1, <4>1
    <3> QED BY <2>2, <3>3 DEF Among, ToSet
  <2> QED BY <2>1, <2>2
<1> QED BY <1>1, <1>4, <1>5, <1>6, <1>7
-----------------------------------------------------------------------------
(* The numbers of n things.                                                *)
LEMMA CountTo ==
    ASSUME NEW n \in Nat
    PROVE  IsFiniteSet(1..n) /\ Cardinality(1..n) = n
<1>1. /\ IsFiniteSet(1..n)
      /\ Cardinality(1..n) = IF 1 > n THEN 0 ELSE n - 1 + 1
  <2>1. 1 \in Int /\ n \in Int
    OBVIOUS
  <2> QED BY <2>1, FS_Interval
<1> QED BY <1>1

(* Intervals from 0 stand for the numbers: they are finite sets, which     *)
(* strict inclusion orders well.                                           *)
LEMMA LeastNumber ==
    ASSUME NEW S \in SUBSET Nat, S # {}
    PROVE  \E x \in S : \A y \in S : x <= y
<1> DEFINE R == StrictSubsetOrdering(Nat)
           T == {0..n : n \in S}
<1>1. IsWellFoundedOn(R, FiniteSubsetsOf(Nat))
  BY FS_StrictSubsetOrderingWellFounded
<1>2. T \subseteq FiniteSubsetsOf(Nat)
  <2>1. ASSUME NEW n \in S  PROVE IsFiniteSet(0..n) /\ 0..n \in SUBSET Nat
    BY FS_Interval
  <2> QED BY <2>1 DEF FiniteSubsetsOf
<1>3. T # {}
  OBVIOUS
<1> HIDE DEF R
<1>4. \E X \in T : \A Y \in T : <<Y, X>> \notin R
  BY <1>1, <1>2, <1>3, WFMin
<1>5. PICK x \in S : \A Y \in T : <<Y, 0..x>> \notin R
  BY <1>4
<1>6. ASSUME NEW y \in S, y < x  PROVE FALSE
  <2>1. 0..y \subseteq 0..x /\ 0..y # 0..x /\ 0..y \in SUBSET Nat /\ 0..x \in SUBSET Nat
    <3>1. x \in 0..x /\ x \notin 0..y
      BY <1>6
    <3> QED BY <1>6, <3>1
  <2>2. <<0..y, 0..x>> \in R
    BY <2>1 DEF R, StrictSubsetOrdering
  <2> QED BY <1>5, <2>2
<1>7. \A y \in S : x <= y
  BY <1>6
<1> QED BY <1>7

(* Induction over the passes of a loop: what holds before the first pass   *)
(* and is kept by each holds after all of them.                            *)
LEMMA Upwards ==
    ASSUME NEW N \in Nat, NEW P, 0 \in P, \A i \in 1..N : i - 1 \in P => i \in P
    PROVE  0..N \subseteq P
<1> SUFFICES ASSUME (0..N) \ P # {} PROVE FALSE
  OBVIOUS
<1>1. PICK x \in (0..N) \ P : \A y \in (0..N) \ P : x <= y
  <2>1. (0..N) \ P \in SUBSET Nat
    OBVIOUS
  <2> QED BY <2>1, LeastNumber
<1>2. x \in 1..N
  BY <1>1
<1>3. x - 1 \in P
  <2>1. x - 1 \in 0..N /\ ~ (x <= x - 1)
    BY <1>2
  <2> QED BY <1>1, <2>1
<1> QED BY <1>1, <1>2, <1>3

(* The results of a loop, pass by pass; and it has some: a recursive       *)
(* function over its passes exists.                                        *)
Passes(N, S, base, step) ==
    {g \in [0..N -> S] : g[0] = base /\ \A i \in 1..N : g[i] = step[<<i, g[i - 1]>>]}

LEMMA Repeated ==
    ASSUME NEW N \in Nat, NEW S, NEW base \in S, NEW step \in [(1..N) \X S -> S]
    PROVE  Passes(N, S, base, step) # {}
<1> DEFINE Runs(n, g) == g[0] = base /\ \A i \in 1..n : g[i] = step[<<i, g[i - 1]>>]
           P == {n \in 0..N : \E g \in [0..n -> S] : Runs(n, g)}
<1>1. 0 \in P
  <2>1. PICK g : g = [i \in 0..0 |-> base]
    OBVIOUS
  <2>2. g \in [0..0 -> S] /\ g[0] = base
    BY <2>1
  <2>3. 0 \in 0..N /\ 1..0 = {}
    OBVIOUS
  <2> QED BY <2>2, <2>3
<1>2. ASSUME NEW n \in 1..N, n - 1 \in P  PROVE n \in P
  <2>1. PICK g \in [0..(n - 1) -> S] : Runs(n - 1, g)
    BY <1>2
  <2> DEFINE h == [i \in 0..n |-> IF i = n THEN step[<<n, g[n - 1]>>] ELSE g[i]]
  <2>2. n - 1 \in 0..(n - 1) /\ g[n - 1] \in S /\ <<n, g[n - 1]>> \in (1..N) \X S
    OBVIOUS
  <2>3. step[<<n, g[n - 1]>>] \in S
    BY <2>2
  <2>4. h \in [0..n -> S]
    <3>1. \A i \in 0..n : i # n => i \in 0..(n - 1)
      OBVIOUS
    <3> QED BY <2>3, <3>1
  <2>5. h[0] = base
    BY <2>1
  <2>6. \A i \in 1..n : h[i] = step[<<i, h[i - 1]>>]
    <3>1. ASSUME NEW i \in 1..n  PROVE h[i] = step[<<i, h[i - 1]>>]
      <4>1. h[i - 1] = g[i - 1]
        OBVIOUS
      <4>2. CASE i = n
        <5>1. h[n] = step[<<n, g[n - 1]>>]
          OBVIOUS
        <5> QED BY <4>1, <4>2, <5>1
      <4>3. CASE i # n
        <5>1. i \in 1..(n - 1) /\ h[i] = g[i]
          BY <4>3
        <5> QED BY <2>1, <4>1, <5>1
      <4> QED BY <4>2, <4>3
    <3> QED BY <3>1
  <2> HIDE DEF h
  <2> QED BY <2>4, <2>5, <2>6
<1>3. 0..N \subseteq P
  <2> HIDE DEF P
  <2> QED BY <1>1, <1>2, Upwards
<1>4. N \in P
  <2> HIDE DEF P
  <2> QED BY <1>3
<1> QED BY <1>4 DEF Passes
=============================================================================
