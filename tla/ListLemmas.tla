----------------------------- MODULE ListLemmas ------------------------------
(***************************************************************************)
(* What RemoveFirst, which models RemoveEntryList on a node that may or    *)
(* may not be linked, InsertAt, which models InsertTailList before a node, *)
(* and Without, which models a walk that unlinks, do to a linked list, to  *)
(* the set of what is linked into it, and to what lies behind an element.  *)
(***************************************************************************)
EXTENDS Lists, SequencesExt, SequenceTheorems, WellFoundedInduction, TLAPS

(* No element occurs twice: a LIST_ENTRY is linked into a list once.       *)
Distinct(s) == \A i, j \in 1 .. Len(s) : s[i] = s[j] => i = j

(* Every nonempty set of natural numbers has a least element.              *)
LEMMA Minimum ==
    ASSUME NEW S, S \subseteq Nat, S # {}
    PROVE  /\ Min(S) \in S
           /\ \A y \in S : Min(S) <= y
<1> DEFINE R == { p \in Nat \X Nat : p[1] < p[2] }
<1>1. IsWellFoundedOn(R, Nat)
  <2>1. OpToRel(<, Nat) = R
    BY DEF OpToRel
  <2> QED
    BY <2>1, NatLessThanWellFounded
<1>2. PICK x \in S : \A y \in S : <<y, x>> \notin R
  <2> HIDE DEF R
  <2> QED
    BY <1>1, WFMin
<1>3. ASSUME NEW y \in S
      PROVE  x <= y
  <2>1. x \in Nat /\ y \in Nat
    OBVIOUS
  <2>2. <<y, x>> \notin R
    BY <1>2
  <2> QED
    BY <2>1, <2>2
<1> QED
  BY <1>3 DEF Min

(* The first position of an element is found by RemoveFirst.               *)
LEMMA FirstPosition ==
    ASSUME NEW S, NEW s \in Seq(S), NEW e, \E i \in 1 .. Len(s) : s[i] = e
    PROVE  \E k \in 1 .. Len(s) : s[k] = e /\ RemoveFirst(s, e) = RemoveAt(s, k)
<1> DEFINE I == { i \in 1 .. Len(s) : s[i] = e }
<1>1. I # {} /\ I \subseteq Nat
  BY LenProperties
<1>2. Min(I) \in I
  BY <1>1, Minimum
<1>3. RemoveFirst(s, e) = RemoveAt(s, Min(I))
  BY <1>1 DEF RemoveFirst, SelectInSeq
<1> QED
  BY <1>2, <1>3

(* Removing one position shifts what follows it.                           *)
LEMMA RemoveAtProperties ==
    ASSUME NEW S, NEW s \in Seq(S), NEW k \in 1 .. Len(s)
    PROVE  /\ RemoveAt(s, k) \in Seq(S)
           /\ Len(RemoveAt(s, k)) = Len(s) - 1
           /\ \A i \in 1 .. Len(s) - 1 :
                 RemoveAt(s, k)[i] = IF i < k THEN s[i] ELSE s[i + 1]
<1> DEFINE l == SubSeq(s, 1, k - 1)
           r == SubSeq(s, k + 1, Len(s))
<1>1. Len(s) \in Nat /\ \A i \in 1 .. Len(s) : s[i] \in S
  BY LenProperties
<1>2. /\ l \in Seq(S) /\ Len(l) = k - 1
      /\ \A i \in 1 .. k - 1 : l[i] = s[i]
  BY <1>1
<1>3. /\ r \in Seq(S) /\ Len(r) = Len(s) - k
      /\ \A i \in 1 .. Len(s) - k : r[i] = s[i + k]
  BY <1>1
<1>4. /\ l \o r \in Seq(S) /\ Len(l \o r) = Len(s) - 1
      /\ \A i \in 1 .. Len(s) - 1 : (l \o r)[i] = IF i <= k - 1 THEN l[i] ELSE r[i - (k - 1)]
  <2> HIDE DEF l, r
  <2> QED
    BY <1>1, <1>2, <1>3, ConcatProperties
<1>5. RemoveAt(s, k) = l \o r
  BY DEF RemoveAt
<1> HIDE DEF l, r
<1>6. ASSUME NEW i \in 1 .. Len(s) - 1
      PROVE  RemoveAt(s, k)[i] = IF i < k THEN s[i] ELSE s[i + 1]
  <2>1. CASE i < k
    BY <1>1, <1>2, <1>4, <1>5, <2>1
  <2>2. CASE i >= k
    <3>1. i - (k - 1) \in 1 .. Len(s) - k /\ (i - (k - 1)) + k = i + 1
      BY <1>1, <2>2
    <3> QED
      BY <1>1, <1>3, <1>4, <1>5, <2>2, <3>1
  <2> QED
    BY <1>1, <2>1, <2>2
<1> QED
  BY <1>4, <1>5, <1>6

(* RemoveEntryList keeps the other elements, in their order, and an        *)
(* element that was linked once is gone.                                   *)
LEMMA RemoveFirstProperties ==
    ASSUME NEW S, NEW s \in Seq(S), NEW e
    PROVE  /\ RemoveFirst(s, e) \in Seq(S)
           /\ \A i \in 1 .. Len(RemoveFirst(s, e)) :
                 \E j \in 1 .. Len(s) : RemoveFirst(s, e)[i] = s[j]
           /\ Distinct(s) =>
                 /\ Distinct(RemoveFirst(s, e))
                 /\ \A i \in 1 .. Len(RemoveFirst(s, e)) : RemoveFirst(s, e)[i] # e
<1>1. CASE ~ \E i \in 1 .. Len(s) : s[i] = e
  <2>1. RemoveFirst(s, e) = s
    BY <1>1 DEF RemoveFirst
  <2> QED
    BY <1>1, <2>1
<1>2. CASE \E i \in 1 .. Len(s) : s[i] = e
  <2>1. PICK k \in 1 .. Len(s) : s[k] = e /\ RemoveFirst(s, e) = RemoveAt(s, k)
    BY <1>2, FirstPosition
  <2> DEFINE t == RemoveAt(s, k)
  <2>2. /\ t \in Seq(S) /\ Len(t) = Len(s) - 1
        /\ \A i \in 1 .. Len(s) - 1 : t[i] = IF i < k THEN s[i] ELSE s[i + 1]
    BY RemoveAtProperties
  <2>3. Len(s) \in Nat
    BY LenProperties
  <2> HIDE DEF t
  <2>4. \A i \in 1 .. Len(t) : \E j \in 1 .. Len(s) :
           t[i] = s[j] /\ j # k /\ (i < k => j = i) /\ (i >= k => j = i + 1)
    <3> TAKE i \in 1 .. Len(t)
    <3>1. CASE i < k
      <4> WITNESS i \in 1 .. Len(s)
      <4> QED
        BY <2>2, <2>3, <3>1
    <3>2. CASE i >= k
      <4>1. i + 1 \in 1 .. Len(s)
        BY <2>2, <2>3
      <4> QED
        BY <2>2, <2>3, <3>2, <4>1
    <3> QED
      BY <2>2, <2>3, <3>1, <3>2
  <2>5. ASSUME Distinct(s)
        PROVE  Distinct(t) /\ \A i \in 1 .. Len(t) : t[i] # e
    <3>1. ASSUME NEW i \in 1 .. Len(t)
          PROVE  t[i] # e
      BY <2>1, <2>4, <2>5 DEF Distinct
    <3>2. ASSUME NEW i \in 1 .. Len(t), NEW j \in 1 .. Len(t), t[i] = t[j]
          PROVE  i = j
      <4>1. Len(t) \in Nat
        BY <2>2, <2>3
      <4>2. PICK a \in 1 .. Len(s) : /\ t[i] = s[a]
                                      /\ (i < k => a = i) /\ (i >= k => a = i + 1)
        BY <2>4
      <4>3. PICK b \in 1 .. Len(s) : /\ t[j] = s[b]
                                      /\ (j < k => b = j) /\ (j >= k => b = j + 1)
        BY <2>4
      <4>4. a = b
        BY <2>5, <3>2, <4>2, <4>3 DEF Distinct
      <4> QED
        BY <4>1, <4>2, <4>3, <4>4
    <3> QED
      BY <3>1, <3>2 DEF Distinct
  <2> QED
    BY <2>1, <2>2, <2>4, <2>5 DEF t
<1> QED
  BY <1>1, <1>2

(* RemoveEntryList keeps every other element, and the order of those that  *)
(* stay.                                                                   *)
LEMMA RemoveFirstKeeps ==
    ASSUME NEW S, NEW s \in Seq(S), NEW e
    PROVE  /\ \A i \in 1 .. Len(s) : s[i] # e =>
                 \E j \in 1 .. Len(RemoveFirst(s, e)) : RemoveFirst(s, e)[j] = s[i]
           /\ \A i, j \in 1 .. Len(RemoveFirst(s, e)) : i < j =>
                 \E a, b \in 1 .. Len(s) :
                    a < b /\ RemoveFirst(s, e)[i] = s[a] /\ RemoveFirst(s, e)[j] = s[b]
<1>1. CASE ~ \E i \in 1 .. Len(s) : s[i] = e
  <2>1. RemoveFirst(s, e) = s
    BY <1>1 DEF RemoveFirst
  <2> QED
    BY <2>1
<1>2. CASE \E i \in 1 .. Len(s) : s[i] = e
  <2>1. PICK k \in 1 .. Len(s) : s[k] = e /\ RemoveFirst(s, e) = RemoveAt(s, k)
    BY <1>2, FirstPosition
  <2> DEFINE t == RemoveAt(s, k)
  <2>2. /\ Len(t) = Len(s) - 1
        /\ \A i \in 1 .. Len(s) - 1 : t[i] = IF i < k THEN s[i] ELSE s[i + 1]
    BY RemoveAtProperties
  <2>3. Len(s) \in Nat
    BY LenProperties
  <2> HIDE DEF t
  <2>4. ASSUME NEW i \in 1 .. Len(s), s[i] # e
        PROVE  \E j \in 1 .. Len(t) : t[j] = s[i]
    <3>1. CASE i < k
      <4>1. i \in 1 .. Len(t) /\ t[i] = s[i]
        BY <2>2, <2>3, <3>1
      <4> QED
        BY <4>1
    <3>2. CASE i > k
      <4>1. i - 1 \in 1 .. Len(t) /\ t[i - 1] = s[i]
        BY <2>2, <2>3, <3>2
      <4> QED
        BY <4>1
    <3> QED
      BY <2>1, <2>3, <2>4, <3>1, <3>2
  <2>5. ASSUME NEW i \in 1 .. Len(t), NEW j \in 1 .. Len(t), i < j
        PROVE  \E a, b \in 1 .. Len(s) : a < b /\ t[i] = s[a] /\ t[j] = s[b]
    <3> DEFINE a == IF i < k THEN i ELSE i + 1
               b == IF j < k THEN j ELSE j + 1
    <3>1. a \in 1 .. Len(s) /\ b \in 1 .. Len(s) /\ a < b /\ t[i] = s[a] /\ t[j] = s[b]
      BY <2>2, <2>3, <2>5
    <3> HIDE DEF a, b
    <3> QED
      BY <3>1
  <2> QED
    BY <2>1, <2>4, <2>5 DEF t
<1> QED
  BY <1>1, <1>2

(* InsertTailList before position i puts the element there.                *)
LEMMA InsertAtProperties ==
    ASSUME NEW S, NEW s \in Seq(S), NEW k \in 1 .. Len(s) + 1, NEW e \in S
    PROVE  /\ InsertAt(s, k, e) \in Seq(S)
           /\ Len(InsertAt(s, k, e)) = Len(s) + 1
           /\ \A i \in 1 .. Len(s) + 1 :
                 InsertAt(s, k, e)[i] = IF i < k THEN s[i] ELSE IF i = k THEN e ELSE s[i - 1]
<1> DEFINE l == SubSeq(s, 1, k - 1)
           r == SubSeq(s, k, Len(s))
           m == <<e>>
<1>1. Len(s) \in Nat /\ \A i \in 1 .. Len(s) : s[i] \in S
  BY LenProperties
<1>2. /\ l \in Seq(S) /\ Len(l) = k - 1
      /\ \A i \in 1 .. k - 1 : l[i] = s[i]
  BY <1>1
<1>3. /\ r \in Seq(S) /\ Len(r) = Len(s) - k + 1
      /\ \A i \in 1 .. Len(s) - k + 1 : r[i] = s[i + k - 1]
  BY <1>1
<1>4. m \in Seq(S) /\ Len(m) = 1 /\ m[1] = e
  OBVIOUS
<1>5. InsertAt(s, k, e) = (l \o m) \o r
  BY DEF InsertAt
<1> HIDE DEF l, r, m
<1>6. /\ l \o m \in Seq(S) /\ Len(l \o m) = k
      /\ \A i \in 1 .. k : (l \o m)[i] = IF i <= k - 1 THEN l[i] ELSE m[i - (k - 1)]
  <2>1. /\ l \o m \in Seq(S) /\ Len(l \o m) = Len(l) + Len(m)
        /\ \A i \in 1 .. Len(l) + Len(m) :
              (l \o m)[i] = IF i <= Len(l) THEN l[i] ELSE m[i - Len(l)]
    BY <1>2, <1>4, ConcatProperties
  <2>2. Len(l) + Len(m) = k
    BY <1>1, <1>2, <1>4
  <2> QED
    BY <1>2, <2>1, <2>2
<1>7. /\ (l \o m) \o r \in Seq(S) /\ Len((l \o m) \o r) = Len(s) + 1
      /\ \A i \in 1 .. Len(s) + 1 :
            ((l \o m) \o r)[i] = IF i <= k THEN (l \o m)[i] ELSE r[i - k]
  <2> DEFINE h == l \o m
  <2>1. h \in Seq(S) /\ Len(h) = k
    BY <1>6
  <2> HIDE DEF h
  <2>2. /\ h \o r \in Seq(S) /\ Len(h \o r) = Len(h) + Len(r)
        /\ \A i \in 1 .. Len(h) + Len(r) :
              (h \o r)[i] = IF i <= Len(h) THEN h[i] ELSE r[i - Len(h)]
    BY <1>3, <2>1, ConcatProperties
  <2>3. Len(h) + Len(r) = Len(s) + 1
    BY <1>1, <1>3, <2>1
  <2> QED
    BY <2>1, <2>2, <2>3 DEF h
<1>8. ASSUME NEW i \in 1 .. Len(s) + 1
      PROVE  InsertAt(s, k, e)[i] = IF i < k THEN s[i] ELSE IF i = k THEN e ELSE s[i - 1]
  <2>1. CASE i < k
    <3>1. i \in 1 .. k /\ i <= k - 1 /\ i <= k
      BY <1>1, <2>1
    <3>2. ((l \o m) \o r)[i] = (l \o m)[i] /\ (l \o m)[i] = l[i]
      BY <1>6, <1>7, <3>1
    <3> QED
      BY <1>1, <1>2, <1>5, <2>1, <3>1, <3>2
  <2>2. CASE i = k
    <3>1. i \in 1 .. k /\ ~(i <= k - 1) /\ i - (k - 1) = 1
      BY <1>1, <2>2
    <3>2. ((l \o m) \o r)[i] = (l \o m)[i] /\ (l \o m)[i] = m[1]
      BY <1>6, <1>7, <2>2, <3>1
    <3> QED
      BY <1>1, <1>4, <1>5, <2>2, <3>2
  <2>3. CASE i > k
    <3>1. i - k \in 1 .. Len(s) - k + 1 /\ (i - k) + k - 1 = i - 1
      BY <1>1, <2>3
    <3>2. ((l \o m) \o r)[i] = r[i - k]
      BY <1>1, <1>7, <2>3
    <3>3. r[i - k] = s[i - 1]
      BY <1>3, <3>1
    <3> QED
      BY <1>1, <1>5, <2>3, <3>2, <3>3
  <2> QED
    BY <1>1, <2>1, <2>2, <2>3
<1> QED
  BY <1>5, <1>7, <1>8

-----------------------------------------------------------------------------
(* Induction over the natural numbers.                                     *)
LEMMA Induction ==
    ASSUME NEW S, 0 \in S, \A n \in Nat : n \in S => n + 1 \in S
    PROVE  Nat \subseteq S
<1> PICK T : T = Nat \ S
  OBVIOUS
<1> SUFFICES ASSUME T # {} PROVE FALSE
  OBVIOUS
<1>1. T \subseteq Nat
  OBVIOUS
<1>2. PICK m : m \in T /\ \A y \in T : m <= y
  BY <1>1, Minimum
<1>3. m \in Nat /\ m # 0
  BY <1>2
<1>4. m - 1 \in Nat /\ m - 1 \notin T
  BY <1>2, <1>3
<1> QED
  BY <1>2, <1>3, <1>4

(* The function by which Without is defined.                               *)
Keeping(s, es, n, f) ==
    f = [i \in 0 .. n |->
            IF i = 0 THEN <<>>
            ELSE IF s[i] \in es THEN f[i - 1] ELSE Append(f[i - 1], s[i])]

LEMMA KeepingExists ==
    ASSUME NEW s, NEW es, NEW n \in Nat
    PROVE  \E f : Keeping(s, es, n, f)
<1> DEFINE S == { m \in Nat : \E f : Keeping(s, es, m, f) }
<1>1. 0 \in S
  <2> PICK g : g = [i \in 0 .. 0 |-> <<>>]
    OBVIOUS
  <2>1. Keeping(s, es, 0, g)
    BY DEF Keeping
  <2> QED
    BY <2>1
<1>2. ASSUME NEW m \in Nat, m \in S
      PROVE  m + 1 \in S
  <2>1. PICK f : Keeping(s, es, m, f)
    BY <1>2
  <2> PICK x : x = IF s[m + 1] \in es THEN f[m] ELSE Append(f[m], s[m + 1])
    OBVIOUS
  <2> PICK g : g = [i \in 0 .. m + 1 |-> IF i = m + 1 THEN x ELSE f[i]]
    OBVIOUS
  <2>2. \A i \in 0 .. m : f[i] = IF i = 0 THEN <<>>
             ELSE IF s[i] \in es THEN f[i - 1] ELSE Append(f[i - 1], s[i])
    BY <2>1 DEF Keeping
  <2>3. \A i \in 0 .. m : g[i] = f[i]
    OBVIOUS
  <2>4. g[m + 1] = x
    OBVIOUS
  <2>5. \A i \in 0 .. m + 1 : g[i] = IF i = 0 THEN <<>>
             ELSE IF s[i] \in es THEN g[i - 1] ELSE Append(g[i - 1], s[i])
    <3> TAKE i \in 0 .. m + 1
    <3>1. CASE i = 0
      BY <2>2, <2>3, <3>1
    <3>2. CASE i \in 1 .. m
      <4>1. i \in 0 .. m /\ i - 1 \in 0 .. m
        BY <3>2
      <4> QED
        BY <2>2, <2>3, <3>2, <4>1
    <3>3. CASE i = m + 1
      <4>1. m \in 0 .. m /\ i - 1 = m /\ i # 0
        BY <3>3
      <4> QED
        BY <2>3, <2>4, <3>3, <4>1
    <3> QED
      BY <3>1, <3>2, <3>3
  <2>6. Keeping(s, es, m + 1, g)
    BY <2>5 DEF Keeping
  <2> QED
    BY <2>6
<1> QED
  BY <1>1, <1>2, Induction

LEMMA WithoutKept ==
    ASSUME NEW S, NEW s \in Seq(S), NEW es
    PROVE  \E f : Keeping(s, es, Len(s), f) /\ Without(s, es) = f[Len(s)]
<1> DEFINE k == CHOOSE f : Keeping(s, es, Len(s), f)
<1>1. Keeping(s, es, Len(s), k)
  BY KeepingExists, LenProperties
<1>2. Without(s, es) = k[Len(s)]
  BY DEF Without, Keeping
<1> QED
  BY <1>1, <1>2

(* What a walk that unlinks the elements of es leaves: the others, in      *)
(* their order.                                                            *)
LeavesOut(s, es, w) ==
    /\ \A i \in 1 .. Len(s) : s[i] \notin es => \E j \in 1 .. Len(w) : w[j] = s[i]
    /\ \A j \in 1 .. Len(w) : w[j] \notin es /\ \E i \in 1 .. Len(s) : w[j] = s[i]
    /\ \A i, j \in 1 .. Len(w) : i < j =>
          \E a, b \in 1 .. Len(s) : a < b /\ w[i] = s[a] /\ w[j] = s[b]

LEMMA WithoutProperties ==
    ASSUME NEW S, NEW s \in Seq(S), NEW es
    PROVE  /\ Without(s, es) \in Seq(S) /\ LeavesOut(s, es, Without(s, es))
           /\ Distinct(s) => Distinct(Without(s, es))
<1>1. PICK f : Keeping(s, es, Len(s), f) /\ Without(s, es) = f[Len(s)]
  BY WithoutKept
<1>2. Len(s) \in Nat /\ \A i \in 1 .. Len(s) : s[i] \in S
  BY LenProperties
<1>3. \A i \in 0 .. Len(s) : f[i] = IF i = 0 THEN <<>>
          ELSE IF s[i] \in es THEN f[i - 1] ELSE Append(f[i - 1], s[i])
  BY <1>1 DEF Keeping
<1> DEFINE P(i, w) ==
      /\ w \in Seq(S)
      /\ \A a \in 1 .. i : s[a] \notin es => \E j \in 1 .. Len(w) : w[j] = s[a]
      /\ \A j \in 1 .. Len(w) : w[j] \notin es /\ \E a \in 1 .. i : w[j] = s[a]
      /\ \A h, j \in 1 .. Len(w) : h < j => \E a, b \in 1 .. i : a < b /\ w[h] = s[a] /\ w[j] = s[b]
    T == { i \in Nat : i <= Len(s) => P(i, f[i]) }
<1>4. 0 \in T
  <2>1. f[0] = <<>>
    BY <1>2, <1>3
  <2>2. P(0, <<>>)
    <3>1. <<>> \in Seq(S) /\ 1 .. 0 = {} /\ Len(<<>>) = 0
      OBVIOUS
    <3> QED
      BY <3>1
  <2> HIDE DEF P
  <2> QED
    BY <2>1, <2>2
<1>5. ASSUME NEW n \in Nat, n \in T
      PROVE  n + 1 \in T
  <2>1. ASSUME n + 1 <= Len(s)
        PROVE  P(n + 1, f[n + 1])
    <3>1. n + 1 \in 1 .. Len(s) /\ n \in 0 .. Len(s) /\ n + 1 \in 0 .. Len(s) /\ n + 1 # 0
      BY <1>2, <2>1
    <3> PICK w, e : w = f[n] /\ e = s[n + 1]
      OBVIOUS
    <3>2. P(n, w) /\ e \in S
      BY <1>2, <1>5, <2>1, <3>1
    <3>3. f[n + 1] = IF e \in es THEN w ELSE Append(w, e)
      BY <1>3, <3>1
    <3>4. Len(w) \in Nat
      BY <3>2, LenProperties
    <3>5. \A a \in 1 .. n + 1 : a \in 1 .. n \/ a = n + 1
      OBVIOUS
    <3>6. \A a \in 1 .. n : a \in 1 .. n + 1 /\ a < n + 1
      OBVIOUS
    <3>7. n + 1 \in 1 .. n + 1
      BY <3>1
    <3>8. CASE e \in es
      <4>1. P(n + 1, w)
        BY <3>2, <3>5, <3>6, <3>8
      <4> QED
        BY <3>3, <3>8, <4>1
    <3>9. CASE e \notin es
      <4> PICK v : v = Append(w, e)
        OBVIOUS
      <4>1. /\ v \in Seq(S) /\ Len(v) = Len(w) + 1 /\ v[Len(w) + 1] = e
            /\ \A i \in 1 .. Len(w) : v[i] = w[i]
        BY <3>2, AppendProperties
      <4>2. \A j \in 1 .. Len(v) : j \in 1 .. Len(w) \/ j = Len(w) + 1
        BY <3>4, <4>1
      <4>3. \A j \in 1 .. Len(w) : j \in 1 .. Len(v)
        BY <3>4, <4>1
      <4>4. Len(w) + 1 \in 1 .. Len(v)
        BY <3>4, <4>1
      <4>5. ASSUME NEW a \in 1 .. n + 1, s[a] \notin es
            PROVE  \E j \in 1 .. Len(v) : v[j] = s[a]
        <5>1. CASE a = n + 1
          BY <4>1, <4>4, <5>1
        <5>2. CASE a \in 1 .. n
          <6>1. PICK j \in 1 .. Len(w) : w[j] = s[a]
            BY <3>2, <4>5, <5>2
          <6> QED
            BY <4>1, <4>3, <6>1
        <5> QED
          BY <3>5, <5>1, <5>2
      <4>6. ASSUME NEW j \in 1 .. Len(v)
            PROVE  v[j] \notin es /\ \E a \in 1 .. n + 1 : v[j] = s[a]
        <5>1. CASE j = Len(w) + 1
          BY <3>7, <3>9, <4>1, <5>1
        <5>2. CASE j \in 1 .. Len(w)
          <6>1. w[j] \notin es /\ \E a \in 1 .. n : w[j] = s[a]
            BY <3>2, <5>2
          <6> QED
            BY <3>6, <4>1, <5>2, <6>1
        <5> QED
          BY <4>2, <5>1, <5>2
      <4>7. ASSUME NEW h \in 1 .. Len(v), NEW j \in 1 .. Len(v), h < j
            PROVE  \E a, b \in 1 .. n + 1 : a < b /\ v[h] = s[a] /\ v[j] = s[b]
        <5>1. h \in 1 .. Len(w)
          BY <3>4, <4>1, <4>7
        <5>2. CASE j \in 1 .. Len(w)
          <6>1. PICK a \in 1 .. n, b \in 1 .. n : a < b /\ w[h] = s[a] /\ w[j] = s[b]
            BY <3>2, <4>7, <5>1, <5>2
          <6> QED
            BY <3>6, <4>1, <5>1, <5>2, <6>1
        <5>3. CASE j = Len(w) + 1
          <6>1. PICK a \in 1 .. n : w[h] = s[a]
            BY <3>2, <5>1
          <6>2. v[h] = s[a] /\ v[j] = s[n + 1] /\ a < n + 1 /\ a \in 1 .. n + 1
            BY <3>6, <4>1, <5>1, <5>3, <6>1
          <6> QED
            BY <3>7, <6>2
        <5> QED
          BY <4>2, <5>2, <5>3
      <4>8. P(n + 1, v)
        BY <4>1, <4>5, <4>6, <4>7
      <4> HIDE DEF P
      <4> QED
        BY <3>3, <3>9, <4>8
    <3> QED
      BY <3>8, <3>9
  <2> HIDE DEF P
  <2> QED
    BY <2>1
<1>6. Len(s) \in T
  <2> HIDE DEF T
  <2> QED
    BY <1>2, <1>4, <1>5, Induction
<1> PICK w : w = Without(s, es)
  OBVIOUS
<1>7. P(Len(s), w)
  <2> HIDE DEF P
  <2> QED
    BY <1>1, <1>2, <1>6
<1>8. w \in Seq(S) /\ LeavesOut(s, es, w)
  BY <1>7 DEF LeavesOut
<1>9. ASSUME Distinct(s) PROVE Distinct(w)
  <2>1. Len(w) \in Nat
    BY <1>8, LenProperties
  <2>2. ASSUME NEW i \in 1 .. Len(w), NEW j \in 1 .. Len(w), i < j
        PROVE  w[i] # w[j]
    <3>1. PICK a \in 1 .. Len(s), b \in 1 .. Len(s) : a < b /\ w[i] = s[a] /\ w[j] = s[b]
      BY <1>8, <2>2 DEF LeavesOut
    <3> QED
      BY <1>2, <1>9, <3>1 DEF Distinct
  <2> QED
    BY <2>1, <2>2 DEF Distinct
<1> QED
  BY <1>8, <1>9

(* The elements of a list, as a set.                                       *)
LEMMA Elements ==
    ASSUME NEW S, NEW s \in Seq(S)
    PROVE  /\ \A x : x \in Range(s) <=> \E i \in 1 .. Len(s) : s[i] = x
           /\ Range(s) \subseteq S
           /\ IsInjective(s) <=> Distinct(s)
<1>1. DOMAIN s = 1 .. Len(s) /\ \A i \in 1 .. Len(s) : s[i] \in S
  OBVIOUS
<1> QED
  BY <1>1 DEF Range, IsInjective, Distinct

(* InsertTailList. *)
LEMMA AppendElements ==
    ASSUME NEW S, NEW s \in Seq(S), NEW e \in S
    PROVE  /\ Append(s, e) \in Seq(S)
           /\ Range(Append(s, e)) = Range(s) \cup {e}
           /\ IsInjective(s) /\ e \notin Range(s) => IsInjective(Append(s, e))
<1> PICK t : t = Append(s, e)
  OBVIOUS
<1>1. /\ t \in Seq(S) /\ Len(t) = Len(s) + 1 /\ t[Len(s) + 1] = e
      /\ \A i \in 1 .. Len(s) : t[i] = s[i]
  BY AppendProperties
<1>2. Len(s) \in Nat
  BY LenProperties
<1>3. \A i \in 1 .. Len(t) : i \in 1 .. Len(s) \/ i = Len(s) + 1
  BY <1>1, <1>2
<1>4. \A i \in 1 .. Len(s) : i \in 1 .. Len(t)
  BY <1>1, <1>2
<1>5. Len(s) + 1 \in 1 .. Len(t)
  BY <1>1, <1>2
<1>6. \A x : x \in Range(t) <=> x \in Range(s) \/ x = e
  <2>1. /\ \A x : x \in Range(t) <=> \E i \in 1 .. Len(t) : t[i] = x
        /\ \A x : x \in Range(s) <=> \E i \in 1 .. Len(s) : s[i] = x
    BY <1>1, Elements
  <2> QED
    BY <1>1, <1>3, <1>4, <1>5, <2>1
<1>7. ASSUME IsInjective(s), e \notin Range(s) PROVE IsInjective(t)
  <2>1. Distinct(s) /\ \A i \in 1 .. Len(s) : s[i] # e
    BY <1>7, Elements
  <2>2. Distinct(t)
    BY <1>1, <1>3, <2>1 DEF Distinct
  <2> QED
    BY <1>1, <2>2, Elements
<1> QED
  BY <1>1, <1>6, <1>7

(* A walk that unlinks.                                                    *)
LEMMA WithoutElements ==
    ASSUME NEW S, NEW s \in Seq(S), NEW es
    PROVE  /\ Without(s, es) \in Seq(S)
           /\ Range(Without(s, es)) = Range(s) \ es
           /\ IsInjective(s) => IsInjective(Without(s, es))
<1> PICK t : t = Without(s, es)
  OBVIOUS
<1>1. t \in Seq(S) /\ LeavesOut(s, es, t) /\ (Distinct(s) => Distinct(t))
  BY WithoutProperties
<1>2. \A x : x \in Range(t) <=> x \in Range(s) /\ x \notin es
  <2>1. /\ \A x : x \in Range(t) <=> \E i \in 1 .. Len(t) : t[i] = x
        /\ \A x : x \in Range(s) <=> \E i \in 1 .. Len(s) : s[i] = x
    BY <1>1, Elements
  <2>2. \A x : x \in Range(t) => x \in Range(s) /\ x \notin es
    <3>1. \A j \in 1 .. Len(t) : t[j] \notin es /\ \E i \in 1 .. Len(s) : s[i] = t[j]
      BY <1>1 DEF LeavesOut
    <3> QED
      BY <2>1, <3>1
  <2>3. \A x : x \in Range(s) /\ x \notin es => x \in Range(t)
    BY <1>1, <2>1 DEF LeavesOut
  <2> QED
    BY <2>2, <2>3
<1>3. IsInjective(s) => IsInjective(t)
  BY <1>1, Elements
<1> QED
  BY <1>1, <1>2, <1>3

(* One list behind another.                                                *)
LEMMA ConcatElements ==
    ASSUME NEW S, NEW s \in Seq(S), NEW t \in Seq(S)
    PROVE  /\ s \o t \in Seq(S)
           /\ Range(s \o t) = Range(s) \cup Range(t)
           /\ IsInjective(s) /\ IsInjective(t) /\ Range(s) \cap Range(t) = {} => IsInjective(s \o t)
<1> PICK u : u = s \o t
  OBVIOUS
<1>1. Len(s) \in Nat /\ Len(t) \in Nat
  BY LenProperties
<1>2. /\ u \in Seq(S) /\ Len(u) = Len(s) + Len(t)
      /\ \A i \in 1 .. Len(s) + Len(t) : u[i] = IF i <= Len(s) THEN s[i] ELSE t[i - Len(s)]
  BY ConcatProperties
<1>3. \A i \in 1 .. Len(u) : \/ i \in 1 .. Len(s) /\ u[i] = s[i]
                             \/ i > Len(s) /\ i - Len(s) \in 1 .. Len(t) /\ u[i] = t[i - Len(s)]
  BY <1>1, <1>2
<1>4. \A i \in 1 .. Len(s) : i \in 1 .. Len(u) /\ u[i] = s[i]
  BY <1>1, <1>2
<1>5. \A i \in 1 .. Len(t) : i + Len(s) \in 1 .. Len(u) /\ u[i + Len(s)] = t[i]
  BY <1>1, <1>2
<1>6. \A x : x \in Range(u) <=> x \in Range(s) \/ x \in Range(t)
  <2>1. /\ \A x : x \in Range(u) <=> \E i \in 1 .. Len(u) : u[i] = x
        /\ \A x : x \in Range(s) <=> \E i \in 1 .. Len(s) : s[i] = x
        /\ \A x : x \in Range(t) <=> \E i \in 1 .. Len(t) : t[i] = x
    BY <1>2, Elements
  <2>2. \A x : x \in Range(u) => x \in Range(s) \/ x \in Range(t)
    BY <1>3, <2>1
  <2>3. \A x : x \in Range(s) => x \in Range(u)
    BY <1>4, <2>1
  <2>4. \A x : x \in Range(t) => x \in Range(u)
    BY <1>5, <2>1
  <2> QED
    BY <2>2, <2>3, <2>4
<1>7. ASSUME IsInjective(s), IsInjective(t), Range(s) \cap Range(t) = {} PROVE IsInjective(u)
  <2>1. Distinct(s) /\ Distinct(t)
    BY <1>7, Elements
  <2>2. \A i \in 1 .. Len(s), j \in 1 .. Len(t) : s[i] # t[j]
    BY <1>7, Elements
  <2>3. ASSUME NEW i \in 1 .. Len(u), NEW j \in 1 .. Len(u), u[i] = u[j]
        PROVE  i = j
    <3>1. CASE i \in 1 .. Len(s) /\ j \in 1 .. Len(s)
      BY <1>4, <2>1, <2>3, <3>1 DEF Distinct
    <3>2. CASE i > Len(s) /\ j > Len(s)
      <4>1. i - Len(s) \in 1 .. Len(t) /\ j - Len(s) \in 1 .. Len(t) /\ t[i - Len(s)] = t[j - Len(s)]
        BY <1>1, <1>3, <2>3, <3>2
      <4>2. i - Len(s) = j - Len(s)
        BY <2>1, <4>1 DEF Distinct
      <4> QED
        BY <1>1, <4>2
    <3>3. CASE i \in 1 .. Len(s) /\ j > Len(s)
      BY <1>1, <1>3, <2>2, <2>3, <3>3
    <3>4. CASE i > Len(s) /\ j \in 1 .. Len(s)
      BY <1>1, <1>3, <2>2, <2>3, <3>4
    <3> QED
      BY <1>3, <3>1, <3>2, <3>3, <3>4
  <2>4. Distinct(u)
    BY <2>3 DEF Distinct
  <2> QED
    BY <1>2, <2>4, Elements
<1> QED
  BY <1>2, <1>6, <1>7

(* The first element goes.                                                 *)
LEMMA TailElements ==
    ASSUME NEW S, NEW s \in Seq(S), s # <<>>
    PROVE  /\ Tail(s) \in Seq(S) /\ Head(s) \in S /\ Head(s) \in Range(s)
           /\ Range(Tail(s)) \subseteq Range(s)
           /\ IsInjective(s) => IsInjective(Tail(s)) /\ Range(Tail(s)) = Range(s) \ {Head(s)}
<1> PICK t : t = Tail(s)
  OBVIOUS
<1>1. /\ Len(s) \in Nat /\ Len(s) > 0 /\ Head(s) = s[1] /\ t \in Seq(S) /\ Len(t) = Len(s) - 1
      /\ \A i \in 1 .. Len(s) - 1 : t[i] = s[i + 1]
  BY EmptySeq, LenProperties, HeadTailProperties
<1>2. \A i \in 1 .. Len(t) : i + 1 \in 1 .. Len(s) /\ i + 1 # 1 /\ t[i] = s[i + 1]
  BY <1>1
<1>3. \A i \in 1 .. Len(s) : i # 1 => i - 1 \in 1 .. Len(t) /\ t[i - 1] = s[i]
  BY <1>1
<1>4. 1 \in 1 .. Len(s)
  BY <1>1
<1>5. Head(s) \in S /\ Head(s) \in Range(s) /\ Range(t) \subseteq Range(s)
  <2>1. /\ \A x : x \in Range(t) <=> \E i \in 1 .. Len(t) : t[i] = x
        /\ \A x : x \in Range(s) <=> \E i \in 1 .. Len(s) : s[i] = x
    <3>1. t \in Seq(S)
      BY <1>1
    <3> QED
      BY <3>1, Elements
  <2>2. \A x : x \in Range(t) => x \in Range(s)
    BY <1>1, <1>2, <2>1
  <2> QED
    BY <1>1, <1>4, <2>1, <2>2
<1>6. ASSUME IsInjective(s) PROVE IsInjective(t) /\ Range(t) = Range(s) \ {Head(s)}
  <2>1. Distinct(s)
    BY <1>6, Elements
  <2>2. \A x : x \in Range(t) <=> x \in Range(s) /\ x # Head(s)
    <3>1. \A i \in 1 .. Len(s) : i # 1 => s[i] # s[1]
      BY <1>4, <2>1 DEF Distinct
    <3>2. /\ \A x : x \in Range(t) <=> \E i \in 1 .. Len(t) : t[i] = x
          /\ \A x : x \in Range(s) <=> \E i \in 1 .. Len(s) : s[i] = x
      <4>1. t \in Seq(S)
        BY <1>1
      <4> QED
        BY <4>1, Elements
    <3>3. \A x : x \in Range(t) => x \in Range(s) /\ x # s[1]
      BY <1>2, <3>1, <3>2
    <3>4. \A x : x \in Range(s) /\ x # s[1] => x \in Range(t)
      BY <1>3, <3>2
    <3> QED
      BY <1>1, <3>3, <3>4
  <2>3. Distinct(t)
    <3> SUFFICES ASSUME NEW i \in 1 .. Len(t), NEW j \in 1 .. Len(t), t[i] = t[j] PROVE i = j
      BY DEF Distinct
    <3>1. i + 1 = j + 1
      BY <1>2, <2>1 DEF Distinct
    <3> QED
      BY <1>1, <3>1
  <2> QED
    BY <1>1, <2>2, <2>3, Elements
<1> QED
  BY <1>1, <1>5, <1>6

(* A list is empty when nothing is linked into it.                         *)
LEMMA NoElements ==
    ASSUME NEW S, NEW s \in Seq(S)
    PROVE  s = <<>> <=> \A x : x \notin Range(s)
<1>1. ASSUME s = <<>> PROVE \A x : x \notin Range(s)
  BY <1>1 DEF Range
<1>2. ASSUME s # <<>> PROVE \E x : x \in Range(s)
  <2>1. 1 \in 1 .. Len(s)
    BY <1>2, EmptySeq, LenProperties
  <2> QED
    BY <2>1, Elements
<1> QED
  BY <1>1, <1>2

(* A node that is linked once is unlinked at its place.                    *)
LEMMA RemoveKnown ==
    ASSUME NEW S, NEW s \in Seq(S), IsInjective(s), NEW k \in 1 .. Len(s), NEW e, s[k] = e
    PROVE  RemoveFirst(s, e) = RemoveAt(s, k)
<1>1. PICK j \in 1 .. Len(s) : s[j] = e /\ RemoveFirst(s, e) = RemoveAt(s, j)
  BY FirstPosition
<1>2. j = k
  BY <1>1, Elements DEF Distinct
<1> QED
  BY <1>1, <1>2

LEMMA RemoveAbsent ==
    ASSUME NEW S, NEW s \in Seq(S), NEW e, e \notin Range(s)
    PROVE  RemoveFirst(s, e) = s
<1>1. \A i \in 1 .. Len(s) : s[i] # e
  BY Elements
<1> QED
  BY <1>1 DEF RemoveFirst

(* RemoveEntryList. *)
LEMMA RemoveElements ==
    ASSUME NEW S, NEW s \in Seq(S), IsInjective(s), NEW e
    PROVE  /\ RemoveFirst(s, e) \in Seq(S)
           /\ IsInjective(RemoveFirst(s, e))
           /\ Range(RemoveFirst(s, e)) = Range(s) \ {e}
<1> PICK t : t = RemoveFirst(s, e)
  OBVIOUS
<1>1. Distinct(s)
  BY Elements
<1>2. t \in Seq(S) /\ Distinct(t)
  BY <1>1, RemoveFirstProperties
<1>3. /\ \A x : x \in Range(t) <=> \E i \in 1 .. Len(t) : t[i] = x
      /\ \A x : x \in Range(s) <=> \E i \in 1 .. Len(s) : s[i] = x
  BY <1>2, Elements
<1>4. CASE e \notin Range(s)
  <2>1. t = s
    BY <1>4, RemoveAbsent
  <2> QED
    BY <1>4, <2>1
<1>5. CASE e \in Range(s)
  <2>1. PICK k \in 1 .. Len(s) : s[k] = e
    BY <1>3, <1>5
  <2>2. t = RemoveAt(s, k)
    BY <2>1, RemoveKnown
  <2>3. Len(t) = Len(s) - 1 /\ \A i \in 1 .. Len(s) - 1 : t[i] = IF i < k THEN s[i] ELSE s[i + 1]
    BY <2>2, RemoveAtProperties
  <2>4. Len(s) \in Nat
    BY LenProperties
  <2>5. \A x : x \in Range(t) => x \in Range(s) /\ x # e
    <3>1. \A i \in 1 .. Len(t) : \E j \in 1 .. Len(s) : j # k /\ t[i] = s[j]
      <4> SUFFICES ASSUME NEW i \in 1 .. Len(t) PROVE \E j \in 1 .. Len(s) : j # k /\ t[i] = s[j]
        OBVIOUS
      <4>1. CASE i < k
        BY <2>3, <2>4, <4>1
      <4>2. CASE i >= k
        <5>1. i + 1 \in 1 .. Len(s) /\ i + 1 # k /\ t[i] = s[i + 1]
          BY <2>3, <2>4, <4>2
        <5> QED
          BY <5>1
      <4> QED
        BY <4>1, <4>2
    <3>2. \A j \in 1 .. Len(s) : j # k => s[j] # e
      BY <1>1, <2>1 DEF Distinct
    <3> QED
      BY <1>3, <3>1, <3>2
  <2>6. \A x : x \in Range(s) /\ x # e => x \in Range(t)
    <3>1. \A j \in 1 .. Len(s) : j # k => \E i \in 1 .. Len(t) : t[i] = s[j]
      <4> SUFFICES ASSUME NEW j \in 1 .. Len(s), j # k PROVE \E i \in 1 .. Len(t) : t[i] = s[j]
        OBVIOUS
      <4>1. CASE j < k
        BY <2>3, <2>4, <4>1
      <4>2. CASE j > k
        <5>1. j - 1 \in 1 .. Len(t) /\ t[j - 1] = s[j]
          BY <2>3, <2>4, <4>2
        <5> QED
          BY <5>1
      <4> QED
        BY <4>1, <4>2
    <3> QED
      BY <1>3, <2>1, <3>1
  <2> QED
    BY <1>2, <2>5, <2>6, Elements
<1> QED
  BY <1>2, <1>4, <1>5, Elements

(* InsertHeadList. *)
LEMMA PrependElements ==
    ASSUME NEW S, NEW s \in Seq(S), NEW e \in S
    PROVE  /\ <<e>> \o s \in Seq(S)
           /\ Range(<<e>> \o s) = Range(s) \cup {e}
           /\ IsInjective(s) /\ e \notin Range(s) => IsInjective(<<e>> \o s)
<1> PICK u : u = <<e>>
  OBVIOUS
<1>1. u \in Seq(S) /\ Range(u) = {e} /\ IsInjective(u)
  BY DEF Range, IsInjective
<1>2. /\ u \o s \in Seq(S)
      /\ Range(u \o s) = Range(u) \cup Range(s)
      /\ IsInjective(u) /\ IsInjective(s) /\ Range(u) \cap Range(s) = {} => IsInjective(u \o s)
  BY <1>1, ConcatElements
<1> QED
  BY <1>1, <1>2

(* A list of one interface. *)
LEMMA Alone ==
    ASSUME NEW S, NEW s \in Seq(S), IsInjective(s), NEW e
    PROVE  s = <<e>> <=> Range(s) = {e}
<1>1. ASSUME s = <<e>> PROVE Range(s) = {e}
  BY <1>1 DEF Range
<1>2. ASSUME Range(s) = {e} PROVE s = <<e>>
  <2>1. Len(s) \in Nat /\ Distinct(s) /\ \A i \in 1 .. Len(s) : s[i] = e
    BY <1>2, LenProperties, Elements
  <2>2. 1 \in 1 .. Len(s)
    <3>1. \E i \in 1 .. Len(s) : s[i] = e
      BY <1>2, Elements
    <3> QED
      BY <2>1, <3>1
  <2>3. Len(s) = 1
    <3>1. \A i \in 1 .. Len(s) : s[i] = s[1]
      BY <2>1, <2>2
    <3>2. \A i \in 1 .. Len(s) : i = 1
      BY <2>1, <2>2, <3>1 DEF Distinct
    <3>3. Len(s) \in 1 .. Len(s)
      BY <2>2, LenProperties
    <3> QED
      BY <3>2, <3>3
  <2>4. e \in S
    BY <2>1, <2>2, LenProperties
  <2> QED
    BY <2>1, <2>2, <2>3, <2>4
<1> QED
  BY <1>1, <1>2

(* The beginning of a list, and all but its last element.                  *)
LEMMA Leading ==
    ASSUME NEW S, NEW s \in Seq(S), NEW n \in 0 .. Len(s)
    PROVE  /\ SubSeq(s, 1, n) \in Seq(S)
           /\ Len(SubSeq(s, 1, n)) = n
           /\ \A i \in 1 .. n : SubSeq(s, 1, n)[i] = s[i]
<1>1. Len(s) \in Nat /\ \A i \in 1 .. Len(s) : s[i] \in S
  BY LenProperties
<1> QED
  BY <1>1

LEMMA FrontIs ==
    ASSUME NEW S, NEW s \in Seq(S), s # <<>>
    PROVE  /\ Front(s) \in Seq(S) /\ Len(Front(s)) = Len(s) - 1
           /\ \A i \in 1 .. Len(s) - 1 : Front(s)[i] = s[i]
<1>1. PICK n : n = Len(s) - 1
  OBVIOUS
<1>2. n \in 0 .. Len(s)
  <2>1. Len(s) \in Nat
    BY LenProperties
  <2>2. Len(s) # 0
    BY EmptySeq
  <2> QED
    BY <1>1, <2>1, <2>2
<1>3. Front(s) = SubSeq(s, 1, n)
  BY <1>1 DEF Front
<1> QED
  BY <1>1, <1>2, <1>3, Leading

-----------------------------------------------------------------------------
(* The walk of a registration: what follows x in a list, or all of it.     *)
Behind(s, x) == SubSeq(s, Max({0} \cup {i \in 1 .. Len(s) : s[i] = x}) + 1, Len(s))

(* The place of x, 0 for the head of the list.                             *)
Stands(s, k, x) ==
    \/ k = 0 /\ \A i \in 1 .. Len(s) : s[i] # x
    \/ k \in 1 .. Len(s) /\ s[k] = x

LEMMA SomePlace ==
    ASSUME NEW S, NEW s \in Seq(S), NEW x
    PROVE  \E k \in 0 .. Len(s) : Stands(s, k, x)
<1>1. Len(s) \in Nat
  BY LenProperties
<1> QED
  BY <1>1 DEF Stands

LEMMA BehindPlace ==
    ASSUME NEW S, NEW s \in Seq(S), Distinct(s), NEW x, NEW k \in 0 .. Len(s), Stands(s, k, x)
    PROVE  Behind(s, x) = SubSeq(s, k + 1, Len(s))
<1> DEFINE I == {0} \cup {i \in 1 .. Len(s) : s[i] = x}
<1>1. Len(s) \in Nat
  BY LenProperties
<1>2. I = {0, k}
  <2>1. CASE k = 0
    BY <2>1 DEF Stands
  <2>2. CASE k # 0
    BY <2>2 DEF Stands, Distinct
  <2> QED
    BY <2>1, <2>2
<1> HIDE DEF I
<1>3. Max(I) = k
  <2>1. k \in I /\ \A y \in I : k >= y
    BY <1>1, <1>2
  <2>2. \A z \in I : (\A y \in I : z >= y) => z = k
    BY <1>1, <1>2
  <2> QED
    BY <2>1, <2>2 DEF Max
<1> QED
  BY <1>3 DEF Behind, I

(* What follows a place. *)
LEMMA Following ==
    ASSUME NEW S, NEW s \in Seq(S), NEW k \in 0 .. Len(s)
    PROVE  /\ SubSeq(s, k + 1, Len(s)) \in Seq(S)
           /\ Len(SubSeq(s, k + 1, Len(s))) = Len(s) - k
           /\ \A i \in 1 .. Len(s) - k : SubSeq(s, k + 1, Len(s))[i] = s[k + i]
<1>1. Len(s) \in Nat /\ \A i \in 1 .. Len(s) : s[i] \in S
  BY LenProperties
<1> QED
  BY <1>1

LEMMA BehindIs ==
    ASSUME NEW S, NEW s \in Seq(S), Distinct(s), NEW x, NEW k \in 0 .. Len(s), Stands(s, k, x)
    PROVE  /\ Behind(s, x) \in Seq(S)
           /\ Len(Behind(s, x)) = Len(s) - k
           /\ \A i \in 1 .. Len(s) - k : Behind(s, x)[i] = s[k + i]
<1>1. /\ SubSeq(s, k + 1, Len(s)) \in Seq(S)
      /\ Len(SubSeq(s, k + 1, Len(s))) = Len(s) - k
      /\ \A i \in 1 .. Len(s) - k : SubSeq(s, k + 1, Len(s))[i] = s[k + i]
  BY Following
<1>2. Behind(s, x) = SubSeq(s, k + 1, Len(s))
  BY BehindPlace
<1> QED
  BY <1>1, <1>2

(* The walk is a list of elements of s, each of them once.                 *)
LEMMA BehindElements ==
    ASSUME NEW S, NEW s \in Seq(S), Distinct(s), NEW x
    PROVE  /\ Behind(s, x) \in Seq(S)
           /\ Distinct(Behind(s, x))
           /\ \A i \in 1 .. Len(Behind(s, x)) : \E j \in 1 .. Len(s) : Behind(s, x)[i] = s[j]
           /\ (\A i \in 1 .. Len(s) : s[i] # x) => Behind(s, x) = s
<1>1. PICK k \in 0 .. Len(s) : Stands(s, k, x)
  BY SomePlace
<1> PICK w : w = SubSeq(s, k + 1, Len(s))
  OBVIOUS
<1>2. w = Behind(s, x)
  BY <1>1, BehindPlace
<1>3. w \in Seq(S) /\ Len(w) = Len(s) - k /\ \A i \in 1 .. Len(s) - k : w[i] = s[k + i]
  BY Following
<1>4. Len(s) \in Nat
  BY LenProperties
<1>5. \A i \in 1 .. Len(w) : k + i \in 1 .. Len(s) /\ w[i] = s[k + i]
  BY <1>3, <1>4
<1>6. Distinct(w)
  <2> SUFFICES ASSUME NEW i \in 1 .. Len(w), NEW j \in 1 .. Len(w), w[i] = w[j] PROVE i = j
    BY DEF Distinct
  <2>1. k + i = k + j
    BY <1>5 DEF Distinct
  <2> QED
    BY <1>3, <1>4, <2>1
<1>7. ASSUME \A i \in 1 .. Len(s) : s[i] # x PROVE w = s
  <2>1. k = 0
    BY <1>1, <1>7 DEF Stands
  <2>2. Len(w) = Len(s) /\ \A i \in 1 .. Len(s) : w[i] = s[i]
    BY <1>3, <1>4, <2>1
  <2> QED
    BY <1>3, <2>2, SeqEqual
<1> QED
  BY <1>2, <1>3, <1>5, <1>6, <1>7

(* An installation is behind every place.                                  *)
LEMMA BehindAppend ==
    ASSUME NEW S, NEW s \in Seq(S), Distinct(s), NEW e \in S, NEW x, x # e,
           \A i \in 1 .. Len(s) : s[i] # e
    PROVE  Behind(Append(s, e), x) = Append(Behind(s, x), e)
<1>0. PICK t : t = Append(s, e)
  OBVIOUS
<1>1. /\ t \in Seq(S) /\ Len(t) = Len(s) + 1 /\ t[Len(s) + 1] = e
      /\ \A i \in 1 .. Len(s) : t[i] = s[i]
  BY <1>0, AppendProperties
<1>2. Len(s) \in Nat
  BY LenProperties
<1>3. PICK k \in 0 .. Len(s) : Stands(s, k, x)
  BY SomePlace
<1>4. \A i \in 1 .. Len(t) : i \in 1 .. Len(s) \/ i = Len(s) + 1
  BY <1>1, <1>2
<1>5. k \in 0 .. Len(t) /\ Stands(t, k, x)
  <2>1. k \in 0 .. Len(t) /\ 1 .. Len(s) \subseteq 1 .. Len(t)
    BY <1>1, <1>2
  <2> QED
    BY <1>1, <1>3, <1>4, <2>1 DEF Stands
<1>6. Distinct(t)
  BY <1>1, <1>4 DEF Distinct
<1>7. PICK w \in Seq(S) : /\ w = Behind(s, x) /\ Len(w) = Len(s) - k
                           /\ \A i \in 1 .. Len(s) - k : w[i] = s[k + i]
  BY <1>3, BehindIs
<1>8. PICK v \in Seq(S) : /\ v = Behind(t, x) /\ Len(v) = Len(t) - k
                           /\ \A i \in 1 .. Len(t) - k : v[i] = t[k + i]
  <2>1. /\ Behind(t, x) \in Seq(S) /\ Len(Behind(t, x)) = Len(t) - k
        /\ \A i \in 1 .. Len(t) - k : Behind(t, x)[i] = t[k + i]
    BY <1>1, <1>5, <1>6, BehindIs
  <2> QED
    BY <2>1
<1>9. PICK u \in Seq(S) : /\ u = Append(w, e) /\ Len(u) = Len(w) + 1 /\ u[Len(w) + 1] = e
                           /\ \A i \in 1 .. Len(w) : u[i] = w[i]
  <2>1. /\ Append(w, e) \in Seq(S) /\ Len(Append(w, e)) = Len(w) + 1
        /\ Append(w, e)[Len(w) + 1] = e
        /\ \A i \in 1 .. Len(w) : Append(w, e)[i] = w[i]
    BY AppendProperties
  <2> QED
    BY <2>1
<1>10. \A i \in 1 .. Len(v) : i \in 1 .. Len(w) \/ i = Len(w) + 1
  BY <1>1, <1>2, <1>7, <1>8
<1>11. Len(u) = Len(v) /\ \A i \in 1 .. Len(v) : u[i] = v[i]
  <2>1. Len(u) = Len(v)
    BY <1>1, <1>2, <1>7, <1>8, <1>9
  <2>2. ASSUME NEW i \in 1 .. Len(v) PROVE u[i] = v[i]
    <3>1. CASE i \in 1 .. Len(w)
      <4>1. k + i \in 1 .. Len(s) /\ i \in 1 .. Len(t) - k /\ i \in 1 .. Len(s) - k
        BY <1>1, <1>2, <1>7, <3>1
      <4> QED
        BY <1>1, <1>7, <1>8, <1>9, <3>1, <4>1
    <3>2. CASE i = Len(w) + 1
      <4>1. k + i = Len(s) + 1 /\ i \in 1 .. Len(t) - k
        BY <1>1, <1>2, <1>7, <3>2
      <4> QED
        BY <1>1, <1>8, <1>9, <3>2, <4>1
    <3> QED
      BY <1>10, <3>1, <3>2
  <2> QED
    BY <2>1, <2>2
<1>12. u = v
  BY <1>11, SeqEqual
<1> QED
  BY <1>0, <1>7, <1>8, <1>9, <1>12

(* The place x, or the one before it when x is the element e.             *)
Backed(s, e, head, x, y) ==
    /\ \A i \in 1 .. Len(s) : s[i] # head
    /\ \E j \in 1 .. Len(s) :
          /\ s[j] = e
          /\ y = IF x = e THEN IF j = 1 THEN head ELSE s[j - 1] ELSE x

(* An unlinked interface is gone from the walk; a registration that was    *)
(* there has been backed up to the one before.                             *)
LEMMA BehindRemove ==
    ASSUME NEW S, NEW s \in Seq(S), Distinct(s), NEW e, NEW head, NEW x, NEW y, Backed(s, e, head, x, y)
    PROVE  Behind(RemoveFirst(s, e), y) = RemoveFirst(Behind(s, x), e)
<1>0. PICK j \in 1 .. Len(s) :
          s[j] = e /\ y = IF x = e THEN IF j = 1 THEN head ELSE s[j - 1] ELSE x
  BY DEF Backed
<1>1. Len(s) \in Nat
  BY LenProperties
<1>2. PICK t \in Seq(S) : /\ t = RemoveFirst(s, e) /\ Len(t) = Len(s) - 1
                           /\ \A i \in 1 .. Len(s) - 1 : t[i] = IF i < j THEN s[i] ELSE s[i + 1]
  <2>1. IsInjective(s)
    BY Elements
  <2>2. RemoveFirst(s, e) = RemoveAt(s, j)
    BY <1>0, <2>1, RemoveKnown
  <2> QED
    BY <2>2, RemoveAtProperties
<1>3. PICK k \in 0 .. Len(s) : Stands(s, k, x)
  BY SomePlace
<1>4. PICK w \in Seq(S) : /\ w = Behind(s, x) /\ Len(w) = Len(s) - k
                           /\ \A i \in 1 .. Len(s) - k : w[i] = s[k + i]
  BY <1>3, BehindIs
<1>5. Distinct(t)
  BY <1>2, RemoveFirstProperties
<1>6. \A m \in 0 .. Len(t) : Stands(t, m, y) =>
         /\ Behind(t, y) \in Seq(S) /\ Len(Behind(t, y)) = Len(t) - m
         /\ \A i \in 1 .. Len(t) - m : Behind(t, y)[i] = t[m + i]
  BY <1>5, BehindIs
<1>7. CASE k >= j
  <2>1. k - 1 \in 0 .. Len(t)
    BY <1>1, <1>2, <1>7
  <2>2. Stands(t, k - 1, y)
    <3>1. x = s[k]
      BY <1>3, <1>7 DEF Stands
    <3>2. CASE k = j /\ j = 1
      <4>1. y = head
        BY <1>0, <1>2, <3>1, <3>2
      <4>2. \A i \in 1 .. Len(t) : t[i] # head
        <5>1. \A i \in 1 .. Len(s) : s[i] # head
          BY DEF Backed
        <5> QED
          BY <1>1, <1>2, <5>1
      <4> QED
        BY <3>2, <4>1, <4>2 DEF Stands
    <3>3. CASE k = j /\ j # 1
      <4>1. y = s[j - 1] /\ j - 1 \in 1 .. Len(t)
        BY <1>0, <1>1, <1>2, <3>1, <3>3
      <4>2. t[j - 1] = s[j - 1]
        BY <1>1, <1>2, <4>1
      <4> QED
        BY <3>3, <4>1, <4>2 DEF Stands
    <3>4. CASE k > j
      <4>1. x # e /\ y = x
        BY <1>0, <1>1, <3>1, <3>4 DEF Distinct
      <4>2. k - 1 \in 1 .. Len(t) /\ t[k - 1] = s[k]
        BY <1>1, <1>2, <3>4
      <4> QED
        BY <3>1, <4>1, <4>2 DEF Stands
    <3> QED
      BY <1>7, <3>2, <3>3, <3>4
  <2>3. Behind(t, y) = w
    <3>0. PICK v : v = Behind(t, y)
      OBVIOUS
    <3>1. v \in Seq(S) /\ Len(v) = Len(t) - (k - 1) /\ \A i \in 1 .. Len(t) - (k - 1) : v[i] = t[(k - 1) + i]
      BY <1>6, <2>1, <2>2, <3>0
    <3>2. Len(v) = Len(w)
      BY <1>1, <1>2, <1>4, <3>1
    <3>3. ASSUME NEW i \in 1 .. Len(v) PROVE v[i] = w[i]
      <4>1. i \in 1 .. Len(t) - (k - 1) /\ i \in 1 .. Len(s) - k /\ (k - 1) + i \in 1 .. Len(s) - 1
        BY <1>1, <1>2, <3>1, <1>7
      <4>2. ~((k - 1) + i < j) /\ (k - 1) + i + 1 = k + i
        BY <1>1, <1>7, <4>1
      <4> QED
        BY <1>2, <1>4, <3>1, <4>1, <4>2
    <3> QED
      BY <3>0, <3>1, <3>2, <3>3, SeqEqual
  <2>4. RemoveFirst(w, e) = w
    <3>1. \A i \in 1 .. Len(w) : w[i] # e
      <4> SUFFICES ASSUME NEW i \in 1 .. Len(w) PROVE w[i] # e
        OBVIOUS
      <4>1. i \in 1 .. Len(s) - k /\ k + i \in 1 .. Len(s) /\ k + i # j
        BY <1>1, <1>4, <1>7
      <4> QED
        BY <1>0, <1>4, <4>1 DEF Distinct
    <3> QED
      BY <3>1 DEF RemoveFirst
  <2> QED
    BY <1>2, <1>4, <2>3, <2>4
<1>8. CASE k < j
  <2>1. k \in 0 .. Len(t)
    BY <1>1, <1>2, <1>8
  <2>2. Stands(t, k, y)
    <3>1. x # e /\ y = x
      BY <1>0, <1>1, <1>3, <1>8 DEF Stands, Distinct
    <3>2. CASE k = 0
      <4>1. \A i \in 1 .. Len(s) : s[i] # x
        BY <1>3, <3>2 DEF Stands
      <4>2. \A i \in 1 .. Len(t) : t[i] # x
        BY <1>1, <1>2, <4>1
      <4> QED
        BY <3>1, <3>2, <4>2 DEF Stands
    <3>3. CASE k # 0
      <4>1. s[k] = x /\ k \in 1 .. Len(t)
        BY <1>1, <1>2, <1>3, <1>8, <3>3 DEF Stands
      <4>2. t[k] = s[k]
        BY <1>1, <1>2, <1>8, <4>1
      <4> QED
        BY <3>1, <4>1, <4>2 DEF Stands
    <3> QED
      BY <3>2, <3>3
  <2>3. Distinct(w) /\ j - k \in 1 .. Len(w) /\ w[j - k] = e
    <3>1. j - k \in 1 .. Len(s) - k /\ k + (j - k) = j
      BY <1>1, <1>8
    <3>2. w[j - k] = e
      BY <1>0, <1>4, <3>1
    <3>3. Distinct(w)
      BY <1>4, BehindElements
    <3> QED
      BY <1>4, <3>1, <3>2, <3>3
  <2>4. PICK u \in Seq(S) : /\ u = RemoveFirst(w, e) /\ Len(u) = Len(w) - 1
                             /\ \A i \in 1 .. Len(w) - 1 : u[i] = IF i < j - k THEN w[i] ELSE w[i + 1]
    <3>1. IsInjective(w)
      BY <2>3, Elements
    <3>2. RemoveFirst(w, e) = RemoveAt(w, j - k)
      BY <2>3, <3>1, RemoveKnown
    <3> QED
      BY <2>3, <3>2, RemoveAtProperties
  <2>5. Behind(t, y) = u
    <3>0. PICK v : v = Behind(t, y)
      OBVIOUS
    <3>1. v \in Seq(S) /\ Len(v) = Len(t) - k /\ \A i \in 1 .. Len(t) - k : v[i] = t[k + i]
      BY <1>6, <2>1, <2>2, <3>0
    <3>2. Len(v) = Len(u)
      BY <1>1, <1>2, <1>4, <2>4, <3>1
    <3>3. ASSUME NEW i \in 1 .. Len(v) PROVE v[i] = u[i]
      <4>1. i \in 1 .. Len(t) - k /\ i \in 1 .. Len(w) - 1 /\ k + i \in 1 .. Len(s) - 1
        BY <1>1, <1>2, <1>4, <3>1
      <4>2. CASE i < j - k
        <5>1. k + i < j /\ i \in 1 .. Len(s) - k
          BY <1>1, <1>4, <4>1, <4>2
        <5> QED
          BY <1>2, <1>4, <2>4, <3>1, <4>1, <4>2, <5>1
      <4>3. CASE ~(i < j - k)
        <5>1. ~(k + i < j) /\ i + 1 \in 1 .. Len(s) - k /\ k + (i + 1) = k + i + 1
          BY <1>1, <1>4, <4>1, <4>3
        <5> QED
          BY <1>2, <1>4, <2>4, <3>1, <4>1, <4>3, <5>1
      <4> QED
        BY <4>2, <4>3
    <3> QED
      BY <2>4, <3>0, <3>1, <3>2, <3>3, SeqEqual
  <2> QED
    BY <1>2, <1>4, <2>4, <2>5
<1> QED
  BY <1>1, <1>7, <1>8

(* The walk takes its first step.                                          *)
LEMMA BehindNext ==
    ASSUME NEW S, NEW s \in Seq(S), Distinct(s), NEW x, Behind(s, x) # <<>>
    PROVE  /\ Behind(s, x)[1] \in S
           /\ \E i \in 1 .. Len(s) : s[i] = Behind(s, x)[1]
           /\ Behind(s, Behind(s, x)[1]) = RemoveFirst(Behind(s, x), Behind(s, x)[1])
<1>1. Len(s) \in Nat
  BY LenProperties
<1>2. PICK k \in 0 .. Len(s) : Stands(s, k, x)
  BY SomePlace
<1>3. PICK w \in Seq(S) : /\ w = Behind(s, x) /\ Len(w) = Len(s) - k
                           /\ \A i \in 1 .. Len(s) - k : w[i] = s[k + i]
  BY <1>2, BehindIs
<1>4. 1 \in 1 .. Len(w) /\ k + 1 \in 1 .. Len(s) /\ w[1] = s[k + 1]
  <2>1. w # <<>>
    BY <1>3
  <2>2. Len(w) \in Nat /\ Len(w) # 0
    BY <2>1, EmptySeq, LenProperties
  <2> QED
    BY <1>1, <1>3, <2>2
<1> PICK e : e = w[1]
  OBVIOUS
<1>5. Stands(s, k + 1, e) /\ k + 1 \in 0 .. Len(s)
  BY <1>1, <1>4 DEF Stands
<1>6. PICK v \in Seq(S) : /\ v = Behind(s, e) /\ Len(v) = Len(s) - (k + 1)
                           /\ \A i \in 1 .. Len(s) - (k + 1) : v[i] = s[(k + 1) + i]
  BY <1>5, BehindIs
<1>7. PICK u \in Seq(S) : /\ u = RemoveFirst(w, e) /\ Len(u) = Len(w) - 1
                           /\ \A i \in 1 .. Len(w) - 1 : u[i] = IF i < 1 THEN w[i] ELSE w[i + 1]
  <2>1. IsInjective(w)
    BY <1>3, BehindElements, Elements
  <2>2. RemoveFirst(w, e) = RemoveAt(w, 1)
    BY <1>4, <2>1, RemoveKnown
  <2> QED
    BY <1>4, <2>2, RemoveAtProperties
<1>8. Len(v) = Len(u)
  BY <1>1, <1>3, <1>6, <1>7
<1>9. ASSUME NEW i \in 1 .. Len(v) PROVE v[i] = u[i]
  <2>1. /\ i \in 1 .. Len(s) - (k + 1) /\ i \in 1 .. Len(w) - 1 /\ i + 1 \in 1 .. Len(s) - k
        /\ (k + 1) + i = k + (i + 1) /\ ~(i < 1)
    BY <1>1, <1>3, <1>6
  <2> QED
    BY <1>3, <1>6, <1>7, <2>1
<1>10. v = u
  BY <1>8, <1>9, SeqEqual
<1>11. e \in S
  BY <1>1, <1>4
<1> QED
  BY <1>3, <1>4, <1>6, <1>7, <1>10, <1>11

-----------------------------------------------------------------------------
(* Lists that are put one behind the other.                                *)
Joining(pieces, n, f) ==
    f = [k \in 0 .. n |-> IF k = 0 THEN <<>> ELSE f[k - 1] \o pieces[k]]

LEMMA JoiningExists ==
    ASSUME NEW pieces, NEW n \in Nat
    PROVE  \E f : Joining(pieces, n, f)
<1> DEFINE S == {m \in Nat : \E f : Joining(pieces, m, f)}
<1>1. 0 \in S
  <2> PICK g : g = [i \in 0 .. 0 |-> <<>>]
    OBVIOUS
  <2>1. Joining(pieces, 0, g)
    BY DEF Joining
  <2> QED
    BY <2>1
<1>2. ASSUME NEW m \in Nat, m \in S
      PROVE  m + 1 \in S
  <2>1. PICK f : Joining(pieces, m, f)
    BY <1>2
  <2>7. PICK x : x = f[m] \o pieces[m + 1]
    OBVIOUS
  <2>0. PICK g : g = [i \in 0 .. m + 1 |-> IF i = m + 1 THEN x ELSE f[i]]
    OBVIOUS
  <2>2. \A i \in 0 .. m : f[i] = IF i = 0 THEN <<>> ELSE f[i - 1] \o pieces[i]
    BY <2>1 DEF Joining
  <2>3. \A i \in 0 .. m : g[i] = f[i]
    BY <2>0
  <2>4. g[m + 1] = x
    <3>1. m + 1 \in 0 .. m + 1
      OBVIOUS
    <3> QED
      BY ONLY <2>0, <3>1
  <2>5. \A i \in 0 .. m + 1 : g[i] = IF i = 0 THEN <<>> ELSE g[i - 1] \o pieces[i]
    <3> TAKE i \in 0 .. m + 1
    <3>1. CASE i = 0
      BY <2>2, <2>3, <3>1
    <3>2. CASE i \in 1 .. m
      <4>1. i \in 0 .. m /\ i - 1 \in 0 .. m /\ i # 0
        BY <3>2
      <4>2. f[i] = f[i - 1] \o pieces[i]
        BY <2>2, <4>1
      <4> QED
        BY <2>3, <4>1, <4>2
    <3>3. CASE i = m + 1
      <4>1. m \in 0 .. m /\ i - 1 = m /\ i # 0
        BY <3>3
      <4>2. g[i - 1] = f[m] /\ g[i] = f[m] \o pieces[i]
        BY <2>3, <2>4, <2>7, <3>3, <4>1
      <4> QED
        BY <4>1, <4>2
    <3> QED
      BY <3>1, <3>2, <3>3
  <2>6. Joining(pieces, m + 1, g)
    BY <2>0, <2>5 DEF Joining
  <2> QED
    BY <2>6
<1> QED
  BY <1>1, <1>2, Induction

(* Where the elements of the whole come from: from what piece, and at what *)
(* place in it.                                                            *)
Places(pieces, n, w, from, at) ==
    /\ \A i \in 1 .. Len(w) :
          /\ from[i] \in 1 .. n /\ at[i] \in 1 .. Len(pieces[from[i]])
          /\ w[i] = pieces[from[i]][at[i]]
    /\ \A i, j \in 1 .. Len(w) : i < j => from[i] < from[j] \/ (from[i] = from[j] /\ at[i] < at[j])
    /\ \A k \in 1 .. n : \A a \in 1 .. Len(pieces[k]) :
          \E i \in 1 .. Len(w) : from[i] = k /\ at[i] = a

LEMMA PlacesConcat ==
    ASSUME NEW S, NEW n \in Nat, NEW pieces, NEW v \in Seq(S), NEW from, NEW at,
           Places(pieces, n, v, from, at), NEW p \in Seq(S), p = pieces[n + 1]
    PROVE  \E g, h : Places(pieces, n + 1, v \o p, g, h)
<1>1. PICK w : w = v \o p
  OBVIOUS
<1>2. /\ Len(v) \in Nat /\ Len(p) \in Nat /\ Len(w) = Len(v) + Len(p)
      /\ \A i \in 1 .. Len(v) : w[i] = v[i]
      /\ \A a \in 1 .. Len(p) : w[Len(v) + a] = p[a]
  <2>1. Len(v) \in Nat /\ Len(p) \in Nat
    BY LenProperties
  <2>2. Len(w) = Len(v) + Len(p) /\ \A i \in 1 .. Len(v) + Len(p) :
           w[i] = IF i <= Len(v) THEN v[i] ELSE p[i - Len(v)]
    BY <1>1, ConcatProperties
  <2> QED
    BY <2>1, <2>2
<1>3. PICK g : g = [i \in 1 .. Len(w) |-> IF i <= Len(v) THEN from[i] ELSE n + 1]
  OBVIOUS
<1>4. PICK h : h = [i \in 1 .. Len(w) |-> IF i <= Len(v) THEN at[i] ELSE i - Len(v)]
  OBVIOUS
<1>5. \A i \in 1 .. Len(v) : i \in 1 .. Len(w) /\ g[i] = from[i] /\ h[i] = at[i]
  BY <1>2, <1>3, <1>4
<1>6. \A a \in 1 .. Len(p) : Len(v) + a \in 1 .. Len(w) /\ g[Len(v) + a] = n + 1 /\ h[Len(v) + a] = a
  BY <1>2, <1>3, <1>4
<1>7. \A i \in 1 .. Len(w) : i \in 1 .. Len(v) \/ (i > Len(v) /\ i - Len(v) \in 1 .. Len(p) /\ i = Len(v) + (i - Len(v)))
  BY <1>2
<1>8. \A i \in 1 .. Len(v) :
         /\ from[i] \in 1 .. n /\ at[i] \in 1 .. Len(pieces[from[i]]) /\ v[i] = pieces[from[i]][at[i]]
  BY DEF Places
<1>9. \A i \in 1 .. Len(w) :
         /\ g[i] \in 1 .. n + 1 /\ h[i] \in 1 .. Len(pieces[g[i]])
         /\ w[i] = pieces[g[i]][h[i]]
  <2> TAKE i \in 1 .. Len(w)
  <2>1. CASE i \in 1 .. Len(v)
    <3>1. g[i] = from[i] /\ h[i] = at[i] /\ w[i] = v[i]
      BY <1>2, <1>5, <2>1
    <3>2. from[i] \in 1 .. n + 1
      BY <1>8, <2>1
    <3> QED
      BY <1>8, <2>1, <3>1, <3>2
  <2>2. CASE i > Len(v)
    <3>1. PICK a \in 1 .. Len(p) : i = Len(v) + a
      <4>1. i - Len(v) \in 1 .. Len(p) /\ i = Len(v) + (i - Len(v))
        BY <1>2, <2>2
      <4> QED
        BY <4>1
    <3>2. g[i] = n + 1 /\ h[i] = a /\ w[i] = p[a]
      BY <1>2, <1>6, <3>1
    <3> QED
      BY <3>1, <3>2
  <2> QED
    BY <1>7, <2>1, <2>2
<1>10. ASSUME NEW i \in 1 .. Len(w), NEW j \in 1 .. Len(w), i < j
       PROVE  g[i] < g[j] \/ (g[i] = g[j] /\ h[i] < h[j])
  <2>1. CASE j \in 1 .. Len(v)
    <3>1. i \in 1 .. Len(v)
      BY <1>2, <1>10, <2>1
    <3> QED
      BY <1>5, <1>10, <2>1, <3>1 DEF Places
  <2>2. CASE i \in 1 .. Len(v) /\ j > Len(v)
    <3>1. g[j] = n + 1
      BY <1>3, <2>2
    <3>2. g[i] \in 1 .. n
      BY <1>5, <1>8, <2>2
    <3> QED
      BY <3>1, <3>2
  <2>3. CASE i > Len(v) /\ j > Len(v)
    BY <1>2, <1>3, <1>4, <1>10, <2>3
  <2> QED
    BY <1>7, <2>1, <2>2, <2>3
<1>11. ASSUME NEW k \in 1 .. n + 1, NEW a \in 1 .. Len(pieces[k])
       PROVE  \E i \in 1 .. Len(w) : g[i] = k /\ h[i] = a
  <2>1. CASE k \in 1 .. n
    <3>1. PICK i \in 1 .. Len(v) : from[i] = k /\ at[i] = a
      BY <2>1 DEF Places
    <3> QED
      BY <1>5, <3>1
  <2>2. CASE k = n + 1
    <3>1. a \in 1 .. Len(p)
      BY <2>2
    <3> QED
      BY <1>6, <2>2, <3>1
  <2> QED
    BY <2>1, <2>2
<1>12. Places(pieces, n + 1, w, g, h)
  BY ONLY <1>9, <1>10, <1>11 DEF Places
<1> QED
  BY <1>1, <1>12

LEMMA JoinedPlaces ==
    ASSUME NEW S, NEW pieces \in Seq(Seq(S))
    PROVE  /\ Joined(pieces) \in Seq(S)
           /\ \E from, at : Places(pieces, Len(pieces), Joined(pieces), from, at)
<1>1. Len(pieces) \in Nat /\ \A k \in 1 .. Len(pieces) : pieces[k] \in Seq(S)
  BY LenProperties
<1> DEFINE f == CHOOSE g : Joining(pieces, Len(pieces), g)
<1>2. Joining(pieces, Len(pieces), f)
  BY <1>1, JoiningExists
<1>3. Joined(pieces) = f[Len(pieces)]
  BY DEF Joined, Joining
<1>4. f[0] = <<>> /\ \A k \in 1 .. Len(pieces) : f[k] = f[k - 1] \o pieces[k]
  <2>1. \A k \in 0 .. Len(pieces) : f[k] = IF k = 0 THEN <<>> ELSE f[k - 1] \o pieces[k]
    BY <1>2 DEF Joining
  <2>2. 0 \in 0 .. Len(pieces) /\ \A k \in 1 .. Len(pieces) : k \in 0 .. Len(pieces) /\ k # 0
    BY <1>1
  <2> QED
    BY <2>1, <2>2
<1> HIDE DEF f
<1> DEFINE T == {n \in Nat : n <= Len(pieces) =>
                    f[n] \in Seq(S) /\ \E from, at : Places(pieces, n, f[n], from, at)}
<1>5. 0 \in T
  <2>1. PICK w : w = <<>>
    OBVIOUS
  <2>2. w \in Seq(S) /\ Len(w) = 0
    BY <2>1
  <2>3. Places(pieces, 0, w, w, w)
    BY <2>2 DEF Places
  <2> QED
    BY <1>4, <2>1, <2>2, <2>3
<1>6. ASSUME NEW n \in Nat, n \in T PROVE n + 1 \in T
  <2> SUFFICES ASSUME n + 1 <= Len(pieces)
               PROVE  f[n + 1] \in Seq(S) /\ \E from, at : Places(pieces, n + 1, f[n + 1], from, at)
    OBVIOUS
  <2>1. n <= Len(pieces) /\ n + 1 \in 1 .. Len(pieces) /\ (n + 1) - 1 = n
    BY <1>1
  <2>2. f[n] \in Seq(S) /\ \E from, at : Places(pieces, n, f[n], from, at)
    BY <1>6, <2>1
  <2>3. PICK from, at : Places(pieces, n, f[n], from, at)
    BY <2>2
  <2>4. f[n + 1] = f[n] \o pieces[n + 1] /\ pieces[n + 1] \in Seq(S)
    BY <1>1, <1>4, <2>1
  <2>5. PICK p : p = pieces[n + 1]
    OBVIOUS
  <2>6. \E g, h : Places(pieces, n + 1, f[n] \o p, g, h)
    BY <2>2, <2>3, <2>4, <2>5, PlacesConcat
  <2>7. f[n] \o p \in Seq(S)
    BY <2>2, <2>4, <2>5, ConcatProperties
  <2> QED
    BY <2>4, <2>5, <2>6, <2>7
<1>7. Len(pieces) \in T
  BY <1>1, <1>5, <1>6, Induction
<1> QED
  BY <1>1, <1>3, <1>7

(* A list of one element.                                                  *)
LEMMA OneElement ==
    ASSUME NEW S, NEW e \in S
    PROVE  <<e>> \in Seq(S) /\ Range(<<e>>) = {e}
<1> PICK u : u = <<e>>
  OBVIOUS
<1>1. u \in Seq(S) /\ Range(u) = {e}
  BY DEF Range
<1> QED
  BY <1>1

(* The elements of a list are its first and those behind it.               *)
LEMMA TailCovers ==
    ASSUME NEW S, NEW s \in Seq(S), s # <<>>
    PROVE  /\ Tail(s) \in Seq(S) /\ Head(s) \in Range(s) /\ Len(Tail(s)) = Len(s) - 1
           /\ Range(s) \subseteq {Head(s)} \cup Range(Tail(s))
<1>1. /\ Len(s) \in Nat \ {0} /\ \A x : x \in Range(s) <=> \E i \in 1 .. Len(s) : s[i] = x
  BY LenProperties, EmptySeq, Elements
<1>2. /\ Head(s) = s[1] /\ Tail(s) \in Seq(S) /\ Len(Tail(s)) = Len(s) - 1
      /\ \A i \in 1 .. Len(Tail(s)) : Tail(s)[i] = s[i + 1]
  BY HeadTailProperties
<1>3. PICK t : t = Tail(s)
  OBVIOUS
<1>4. t \in Seq(S)
  BY <1>2, <1>3
<1>5. \A x : x \in Range(t) <=> \E i \in 1 .. Len(t) : t[i] = x
  BY ONLY <1>4, Elements
<1>6. ASSUME NEW x \in Range(s), x # Head(s) PROVE x \in Range(t)
  <2>1. PICK i \in 1 .. Len(s) : s[i] = x
    BY <1>1
  <2>2. i # 1
    BY <1>2, <1>6, <2>1
  <2>3. i - 1 \in 1 .. Len(t) /\ (i - 1) + 1 = i
    BY <1>1, <1>2, <1>3, <2>1, <2>2
  <2>4. t[i - 1] = x
    BY <1>2, <1>3, <2>1, <2>3
  <2> QED
    BY <1>5, <2>3, <2>4
<1>7. Head(s) \in Range(s)
  BY <1>1, <1>2
<1> QED
  BY <1>2, <1>3, <1>6, <1>7
=============================================================================
