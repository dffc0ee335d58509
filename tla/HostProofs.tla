------------------------------ MODULE HostProofs ------------------------------
(***************************************************************************)
(* The services of the boot services host.                                 *)
(*                                                                         *)
(* The memory and the I/O map tile their spaces, are merged, are searched  *)
(* as they should be, and implement AddressSpace, for every size of the    *)
(* spaces and any number of calls.  A part of a map is compared with a     *)
(* picture, a function that gives every address the state of the entry     *)
(* that covers it.  Splitting changes the picture inside the range only,   *)
(* and merging does not change it.                                         *)
(*                                                                         *)
(* The list of variables implements a value for each name.  A name is in   *)
(* the list once, so that its value is what its variable means: the set of *)
(* its signatures, or its bytes.                                           *)
(***************************************************************************)
EXTENDS GcdMap, VariableStore, ListLemmas

-----------------------------------------------------------------------------
(* Entries, and parts of a map. *)

Kinds == MemoryKinds \cup IoKinds \cup {NonExistent}
Bits == (UNION BitSets) \cup {RuntimeBit, PortIoBit}
AnyOwner == Owners \cup {CoreOwner, NoOwner}
CellType ==
    [kind : Kinds, capabilities : SUBSET Bits, attributes : SUBSET Bits, owner : AnyOwner]
EntryType ==
    [base : Nat, end : Nat,
     kind : Kinds, capabilities : SUBSET Bits, attributes : SUBSET Bits, owner : AnyOwner]

(* What an entry says of its addresses.                                    *)
CellOf(entry) ==
    [kind |-> entry.kind, capabilities |-> entry.capabilities,
     attributes |-> entry.attributes, owner |-> entry.owner]

LEMMA SameCells ==
    ASSUME NEW e \in EntryType, NEW f \in EntryType
    PROVE  SameState(e, f) <=> CellOf(e) = CellOf(f)
BY DEF SameState, CellOf

(* Entries that follow each other from lo up to hi.                        *)
Tiled(m, lo, hi) ==
    /\ m \in Seq(EntryType)
    /\ IF m = <<>> THEN lo = hi ELSE m[1].base = lo /\ m[Len(m)].end + 1 = hi
    /\ \A i \in 1 .. Len(m) :
          m[i].base <= m[i].end /\ (i < Len(m) => m[i + 1].base = m[i].end + 1)

(* They give the addresses the states that f does.                         *)
Draws(m, f, lo, hi) ==
    /\ Tiled(m, lo, hi)
    /\ \A i \in 1 .. Len(m) : \A a \in m[i].base .. m[i].end : f[a] = CellOf(m[i])

LEMMA Typed ==
    ASSUME NEW m, NEW lo, NEW hi, Tiled(m, lo, hi)
    PROVE  /\ Len(m) \in Nat
           /\ m = <<>> <=> Len(m) = 0
           /\ \A i \in 1 .. Len(m) :
                 m[i] \in EntryType /\ m[i].base \in Nat /\ m[i].end \in Nat
<1>1. m \in Seq(EntryType)
  BY DEF Tiled
<1>2. \A i \in 1 .. Len(m) : m[i] \in EntryType
  BY <1>1
<1> QED
  BY <1>1, <1>2 DEF EntryType

(* Entries lie in their order.                                             *)
LEMMA Rises ==
    ASSUME NEW m, NEW lo, NEW hi, Tiled(m, lo, hi),
           NEW i \in 1 .. Len(m), NEW j \in 1 .. Len(m), i < j
    PROVE  m[i].end < m[j].base
<1> DEFINE P(n) == \A k \in 1 .. Len(m) : k = i + n + 1 => m[i].end < m[k].base
           S == {n \in Nat : P(n)}
<1>1. /\ Len(m) \in Nat
      /\ \A k \in 1 .. Len(m) : m[k].base \in Nat /\ m[k].end \in Nat
      /\ \A k \in 1 .. Len(m) :
            m[k].base <= m[k].end /\ (k < Len(m) => m[k + 1].base = m[k].end + 1)
  BY Typed DEF Tiled
<1>2. 0 \in S
  <2> SUFFICES ASSUME NEW k \in 1 .. Len(m), k = i + 0 + 1 PROVE m[i].end < m[k].base
    OBVIOUS
  <2>1. k = i + 1 /\ i < Len(m)
    BY <1>1
  <2>2. m[k].base = m[i].end + 1
    BY <1>1, <2>1
  <2> QED
    BY <1>1, <2>2
<1>3. ASSUME NEW n \in Nat, P(n) PROVE P(n + 1)
  <2> SUFFICES ASSUME NEW k \in 1 .. Len(m), k = i + (n + 1) + 1 PROVE m[i].end < m[k].base
    OBVIOUS
  <2>1. PICK h \in 1 .. Len(m) : h = i + n + 1 /\ k = h + 1 /\ h < Len(m)
    BY <1>1
  <2>2. m[i].end < m[h].base
    BY <1>3, <2>1
  <2>3. m[h + 1].base = m[h].end + 1
    BY <1>1, <2>1
  <2>4. m[i].end \in Nat /\ m[h].base <= m[h].end
        /\ m[k].base \in Nat /\ m[h].end \in Nat /\ m[h].base \in Nat
    BY <1>1, <2>1
  <2> QED
    BY <2>1, <2>2, <2>3, <2>4
<1>4. Nat \subseteq S
  <2>1. \A n \in Nat : n \in S => n + 1 \in S
    <3> HIDE DEF P
    <3> QED
      BY <1>3
  <2> HIDE DEF S
  <2> QED
    BY <1>2, <2>1, Induction
<1>5. PICK n \in Nat : n = j - i - 1
  BY <1>1
<1>6. \A k \in 1 .. Len(m) : k = i + n + 1 => m[i].end < m[k].base
  BY <1>4, <1>5
<1>7. j = i + n + 1
  BY <1>1, <1>5
<1> QED
  BY <1>6, <1>7

(* They lie between lo and hi.                                             *)
LEMMA Bounded ==
    ASSUME NEW m, NEW lo \in Nat, NEW hi \in Nat, Tiled(m, lo, hi)
    PROVE  /\ lo <= hi
           /\ \A i \in 1 .. Len(m) : lo <= m[i].base /\ m[i].end < hi
<1>1. /\ Len(m) \in Nat
      /\ m = <<>> <=> Len(m) = 0
      /\ \A i \in 1 .. Len(m) : m[i].base \in Nat /\ m[i].end \in Nat /\ m[i].base <= m[i].end
  BY Typed DEF Tiled
<1>2. CASE m = <<>>
  BY <1>1, <1>2 DEF Tiled
<1>3. CASE m # <<>>
  <2>1. m[1].base = lo /\ m[Len(m)].end + 1 = hi /\ 1 \in 1 .. Len(m) /\ Len(m) \in 1 .. Len(m)
    BY <1>1, <1>3 DEF Tiled
  <2>2. \A i \in 1 .. Len(m) : lo <= m[i].base
    <3> SUFFICES ASSUME NEW i \in 1 .. Len(m) PROVE lo <= m[i].base
      OBVIOUS
    <3>1. 1 < i => m[1].end < m[i].base
      BY <2>1, Rises
    <3> QED
      BY <1>1, <2>1, <3>1
  <2>3. \A i \in 1 .. Len(m) : m[i].end < hi
    <3> SUFFICES ASSUME NEW i \in 1 .. Len(m) PROVE m[i].end < hi
      OBVIOUS
    <3>1. i < Len(m) => m[i].end < m[Len(m)].base
      BY <2>1, Rises
    <3> QED
      BY <1>1, <2>1, <3>1
  <2> QED
    BY <1>1, <2>1, <2>2, <2>3
<1> QED
  BY <1>2, <1>3

(* Every address in between is in one of them.                             *)
LEMMA Covered ==
    ASSUME NEW m, NEW lo \in Nat, NEW hi \in Nat, Tiled(m, lo, hi), NEW a \in Nat
    PROVE  /\ lo <= a /\ a < hi => \E i \in 1 .. Len(m) : Covers(m[i], a)
           /\ \A i, j \in 1 .. Len(m) : Covers(m[i], a) /\ Covers(m[j], a) => i = j
           /\ \A i \in 1 .. Len(m) : Covers(m[i], a) => lo <= a /\ a < hi
<1>1. /\ Len(m) \in Nat
      /\ m = <<>> <=> Len(m) = 0
      /\ \A i \in 1 .. Len(m) : m[i].base \in Nat /\ m[i].end \in Nat /\ m[i].base <= m[i].end
  BY Typed DEF Tiled
<1>2. ASSUME lo <= a, a < hi
      PROVE  \E i \in 1 .. Len(m) : Covers(m[i], a)
  <2> DEFINE E == {i \in 1 .. Len(m) : a <= m[i].end}
  <2>1. m # <<>> /\ Len(m) \in 1 .. Len(m) /\ m[Len(m)].end + 1 = hi /\ m[1].base = lo
    BY <1>1, <1>2 DEF Tiled
  <2>2. Len(m) \in E
    BY <1>1, <1>2, <2>1
  <2>3. E \subseteq Nat /\ E # {}
    BY <1>1, <2>2
  <2>4. PICK k : k \in E /\ \A y \in E : k <= y
    <3> HIDE DEF E
    <3> QED
      BY <2>3, Minimum
  <2>5. CASE k = 1
    BY <1>1, <1>2, <2>1, <2>4, <2>5 DEF Covers
  <2>6. CASE k # 1
    <3>1. k - 1 \in 1 .. Len(m) /\ k - 1 \notin E
      BY <1>1, <2>4, <2>6
    <3>2. m[k].base = m[k - 1].end + 1
      BY <1>1, <3>1, <2>4 DEF Tiled
    <3> QED
      BY <1>1, <2>4, <3>1, <3>2 DEF Covers
  <2> QED
    BY <2>5, <2>6
<1>3. ASSUME NEW i \in 1 .. Len(m), NEW j \in 1 .. Len(m), Covers(m[i], a), Covers(m[j], a)
      PROVE  i = j
  <2>1. i < j => m[i].end < m[j].base
    BY Rises
  <2>2. j < i => m[j].end < m[i].base
    BY Rises
  <2> QED
    BY <1>1, <1>3, <2>1, <2>2 DEF Covers
<1>4. \A i \in 1 .. Len(m) : Covers(m[i], a) => lo <= a /\ a < hi
  BY <1>1, Bounded DEF Covers
<1> QED
  BY <1>2, <1>3, <1>4

(* Other states elsewhere do not matter.                                   *)
LEMMA Redrawn ==
    ASSUME NEW m, NEW f, NEW g, NEW lo \in Nat, NEW hi \in Nat, Draws(m, f, lo, hi),
           \A a \in Nat : lo <= a /\ a < hi => g[a] = f[a]
    PROVE  Draws(m, g, lo, hi)
<1>1. Tiled(m, lo, hi)
  BY DEF Draws
<1> SUFFICES ASSUME NEW i \in 1 .. Len(m), NEW a \in m[i].base .. m[i].end
             PROVE  g[a] = CellOf(m[i])
  BY <1>1 DEF Draws
<1>2. m[i].base \in Nat /\ m[i].end \in Nat /\ lo <= m[i].base /\ m[i].end < hi
  BY <1>1, Typed, Bounded
<1>3. a \in Nat /\ lo <= a /\ a < hi
  BY <1>2
<1>4. f[a] = CellOf(m[i])
  BY DEF Draws
<1> QED
  BY <1>3, <1>4

(* One entry.                                                              *)
LEMMA Single ==
    ASSUME NEW e \in EntryType, NEW f, e.base <= e.end,
           \A a \in e.base .. e.end : f[a] = CellOf(e)
    PROVE  Draws(<<e>>, f, e.base, e.end + 1) /\ Len(<<e>>) = 1
<1> DEFINE m == <<e>>
<1>1. m \in Seq(EntryType) /\ Len(m) = 1 /\ m[1] = e /\ m # <<>>
  OBVIOUS
<1> HIDE DEF m
<1>2. Tiled(m, e.base, e.end + 1)
  BY <1>1 DEF Tiled
<1>3. Draws(m, f, e.base, e.end + 1) /\ Len(m) = 1
  BY <1>1, <1>2 DEF Draws
<1> QED
  BY <1>3 DEF m

LEMMA Nothing ==
    ASSUME NEW f, NEW lo
    PROVE  Draws(<<>>, f, lo, lo)
<1>1. <<>> \in Seq(EntryType) /\ Len(<<>>) = 0
  OBVIOUS
<1> QED
  BY <1>1 DEF Draws, Tiled

(* Parts that follow each other.                                           *)
LEMMA Joins ==
    ASSUME NEW m, NEW n, NEW f, NEW lo, NEW mid, NEW hi,
           Draws(m, f, lo, mid), Draws(n, f, mid, hi)
    PROVE  /\ Draws(m \o n, f, lo, hi)
           /\ Len(m \o n) = Len(m) + Len(n)
           /\ \A i \in 1 .. Len(m) : (m \o n)[i] = m[i]
           /\ \A i \in 1 .. Len(n) : (m \o n)[Len(m) + i] = n[i]
<1>1. Tiled(m, lo, mid) /\ Tiled(n, mid, hi) /\ m \in Seq(EntryType) /\ n \in Seq(EntryType)
  BY DEF Draws, Tiled
<1>2. PICK p : p = m \o n
  OBVIOUS
<1>3. /\ p \in Seq(EntryType)
      /\ Len(p) = Len(m) + Len(n) /\ Len(m) \in Nat /\ Len(n) \in Nat /\ Len(p) \in Nat
      /\ \A i \in 1 .. Len(p) : p[i] = IF i <= Len(m) THEN m[i] ELSE n[i - Len(m)]
  BY <1>1, <1>2, ConcatProperties, LenProperties
<1>4. /\ \A i \in 1 .. Len(m) : p[i] = m[i]
      /\ \A i \in 1 .. Len(n) : p[Len(m) + i] = n[i]
  BY <1>3
<1>5. /\ m = <<>> <=> Len(m) = 0
      /\ n = <<>> <=> Len(n) = 0
      /\ p = <<>> <=> Len(p) = 0
  BY <1>1, <1>3, EmptySeq
<1>6. IF p = <<>> THEN lo = hi ELSE p[1].base = lo /\ p[Len(p)].end + 1 = hi
  <2>1. IF m = <<>> THEN lo = mid ELSE m[1].base = lo /\ m[Len(m)].end + 1 = mid
    BY <1>1 DEF Tiled
  <2>2. IF n = <<>> THEN mid = hi ELSE n[1].base = mid /\ n[Len(n)].end + 1 = hi
    BY <1>1 DEF Tiled
  <2>3. CASE m = <<>> /\ n = <<>>
    BY <1>3, <1>5, <2>1, <2>2, <2>3
  <2>4. CASE m = <<>> /\ n # <<>>
    <3>1. p[1] = n[1] /\ p[Len(p)] = n[Len(n)] /\ p # <<>>
      BY <1>3, <1>5, <2>4
    <3> QED
      BY <2>1, <2>2, <2>4, <3>1
  <2>5. CASE m # <<>> /\ n = <<>>
    <3>1. p[1] = m[1] /\ p[Len(p)] = m[Len(m)] /\ p # <<>>
      BY <1>3, <1>5, <2>5
    <3> QED
      BY <2>1, <2>2, <2>5, <3>1
  <2>6. CASE m # <<>> /\ n # <<>>
    <3>1. p[1] = m[1] /\ p[Len(p)] = n[Len(n)] /\ p # <<>>
      BY <1>3, <1>5, <2>6
    <3> QED
      BY <2>1, <2>2, <2>6, <3>1
  <2> QED
    BY <2>3, <2>4, <2>5, <2>6
<1>7. \A i \in 1 .. Len(p) :
         p[i].base <= p[i].end /\ (i < Len(p) => p[i + 1].base = p[i].end + 1)
  <2> SUFFICES ASSUME NEW i \in 1 .. Len(p)
               PROVE  p[i].base <= p[i].end /\ (i < Len(p) => p[i + 1].base = p[i].end + 1)
    OBVIOUS
  <2>1. CASE i < Len(m)
    <3>1. p[i] = m[i] /\ p[i + 1] = m[i + 1] /\ i \in 1 .. Len(m)
      BY <1>3, <2>1
    <3> QED
      BY <1>1, <2>1, <3>1 DEF Tiled
  <2>2. CASE i = Len(m)
    <3>1. p[i] = m[i] /\ i \in 1 .. Len(m) /\ (i < Len(p) => p[i + 1] = n[1] /\ n # <<>>)
      BY <1>3, <1>5, <2>2
    <3> QED
      BY <1>1, <1>5, <2>2, <3>1 DEF Tiled
  <2>3. CASE i > Len(m)
    <3>1. PICK j \in 1 .. Len(n) : i = Len(m) + j
      BY <1>3, <2>3
    <3>2. p[i] = n[j] /\ (i < Len(p) => j < Len(n) /\ p[i + 1] = n[j + 1])
      BY <1>3, <3>1
    <3> QED
      BY <1>1, <3>2 DEF Tiled
  <2> QED
    BY <1>3, <2>1, <2>2, <2>3
<1>8. \A i \in 1 .. Len(p) : \A a \in p[i].base .. p[i].end : f[a] = CellOf(p[i])
  <2> SUFFICES ASSUME NEW i \in 1 .. Len(p), NEW a \in p[i].base .. p[i].end PROVE f[a] = CellOf(p[i])
    OBVIOUS
  <2>1. CASE i <= Len(m)
    <3>1. p[i] = m[i] /\ i \in 1 .. Len(m)
      BY <1>3, <2>1
    <3> QED
      BY <3>1 DEF Draws
  <2>2. CASE i > Len(m)
    <3>1. PICK j \in 1 .. Len(n) : i = Len(m) + j
      BY <1>3, <2>2
    <3>2. p[i] = n[j]
      BY <1>4, <3>1
    <3> QED
      BY <3>2 DEF Draws
  <2> QED
    BY <1>3, <2>1, <2>2
<1> QED
  BY <1>2, <1>3, <1>4, <1>6, <1>7, <1>8 DEF Draws, Tiled

-----------------------------------------------------------------------------
(* A map cut in two.                                                       *)
Mid(m, lo, k) == IF k = 0 THEN lo ELSE m[k].end + 1

LEMMA Cuts ==
    ASSUME NEW S, NEW s \in Seq(S), NEW k \in 0 .. Len(s)
    PROVE  /\ SubSeq(s, 1, k) \in Seq(S) /\ Len(SubSeq(s, 1, k)) = k
           /\ \A i \in 1 .. k : SubSeq(s, 1, k)[i] = s[i]
           /\ SubSeq(s, k + 1, Len(s)) \in Seq(S) /\ Len(SubSeq(s, k + 1, Len(s))) = Len(s) - k
           /\ \A i \in 1 .. Len(s) - k : SubSeq(s, k + 1, Len(s))[i] = s[k + i]
<1>1. Len(s) \in Nat /\ \A i \in 1 .. Len(s) : s[i] \in S
  BY LenProperties
<1> QED
  BY <1>1

LEMMA Parts ==
    ASSUME NEW m, NEW f, NEW lo, NEW hi, Draws(m, f, lo, hi), NEW k \in 0 .. Len(m)
    PROVE  /\ Draws(SubSeq(m, 1, k), f, lo, Mid(m, lo, k))
           /\ Draws(SubSeq(m, k + 1, Len(m)), f, Mid(m, lo, k), hi)
<1>1. Tiled(m, lo, hi) /\ m \in Seq(EntryType) /\ Len(m) \in Nat
  BY Typed DEF Draws, Tiled
<1>2. PICK p : p = SubSeq(m, 1, k)
  OBVIOUS
<1>3. PICK q : q = SubSeq(m, k + 1, Len(m))
  OBVIOUS
<1>4. /\ p \in Seq(EntryType) /\ Len(p) = k /\ \A i \in 1 .. k : p[i] = m[i]
      /\ q \in Seq(EntryType) /\ Len(q) = Len(m) - k /\ \A i \in 1 .. Len(m) - k : q[i] = m[k + i]
  BY <1>1, <1>2, <1>3, Cuts
<1>5. /\ m = <<>> <=> Len(m) = 0
      /\ p = <<>> <=> Len(p) = 0
      /\ q = <<>> <=> Len(q) = 0
  BY <1>1, <1>4, EmptySeq
<1>6. Tiled(p, lo, Mid(m, lo, k))
  <2>1. \A i \in 1 .. Len(p) :
           p[i].base <= p[i].end /\ (i < Len(p) => p[i + 1].base = p[i].end + 1)
    <3> SUFFICES ASSUME NEW i \in 1 .. Len(p)
                 PROVE  p[i].base <= p[i].end /\ (i < Len(p) => p[i + 1].base = p[i].end + 1)
      OBVIOUS
    <3>1. i \in 1 .. Len(m) /\ p[i] = m[i] /\ (i < Len(p) => i < Len(m) /\ p[i + 1] = m[i + 1])
      BY <1>1, <1>4
    <3> QED
      BY <1>1, <3>1 DEF Tiled
  <2>2. IF p = <<>> THEN lo = Mid(m, lo, k)
        ELSE p[1].base = lo /\ p[Len(p)].end + 1 = Mid(m, lo, k)
    BY <1>1, <1>4, <1>5 DEF Tiled, Mid
  <2> QED
    BY <1>4, <2>1, <2>2 DEF Tiled
<1>7. Tiled(q, Mid(m, lo, k), hi)
  <2>1. \A i \in 1 .. Len(q) :
           q[i].base <= q[i].end /\ (i < Len(q) => q[i + 1].base = q[i].end + 1)
    <3> SUFFICES ASSUME NEW i \in 1 .. Len(q)
                 PROVE  q[i].base <= q[i].end /\ (i < Len(q) => q[i + 1].base = q[i].end + 1)
      OBVIOUS
    <3>1. PICK j \in 1 .. Len(m) : j = k + i
      BY <1>1, <1>4
    <3>2. q[i] = m[j] /\ (i < Len(q) => j < Len(m) /\ q[i + 1] = m[j + 1])
      <4>1. i \in Nat /\ j \in Nat /\ i \in 1 .. Len(m) - k
        BY <1>1, <1>4, <3>1
      <4>2. i < Len(q) => i + 1 \in 1 .. Len(m) - k /\ k + (i + 1) = j + 1 /\ j < Len(m)
        BY <1>1, <1>4, <3>1
      <4> QED
        BY <1>4, <3>1, <4>1, <4>2
    <3> QED
      BY <1>1, <3>2 DEF Tiled
  <2>2. IF q = <<>> THEN Mid(m, lo, k) = hi
        ELSE q[1].base = Mid(m, lo, k) /\ q[Len(q)].end + 1 = hi
    <3>1. CASE k = Len(m)
      BY <1>1, <1>4, <1>5, <3>1 DEF Tiled, Mid
    <3>2. CASE k < Len(m)
      <4>1. q[1] = m[k + 1] /\ q[Len(q)] = m[Len(m)] /\ q # <<>> /\ m # <<>>
        <5>1. /\ 1 \in 1 .. Len(m) - k /\ Len(q) \in 1 .. Len(m) - k
              /\ k + Len(q) = Len(m) /\ Len(m) # 0
          BY <1>1, <1>4, <3>2
        <5>2. q[1] = m[k + 1] /\ q[Len(q)] = m[k + Len(q)]
          BY <1>4, <5>1
        <5> QED
          BY <1>4, <1>5, <5>1, <5>2
      <4>2. m[k + 1].base = Mid(m, lo, k)
        <5>1. CASE k = 0
          BY <1>1, <4>1, <5>1 DEF Tiled, Mid
        <5>2. CASE k # 0
          <6>1. k \in 1 .. Len(m)
            BY <1>1, <5>2
          <6>2. m[k + 1].base = m[k].end + 1
            BY <1>1, <3>2, <6>1 DEF Tiled
          <6> QED
            BY <5>2, <6>2 DEF Mid
        <5> QED
          BY <5>1, <5>2
      <4> QED
        BY <1>1, <4>1, <4>2 DEF Tiled
    <3> QED
      BY <1>1, <3>1, <3>2
  <2> QED
    BY <1>4, <2>1, <2>2 DEF Tiled
<1>8. \A i \in 1 .. Len(p) : \A a \in p[i].base .. p[i].end : f[a] = CellOf(p[i])
  <2>1. \A i \in 1 .. Len(p) : i \in 1 .. Len(m) /\ p[i] = m[i]
    BY <1>1, <1>4
  <2>2. \A i \in 1 .. Len(m) : \A a \in m[i].base .. m[i].end : f[a] = CellOf(m[i])
    BY DEF Draws
  <2> QED
    BY <2>1, <2>2
<1>9. \A i \in 1 .. Len(q) : \A a \in q[i].base .. q[i].end : f[a] = CellOf(q[i])
  <2> SUFFICES ASSUME NEW i \in 1 .. Len(q), NEW a \in q[i].base .. q[i].end PROVE f[a] = CellOf(q[i])
    OBVIOUS
  <2>1. PICK j \in 1 .. Len(m) : j = k + i
    BY <1>1, <1>4
  <2>2. q[i] = m[j]
    BY <1>4, <2>1
  <2> QED
    BY <2>2 DEF Draws
<1> QED
  BY <1>2, <1>3, <1>6, <1>7, <1>8, <1>9 DEF Draws

-----------------------------------------------------------------------------
(* What a map says of each address. *)

LEMMA Greatest ==
    ASSUME NEW S, S \subseteq Int, NEW x \in S, \A y \in S : y <= x
    PROVE  Max(S) = x
<1>1. Max(S) \in S /\ \A y \in S : Max(S) >= y
  <2>1. \E z \in S : \A y \in S : z >= y
    OBVIOUS
  <2> QED
    BY <2>1 DEF Max
<1>2. Max(S) \in Int /\ x \in Int /\ Max(S) >= x /\ Max(S) <= x
  BY <1>1
<1> QED
  BY <1>2

LEMMA Least ==
    ASSUME NEW S, S \subseteq Int, NEW x \in S, \A y \in S : x <= y
    PROVE  Min(S) = x
<1>1. Min(S) \in S /\ \A y \in S : Min(S) <= y
  <2>1. \E z \in S : \A y \in S : z <= y
    OBVIOUS
  <2> QED
    BY <2>1 DEF Min
<1>2. Min(S) \in Int /\ x \in Int /\ Min(S) <= x /\ x <= Min(S)
  BY <1>1
<1> QED
  BY <1>2

LEMMA CellAt ==
    ASSUME NEW m, NEW size \in Nat, Tiled(m, 0, size),
           NEW i \in 1 .. Len(m), NEW a \in 0 .. size - 1, Covers(m[i], a)
    PROVE  Cells(m, size)[a] = CellOf(m[i])
<1> DEFINE S == {j \in 1 .. Len(m) : m[j].base <= a}
<1>1. /\ Len(m) \in Nat
      /\ \A j \in 1 .. Len(m) : m[j].base \in Nat /\ m[j].end \in Nat
  BY Typed
<1>2. i \in S /\ S \subseteq Int
  BY <1>1 DEF Covers
<1>3. \A j \in S : j <= i
  <2> SUFFICES ASSUME NEW j \in S, i < j PROVE FALSE
    BY <1>1
  <2>1. m[i].end < m[j].base
    BY Rises
  <2> QED
    BY <1>1, <2>1 DEF Covers
<1>4. Max(S) = i
  <2> HIDE DEF S
  <2> QED
    BY <1>2, <1>3, Greatest
<1> QED
  BY <1>4 DEF Cells, CellOf

LEMMA Pictured ==
    ASSUME NEW m, NEW size \in Nat, Tiled(m, 0, size)
    PROVE  Draws(m, Cells(m, size), 0, size)
<1> SUFFICES ASSUME NEW i \in 1 .. Len(m), NEW a \in m[i].base .. m[i].end
             PROVE  Cells(m, size)[a] = CellOf(m[i])
  BY DEF Draws
<1>1. m[i].base \in Nat /\ m[i].end \in Nat /\ m[i].end < size
  BY Typed, Bounded
<1>2. a \in 0 .. size - 1 /\ Covers(m[i], a)
  BY <1>1 DEF Covers
<1> QED
  BY <1>2, CellAt

LEMMA PictureOf ==
    ASSUME NEW m, NEW size \in Nat, NEW f, Draws(m, f, 0, size)
    PROVE  Cells(m, size) = [a \in 0 .. size - 1 |-> f[a]]
<1>1. Tiled(m, 0, size)
  BY DEF Draws
<1>2. ASSUME NEW a \in 0 .. size - 1
      PROVE  Cells(m, size)[a] = f[a]
  <2>1. PICK i \in 1 .. Len(m) : Covers(m[i], a)
    BY <1>1, Covered
  <2>2. m[i].base \in Nat /\ m[i].end \in Nat
    BY <1>1, Typed
  <2>3. a \in m[i].base .. m[i].end
    BY <2>1, <2>2 DEF Covers
  <2>4. f[a] = CellOf(m[i])
    BY <2>3 DEF Draws
  <2>5. Cells(m, size)[a] = CellOf(m[i])
    BY <1>1, <2>1, CellAt
  <2> QED
    BY <2>4, <2>5
<1>3. DOMAIN Cells(m, size) = 0 .. size - 1 /\ Cells(m, size) = [a \in 0 .. size - 1 |-> Cells(m, size)[a]]
  BY DEF Cells
<1> QED
  BY <1>2, <1>3

-----------------------------------------------------------------------------
(* The search for the entries of a range. *)

(* The range is given by its base and length as the services take them.    *)
Sized(size) == size \in Nat \ {0} /\ 2 * size <= Width

LEMMA Spaces == Sized(MemorySize) /\ Sized(IoSize) /\ Width \in Nat
BY GcdAssumption DEF Sized

LEMMA EndOf ==
    ASSUME NEW size, Sized(size), NEW base \in 0 .. size - 1, NEW length \in 1 .. size
    PROVE  LastOf(base, length) = base + length - 1
<1>1. base + length - 1 \in 0 .. Width - 1 /\ Width \in Nat
  BY Spaces DEF Sized
<1> QED
  BY <1>1 DEF LastOf

(* The entries s to e are those of the range.                              *)
Found(m, base, length, s, e) ==
    /\ s \in 1 .. Len(m) /\ e \in 1 .. Len(m) /\ s <= e
    /\ Covers(m[s], base) /\ Covers(m[e], base + length - 1)

LEMMA SearchFinds ==
    ASSUME NEW size, Sized(size), NEW m, Tiled(m, 0, size),
           NEW base \in 0 .. size - 1, NEW length \in 1 .. size, base + length <= size
    PROVE  \E s, e : CoreSearchGcdMapEntry(m, base, length) = <<s, e>> /\ Found(m, base, length, s, e)
<1>1. /\ LastOf(base, length) = base + length - 1
      /\ base \in Nat /\ base + length - 1 \in Nat /\ base + length - 1 < size /\ size \in Nat
  BY EndOf DEF Sized
<1>2. PICK s \in 1 .. Len(m) : Covers(m[s], base)
  BY <1>1, Covered
<1>3. PICK e \in 1 .. Len(m) : Covers(m[e], base + length - 1)
  BY <1>1, Covered
<1>4. /\ Len(m) \in Nat
      /\ \A j \in 1 .. Len(m) : m[j].base \in Nat /\ m[j].end \in Nat
  BY Typed
<1>5. s <= e
  <2> SUFFICES ASSUME e < s PROVE FALSE
    BY <1>4
  <2>1. m[e].end < m[s].base
    BY Rises
  <2> QED
    BY <1>1, <1>2, <1>3, <1>4, <2>1 DEF Covers
<1> DEFINE last == LastOf(base, length)
           ends == {i \in 1 .. Len(m) : Covers(m[i], last) /\ \E j \in 1 .. i : Covers(m[j], base)}
           starts == {j \in 1 .. e : Covers(m[j], base)}
<1>6. e \in ends /\ ends \subseteq Int /\ \A y \in ends : e <= y
  <2>1. e \in ends /\ ends \subseteq Int
    BY <1>1, <1>2, <1>3, <1>4, <1>5
  <2>2. \A y \in ends : y = e
    BY <1>1, <1>3, Covered
  <2> QED
    BY <1>4, <2>1, <2>2
<1>7. Min(ends) = e
  <2> HIDE DEF ends
  <2> QED
    BY <1>6, Least
<1>8. s \in starts /\ starts \subseteq Int /\ \A y \in starts : y <= s
  <2>1. s \in starts /\ starts \subseteq Int
    BY <1>2, <1>4, <1>5
  <2>2. \A y \in starts : y \in 1 .. Len(m) /\ Covers(m[y], base)
    BY <1>4
  <2>3. \A y \in starts : y = s
    BY <1>1, <1>2, <2>2, Covered
  <2> QED
    BY <1>4, <2>1, <2>3
<1>9. Max(starts) = s
  <2> HIDE DEF starts
  <2> QED
    BY <1>8, Greatest
<1>10. CoreSearchGcdMapEntry(m, base, length) = <<s, e>>
  <2>1. length # 0 /\ ends # {}
    BY <1>6
  <2> QED
    BY <1>7, <1>9, <2>1 DEF CoreSearchGcdMapEntry
<1> QED
  BY <1>2, <1>3, <1>5, <1>10 DEF Found

(* Nothing is found for a range that is not in the map.                    *)
LEMMA SearchFails ==
    ASSUME NEW size, Sized(size), NEW m, Tiled(m, 0, size),
           NEW base \in Nat, NEW length \in 1 .. size,
           CoreSearchGcdMapEntry(m, base, length) # <<>>
    PROVE  base \in 0 .. size - 1 /\ base + length <= size
<1>1. PICK i \in 1 .. Len(m), j \in 1 .. Len(m) :
         Covers(m[i], LastOf(base, length)) /\ Covers(m[j], base)
  <2>1. PICK i \in 1 .. Len(m) :
           Covers(m[i], LastOf(base, length)) /\ \E j \in 1 .. i : Covers(m[j], base)
    BY DEF CoreSearchGcdMapEntry
  <2>2. PICK j \in 1 .. i : Covers(m[j], base)
    BY <2>1
  <2>3. j \in 1 .. Len(m)
    BY Typed
  <2> QED
    BY <2>1, <2>2, <2>3
<1>2. size \in Nat /\ base < size
  BY <1>1, Covered DEF Sized
<1>3. LastOf(base, length) = base + length - 1 /\ base + length - 1 \in Nat
  BY <1>2, EndOf
<1>4. base + length - 1 < size
  BY <1>1, <1>2, <1>3, Covered
<1> QED
  BY <1>2, <1>3, <1>4

-----------------------------------------------------------------------------
(* What a change of a range makes of a map. *)

Legal(change) ==
    /\ DOMAIN change \subseteq {"kind", "capabilities", "attributes", "owner"}
    /\ "kind" \in DOMAIN change => change.kind \in Kinds
    /\ "capabilities" \in DOMAIN change => change.capabilities \in SUBSET Bits
    /\ "attributes" \in DOMAIN change => change.attributes \in SUBSET Bits
    /\ "owner" \in DOMAIN change => change.owner \in AnyOwner

LEMMA ChangedEntry ==
    ASSUME NEW e \in EntryType, NEW change, Legal(change)
    PROVE  /\ Changed(e, change) \in EntryType
           /\ Changed(e, change).base = e.base /\ Changed(e, change).end = e.end
           /\ CellOf(Changed(e, change)) = Changed(CellOf(e), change)
<1> DEFINE c == Changed(e, change)
<1>1. DOMAIN e = {"base", "end", "kind", "capabilities", "attributes", "owner"}
  BY DEF EntryType
<1>2. c = [field \in {"base", "end", "kind", "capabilities", "attributes", "owner"} |-> c[field]]
  BY <1>1 DEF Changed
<1>3. c.base = e.base /\ c.end = e.end
  BY <1>1 DEF Changed, Legal
<1>4. /\ c.kind = IF "kind" \in DOMAIN change THEN change.kind ELSE e.kind
      /\ c.capabilities = IF "capabilities" \in DOMAIN change THEN change.capabilities ELSE e.capabilities
      /\ c.attributes = IF "attributes" \in DOMAIN change
                        THEN change.attributes \cup (e.attributes \cap CpuBits) ELSE e.attributes
      /\ c.owner = IF "owner" \in DOMAIN change THEN change.owner ELSE e.owner
  BY <1>1 DEF Changed
<1>5. c.kind \in Kinds /\ c.capabilities \in SUBSET Bits /\ c.attributes \in SUBSET Bits /\ c.owner \in AnyOwner
  BY <1>4 DEF Legal, EntryType
<1>6. c \in EntryType
  <2> HIDE DEF c
  <2>1. e.base \in Nat /\ e.end \in Nat
    BY DEF EntryType
  <2> QED
    BY <1>2, <1>3, <1>5, <2>1 DEF EntryType
<1>7. CellOf(c) = Changed(CellOf(e), change)
  <2> DEFINE d == Changed(CellOf(e), change)
  <2>1. DOMAIN CellOf(e) = {"kind", "capabilities", "attributes", "owner"}
    BY DEF CellOf
  <2>2. d = [field \in {"kind", "capabilities", "attributes", "owner"} |-> d[field]]
    BY <2>1 DEF Changed
  <2>3. /\ d.kind = IF "kind" \in DOMAIN change THEN change.kind ELSE e.kind
        /\ d.capabilities = IF "capabilities" \in DOMAIN change THEN change.capabilities ELSE e.capabilities
        /\ d.attributes = IF "attributes" \in DOMAIN change
                          THEN change.attributes \cup (e.attributes \cap CpuBits) ELSE e.attributes
        /\ d.owner = IF "owner" \in DOMAIN change THEN change.owner ELSE e.owner
    BY <2>1 DEF Changed, CellOf
  <2> HIDE DEF c, d
  <2>4. d.kind = c.kind /\ d.capabilities = c.capabilities /\ d.attributes = c.attributes /\ d.owner = c.owner
    BY <1>4, <2>3
  <2>5. CellOf(c) = d
    BY <2>2, <2>4 DEF CellOf
  <2> QED
    BY <2>5 DEF c, d
<1> QED
  BY <1>3, <1>6, <1>7

(* The picture after the change.                                           *)
Repainted(f, base, length, change) ==
    [a \in Nat |-> IF base <= a /\ a < base + length THEN Changed(f[a], change) ELSE f[a]]

(* The numbers of parts of the entries s to e below and above the range.   *)
BelowIt(entry, base) == IF base > entry.base THEN 1 ELSE 0
AboveIt(entry, base, length) == IF base + length - 1 < entry.end THEN 1 ELSE 0

(* A range of a space.                                                     *)
Within(base, length, size) ==
    /\ Sized(size) /\ base \in 0 .. size - 1 /\ length \in 1 .. size /\ base + length <= size

LEMMA Numbers ==
    ASSUME NEW size, NEW base, NEW length, Within(base, length, size)
    PROVE  /\ base \in Nat /\ length \in Nat /\ length > 0 /\ size \in Nat /\ size > 0 /\ Width \in Nat
           /\ LastOf(base, length) = base + length - 1 /\ base + length - 1 \in Nat
           /\ (base + length) % Width = base + length /\ base + length \in Nat /\ base + length <= size
<1>1. /\ base \in Nat /\ length \in Nat /\ length > 0 /\ size \in Nat /\ size > 0 /\ Width \in Nat
      /\ base + length <= size /\ 2 * size <= Width
  BY Spaces DEF Within, Sized
<1>2. LastOf(base, length) = base + length - 1
  BY EndOf DEF Within
<1>3. base + length \in 0 .. Width - 1
  BY <1>1
<1>4. (base + length) % Width = base + length
  BY <1>1, <1>3
<1> QED
  BY <1>1, <1>2, <1>4

LEMMA Pieces ==
    ASSUME NEW size, NEW base, NEW length, Within(base, length, size),
           NEW change, Legal(change), NEW f,
           NEW e \in EntryType, e.base <= e.end, base <= e.end, e.base < base + length,
           \A a \in e.base .. e.end : f[a] = CellOf(e)
    PROVE  LET p == CoreInsertGcdMapEntry(e, base, length, change)
               b == BelowIt(e, base)
               t == AboveIt(e, base, length)
           IN  /\ Draws(p, Repainted(f, base, length, change), e.base, e.end + 1)
               /\ Len(p) = 1 + b + t
               /\ b = 1 => CellOf(p[1]) = CellOf(e)
               /\ t = 1 => CellOf(p[Len(p)]) = CellOf(e)
<1> DEFINE b == BelowIt(e, base)
           t == AboveIt(e, base, length)
<1>1. /\ base \in Nat /\ length \in Nat /\ length > 0 /\ LastOf(base, length) = base + length - 1
      /\ (base + length) % Width = base + length /\ base + length \in Nat
      /\ e.base \in Nat /\ e.end \in Nat
  BY Numbers DEF EntryType
<1> PICK g : g = Repainted(f, base, length, change)
  OBVIOUS
<1>2. \A a \in Nat : g[a] = IF base <= a /\ a < base + length THEN Changed(f[a], change) ELSE f[a]
  BY DEF Repainted
<1> PICK low : low = IF base > e.base THEN base ELSE e.base
  OBVIOUS
<1> PICK high : high = IF base + length - 1 < e.end THEN base + length - 1 ELSE e.end
  OBVIOUS
<1>3. Max({base, e.base}) = low
  <2>1. {base, e.base} \subseteq Int /\ low \in {base, e.base} /\ \A y \in {base, e.base} : y <= low
    BY <1>1
  <2> QED
    BY <2>1, Greatest
<1>4. Min({LastOf(base, length), e.end}) = high
  <2>1. /\ {LastOf(base, length), e.end} \subseteq Int
        /\ high \in {LastOf(base, length), e.end}
        /\ \A y \in {LastOf(base, length), e.end} : high <= y
    BY <1>1
  <2> QED
    BY <2>1, Least
<1>5. /\ low \in Nat /\ high \in Nat /\ low <= high /\ e.base <= low /\ high <= e.end
      /\ base <= low /\ high < base + length
  BY <1>1
<1> PICK below : below = IF base > e.base THEN <<[e EXCEPT !.end = base - 1]>> ELSE <<>>
  OBVIOUS
<1>i. PICK in : in = [e EXCEPT !.base = low, !.end = high]
  OBVIOUS
<1> PICK inside : inside = <<Changed(in, change)>>
  OBVIOUS
<1> PICK above : above = Above(e, base, length)
  OBVIOUS
<1> PICK p : p = CoreInsertGcdMapEntry(e, base, length, change)
  OBVIOUS
<1>6. p = below \o inside \o above
  BY <1>3, <1>4, <1>i DEF CoreInsertGcdMapEntry
<1>7. /\ Draws(below, g, e.base, low) /\ Len(below) = b
      /\ b = 1 => CellOf(below[1]) = CellOf(e)
  <2>1. CASE base > e.base
    <3> PICK x : x = [e EXCEPT !.end = base - 1]
      OBVIOUS
    <3>1. base - 1 \in Nat /\ e.base <= base - 1 /\ base - 1 < e.end
      BY <1>1, <2>1
    <3>2. x \in EntryType /\ x.base = e.base /\ x.end = base - 1 /\ CellOf(x) = CellOf(e)
      BY <3>1 DEF EntryType, CellOf
    <3>3. \A a \in x.base .. x.end : a \in e.base .. e.end /\ a \in Nat /\ a < base
      BY <1>1, <3>1, <3>2
    <3>4. \A a \in x.base .. x.end : g[a] = CellOf(x)
      BY <1>1, <1>2, <3>2, <3>3
    <3>5. Draws(<<x>>, g, x.base, x.end + 1) /\ Len(<<x>>) = 1
      BY <3>1, <3>2, <3>4, Single
    <3>6. below = <<x>> /\ x.end + 1 = low /\ b = 1 /\ below[1] = x
      BY <1>1, <2>1, <3>2 DEF BelowIt
    <3> QED
      BY <3>2, <3>5, <3>6
  <2>2. CASE ~(base > e.base)
    <3>1. below = <<>> /\ low = e.base /\ b = 0 /\ Len(<<>>) = 0
      BY <1>1, <2>2 DEF BelowIt
    <3> QED
      BY <3>1, Nothing
  <2> QED
    BY <2>1, <2>2
<1>8. Draws(inside, g, low, high + 1) /\ Len(inside) = 1
  <2> PICK x : x = Changed(in, change)
    OBVIOUS
  <2>1. in \in EntryType /\ in.base = low /\ in.end = high /\ CellOf(in) = CellOf(e)
    <3> PICK y : y = [e EXCEPT !.base = low]
      OBVIOUS
    <3>1. y \in EntryType /\ y.base = low /\ CellOf(y) = CellOf(e)
      BY <1>5 DEF EntryType, CellOf
    <3>2. in = [y EXCEPT !.end = high]
      BY <1>i DEF EntryType
    <3> QED
      BY <1>5, <3>1, <3>2 DEF EntryType, CellOf
  <2>2. /\ x \in EntryType /\ x.base = low /\ x.end = high
        /\ CellOf(x) = Changed(CellOf(e), change)
    BY <2>1, ChangedEntry
  <2>3. \A a \in x.base .. x.end : a \in e.base .. e.end /\ a \in Nat /\ base <= a /\ a < base + length
    BY <1>1, <1>5, <2>2
  <2>4. \A a \in x.base .. x.end : g[a] = CellOf(x)
    BY <1>2, <2>2, <2>3
  <2>5. Draws(<<x>>, g, x.base, x.end + 1) /\ Len(<<x>>) = 1
    BY <1>5, <2>2, <2>4, Single
  <2> QED
    BY <2>2, <2>5
<1>9. /\ Draws(above, g, high + 1, e.end + 1) /\ Len(above) = t
      /\ t = 1 => CellOf(above[1]) = CellOf(e)
  <2>1. CASE base + length - 1 < e.end
    <3> PICK x : x = [e EXCEPT !.base = base + length]
      OBVIOUS
    <3>1. base + length <= e.end
      BY <1>1, <2>1
    <3>2. x \in EntryType /\ x.base = base + length /\ x.end = e.end /\ CellOf(x) = CellOf(e)
      BY <1>1 DEF EntryType, CellOf
    <3>3. \A a \in x.base .. x.end : a \in e.base .. e.end /\ a \in Nat /\ ~(a < base + length)
      BY <1>1, <3>1, <3>2
    <3>4. \A a \in x.base .. x.end : g[a] = CellOf(x)
      BY <1>1, <1>2, <3>2, <3>3
    <3>5. Draws(<<x>>, g, x.base, x.end + 1) /\ Len(<<x>>) = 1
      BY <3>1, <3>2, <3>4, Single
    <3>6. above = <<x>> /\ x.base = high + 1 /\ t = 1 /\ above[1] = x
      BY <1>1, <2>1, <3>2 DEF AboveIt, Above
    <3> QED
      BY <3>2, <3>5, <3>6
  <2>2. CASE ~(base + length - 1 < e.end)
    <3>1. above = <<>> /\ high = e.end /\ t = 0 /\ Len(<<>>) = 0
      BY <1>1, <2>2 DEF AboveIt, Above
    <3> QED
      BY <3>1, Nothing
  <2> QED
    BY <2>1, <2>2
<1> PICK q : q = below \o inside
  OBVIOUS
<1>10. /\ Draws(q, g, e.base, high + 1) /\ Len(q) = b + 1
       /\ \A i \in 1 .. Len(below) : q[i] = below[i]
  BY <1>7, <1>8, Joins
<1>11. /\ Draws(p, g, e.base, e.end + 1) /\ Len(p) = b + 1 + t
       /\ \A i \in 1 .. Len(q) : p[i] = q[i]
       /\ \A i \in 1 .. Len(above) : p[Len(q) + i] = above[i]
  BY <1>6, <1>9, <1>10, Joins
<1>12. b \in {0, 1} /\ t \in {0, 1}
  BY DEF BelowIt, AboveIt
<1>13. b = 1 => CellOf(p[1]) = CellOf(e)
  <2>1. b = 1 => 1 \in 1 .. Len(below) /\ 1 \in 1 .. Len(q)
    BY <1>7, <1>10, <1>12
  <2> QED
    BY <1>7, <1>10, <1>11, <2>1
<1>14. t = 1 => CellOf(p[Len(p)]) = CellOf(e)
  <2>1. t = 1 => 1 \in 1 .. Len(above) /\ Len(p) = Len(q) + 1
    BY <1>9, <1>10, <1>11, <1>12
  <2> QED
    BY <1>9, <1>11, <2>1
<1>15. Len(p) = 1 + b + t
  BY <1>11, <1>12
<1> QED
  BY <1>11, <1>13, <1>14, <1>15

(* A function that is defined from each number to the next exists.         *)
Recurs(f, V, low, high, v, h) ==
    /\ f \in [low .. high -> V]
    /\ \A i \in low .. high : f[i] = IF i <= low THEN v ELSE h[<<i, f[i - 1]>>]

LEMMA Recursion ==
    ASSUME NEW V, NEW v \in V, NEW h, h \in [Int \X V -> V],
           NEW low \in Int, NEW high \in Int, low <= high
    PROVE  \E f : Recurs(f, V, low, high, v, h)
<1> DEFINE E(top) == \E f \in [low .. top -> V] :
              \A i \in low .. top : f[i] = IF i <= low THEN v ELSE h[<<i, f[i - 1]>>]
           P(n) == \A top \in Int : top = low + n => E(top)
           S == {n \in Nat : P(n)}
<1>1. 0 \in S
  <2>1. E(low)
    <3> PICK f : f = [i \in low .. low |-> v]
      OBVIOUS
    <3>1. \A i \in low .. low : i <= low
      OBVIOUS
    <3>2. f \in [low .. low -> V]
      OBVIOUS
    <3>3. \A i \in low .. low : f[i] = IF i <= low THEN v ELSE h[<<i, f[i - 1]>>]
      BY <3>1
    <3> QED
      BY <3>2, <3>3
  <2> HIDE DEF E
  <2> QED
    BY <2>1
<1>2. ASSUME NEW n \in Nat, P(n) PROVE P(n + 1)
  <2> SUFFICES ASSUME NEW top \in Int, top = low + (n + 1) PROVE E(top)
    OBVIOUS
  <2>1. PICK last \in Int : last = low + n /\ last = top - 1
    OBVIOUS
  <2>2. PICK f \in [low .. last -> V] :
           \A i \in low .. last : f[i] = IF i <= low THEN v ELSE h[<<i, f[i - 1]>>]
    BY <1>2, <2>1
  <2>3. PICK x : x = h[<<top, f[last]>>]
    OBVIOUS
  <2>4. /\ last \in low .. last /\ ~(top <= low)
        /\ \A i \in low .. top : i \in low .. last \/ i = top
        /\ \A i \in low .. last : i \in low .. top /\ i # top
    BY <2>1
  <2>5. x \in V
    <3>1. <<top, f[last]>> \in Int \X V
      BY <2>4
    <3> QED
      BY <2>3, <3>1
  <2>6. PICK g : g = [i \in low .. top |-> IF i = top THEN x ELSE f[i]]
    OBVIOUS
  <2>7. /\ \A i \in low .. last : g[i] = f[i]
        /\ g[top] = x
        /\ g \in [low .. top -> V]
    <3>1. top \in low .. top
      BY <2>1
    <3>2. \A i \in low .. last : g[i] = f[i]
      BY <2>4, <2>6
    <3>3. g[top] = x
      BY <2>6, <3>1
    <3>4. \A i \in low .. top : (IF i = top THEN x ELSE f[i]) \in V
      BY <2>2, <2>4, <2>5
    <3>5. g \in [low .. top -> V]
      BY <2>6, <3>4
    <3> QED
      BY <3>2, <3>3, <3>5
  <2>8. \A i \in low .. top : g[i] = IF i <= low THEN v ELSE h[<<i, g[i - 1]>>]
    <3> TAKE i \in low .. top
    <3>1. CASE i = top
      <4>1. g[i - 1] = f[last]
        BY <2>1, <2>4, <2>7, <3>1
      <4> QED
        BY <2>3, <2>4, <2>7, <3>1, <4>1
    <3>2. CASE i # top
      <4>1. i \in low .. last
        BY <2>4, <3>2
      <4>2. f[i] = IF i <= low THEN v ELSE h[<<i, f[i - 1]>>]
        BY <2>2, <4>1
      <4>3. CASE i <= low
        BY <2>7, <4>1, <4>2, <4>3
      <4>4. CASE ~(i <= low)
        <5>1. i - 1 \in low .. last
          BY <4>1, <4>4
        <5>2. g[i - 1] = f[i - 1]
          BY <2>7, <5>1
        <5> QED
          BY <2>7, <4>1, <4>2, <4>4, <5>2
      <4> QED
        BY <4>3, <4>4
    <3> QED
      BY <3>1, <3>2
  <2> QED
    BY <2>7, <2>8
<1>3. Nat \subseteq S
  <2>1. \A n \in Nat : n \in S => n + 1 \in S
    <3> HIDE DEF P
    <3> QED
      BY <1>2
  <2> HIDE DEF S
  <2> QED
    BY <1>1, <2>1, Induction
<1>4. high - low \in Nat /\ high = low + (high - low)
  OBVIOUS
<1>5. E(high)
  <2> HIDE DEF E
  <2> QED
    BY <1>3, <1>4
<1> QED
  BY <1>5 DEF Recurs

(* The entries of a range are those that meet it, and only the first and   *)
(* the last of them can go beyond it.                                      *)
LEMMA Meets ==
    ASSUME NEW size, NEW base, NEW length, Within(base, length, size),
           NEW m, Tiled(m, 0, size), NEW s, NEW e, Found(m, base, length, s, e), NEW i \in s .. e
    PROVE  /\ i \in 1 .. Len(m) /\ m[i] \in EntryType
           /\ m[i].base <= m[i].end /\ base <= m[i].end /\ m[i].base < base + length
           /\ i # s => BelowIt(m[i], base) = 0
           /\ i # e => AboveIt(m[i], base, length) = 0
<1>1. /\ base \in Nat /\ length \in Nat /\ Len(m) \in Nat
      /\ s \in 1 .. Len(m) /\ e \in 1 .. Len(m) /\ i \in 1 .. Len(m)
      /\ \A j \in 1 .. Len(m) : m[j] \in EntryType /\ m[j].base \in Nat /\ m[j].end \in Nat
      /\ m[i].base <= m[i].end
      /\ base <= m[s].end /\ m[e].base <= base + length - 1
  <2>1. /\ base \in Nat /\ length \in Nat /\ Len(m) \in Nat
        /\ \A j \in 1 .. Len(m) : m[j] \in EntryType /\ m[j].base \in Nat /\ m[j].end \in Nat
    BY Numbers, Typed
  <2>2. /\ s \in 1 .. Len(m) /\ e \in 1 .. Len(m)
        /\ base <= m[s].end /\ m[e].base <= base + length - 1
    BY DEF Found, Covers
  <2>3. i \in 1 .. Len(m)
    BY <2>1, <2>2
  <2> QED
    BY <2>1, <2>2, <2>3 DEF Tiled
<1>2. s < i => m[s].end < m[i].base
  BY <1>1, Rises
<1>3. i < e => m[i].end < m[e].base
  BY <1>1, Rises
<1> QED
  BY <1>1, <1>2, <1>3 DEF BelowIt, AboveIt

Splitting(m, s, e, base, length, change, parts) ==
    parts = [i \in s - 1 .. e |->
                IF i < s THEN SubSeq(m, 1, i)
                ELSE parts[i - 1] \o CoreInsertGcdMapEntry(m[i], base, length, change)]

LEMMA SplittingExists ==
    ASSUME NEW m \in Seq(EntryType), NEW s \in 1 .. Len(m), NEW e \in s .. Len(m),
           NEW base, NEW length, NEW change,
           \A i \in s .. e : CoreInsertGcdMapEntry(m[i], base, length, change) \in Seq(EntryType)
    PROVE  \E parts : Splitting(m, s, e, base, length, change, parts)
<1> DEFINE V == Seq(EntryType)
           Grown(i, w) == IF i \in s .. e THEN w \o CoreInsertGcdMapEntry(m[i], base, length, change) ELSE w
<1>1. Len(m) \in Nat /\ SubSeq(m, 1, s - 1) \in V
  BY Cuts, LenProperties
<1>2. \A i \in Int, w \in V : Grown(i, w) \in V
  BY ConcatProperties
<1>3. PICK h : h = [p \in Int \X V |-> Grown(p[1], p[2])]
  OBVIOUS
<1>4. h \in [Int \X V -> V] /\ \A i \in Int, w \in V : h[<<i, w>>] = Grown(i, w)
  <2> HIDE DEF V, Grown
  <2>1. \A p \in Int \X V : p[1] \in Int /\ p[2] \in V
    OBVIOUS
  <2>2. \A p \in Int \X V : Grown(p[1], p[2]) \in V
    BY <1>2, <2>1
  <2>3. h \in [Int \X V -> V]
    BY <1>3, <2>2
  <2>4. ASSUME NEW i \in Int, NEW w \in V PROVE h[<<i, w>>] = Grown(i, w)
    <3>1. <<i, w>> \in Int \X V /\ <<i, w>>[1] = i /\ <<i, w>>[2] = w
      OBVIOUS
    <3> QED
      BY <1>3, <3>1
  <2> QED
    BY <2>3, <2>4
<1>5. PICK low \in Int : low = s - 1 /\ low <= e /\ e \in Int
  BY <1>1
<1>6. PICK v \in V : v = SubSeq(m, 1, low)
  BY <1>1, <1>5
<1>7. PICK f : Recurs(f, V, low, e, v, h)
  <2> HIDE DEF V, Grown
  <2> QED
    BY <1>4, <1>5, <1>6, Recursion
<1>8. ASSUME NEW i \in low .. e
      PROVE  f[i] = IF i < s THEN SubSeq(m, 1, i)
                    ELSE f[i - 1] \o CoreInsertGcdMapEntry(m[i], base, length, change)
  <2>1. f[i] = IF i <= low THEN v ELSE h[<<i, f[i - 1]>>]
    <3> HIDE DEF V
    <3> QED
      BY <1>7 DEF Recurs
  <2>2. CASE i < s
    <3>1. i = low /\ i <= low
      BY <1>1, <1>5, <2>2
    <3> QED
      BY <1>6, <2>1, <2>2, <3>1
  <2>3. CASE ~(i < s)
    <3>1. i \in s .. e /\ i \in Int /\ i - 1 \in low .. e /\ ~(i <= low)
      BY <1>1, <1>5, <2>3
    <3>2. f[i - 1] \in V
      <4> HIDE DEF V
      <4> QED
        BY <1>7, <3>1 DEF Recurs
    <3>3. h[<<i, f[i - 1]>>] = Grown(i, f[i - 1])
      <4> HIDE DEF V, Grown
      <4> QED
        BY <1>4, <3>1, <3>2
    <3> QED
      BY <2>1, <2>3, <3>1, <3>3
  <2> QED
    BY <2>2, <2>3
<1>9. Splitting(m, s, e, base, length, change, f)
  <2> HIDE DEF V
  <2>1. DOMAIN f = low .. e /\ f = [i \in low .. e |-> f[i]]
    BY <1>7 DEF Recurs
  <2>2. f = [i \in low .. e |-> IF i < s THEN SubSeq(m, 1, i)
                ELSE f[i - 1] \o CoreInsertGcdMapEntry(m[i], base, length, change)]
    BY <1>8, <2>1
  <2> QED
    BY <1>5, <2>2 DEF Splitting
<1> QED
  BY <1>9

LEMMA SplitIs ==
    ASSUME NEW m \in Seq(EntryType), NEW s \in 1 .. Len(m), NEW e \in s .. Len(m),
           NEW base, NEW length, NEW change,
           \A i \in s .. e : CoreInsertGcdMapEntry(m[i], base, length, change) \in Seq(EntryType)
    PROVE  \E parts : /\ Splitting(m, s, e, base, length, change, parts)
                      /\ Split(m, s, e, base, length, change) = parts[e] \o SubSeq(m, e + 1, Len(m))
<1> DEFINE k == CHOOSE parts : Splitting(m, s, e, base, length, change, parts)
<1>1. Splitting(m, s, e, base, length, change, k)
  BY SplittingExists
<1>2. Split(m, s, e, base, length, change) = k[e] \o SubSeq(m, e + 1, Len(m))
  BY DEF Split, Splitting
<1> QED
  BY <1>1, <1>2

(* The parts up to entry i draw the new picture.                           *)
Progress(m, g, s, e, b, t, i, p) ==
    /\ Draws(p, g, 0, Mid(m, 0, i))
    /\ Len(p) = i + (IF i < s THEN 0 ELSE b) + (IF i = e THEN t ELSE 0)
    /\ \A k \in 1 .. s - 1 : p[k] = m[k]
    /\ i >= s /\ b = 1 => CellOf(p[s]) = CellOf(m[s])
    /\ i = e /\ t = 1 => CellOf(p[Len(p)]) = CellOf(m[e])

LEMMA ProgressHolds ==
    ASSUME NEW size, NEW base, NEW length, Within(base, length, size),
           NEW change, Legal(change), NEW m, NEW f, Draws(m, f, 0, size),
           NEW s, NEW e, Found(m, base, length, s, e),
           NEW parts, Splitting(m, s, e, base, length, change, parts),
           NEW g, g = Repainted(f, base, length, change),
           NEW b, b = BelowIt(m[s], base), NEW t, t = AboveIt(m[e], base, length)
    PROVE  Progress(m, g, s, e, b, t, e, parts[e])
<1>1. /\ Tiled(m, 0, size) /\ m \in Seq(EntryType) /\ Len(m) \in Nat
      /\ s \in 1 .. Len(m) /\ e \in 1 .. Len(m) /\ s <= e /\ size \in Nat
      /\ base \in Nat /\ length \in Nat
      /\ \A i \in 1 .. Len(m) : m[i].base \in Nat /\ m[i].end \in Nat
  BY Typed, Numbers DEF Draws, Tiled, Found
<1>2. b \in {0, 1} /\ t \in {0, 1}
  BY DEF BelowIt, AboveIt
<1>3. \A i \in s - 1 .. e :
         parts[i] = IF i < s THEN SubSeq(m, 1, i)
                    ELSE parts[i - 1] \o CoreInsertGcdMapEntry(m[i], base, length, change)
  BY DEF Splitting
<1>4. Progress(m, g, s, e, b, t, s - 1, parts[s - 1])
  <2>1. s - 1 \in 0 .. Len(m) /\ s - 1 \in s - 1 .. e /\ s - 1 < s /\ ~(s - 1 >= s) /\ s - 1 # e
    BY <1>1
  <2>2. PICK k : k = s - 1
    OBVIOUS
  <2>3. PICK p : p = SubSeq(m, 1, k)
    OBVIOUS
  <2>4. parts[k] = p
    BY <1>3, <2>1, <2>2, <2>3
  <2>5. Draws(p, f, 0, Mid(m, 0, k))
    BY <1>1, <2>1, <2>2, <2>3, Parts
  <2>6. Len(p) = k /\ \A i \in 1 .. k : p[i] = m[i]
    BY <1>1, <2>1, <2>2, <2>3, Cuts
  <2>7. Mid(m, 0, k) \in Nat /\ Mid(m, 0, k) <= base
    <3>1. CASE k = 0
      BY <1>1, <3>1 DEF Mid
    <3>2. CASE k # 0
      <4>1. k \in 1 .. Len(m) /\ k < s
        BY <1>1, <2>1, <2>2, <3>2
      <4>2. m[k].end < m[s].base
        BY <1>1, <4>1, Rises
      <4>3. m[s].base <= base
        BY DEF Found, Covers
      <4> QED
        BY <1>1, <3>2, <4>1, <4>2, <4>3 DEF Mid
    <3> QED
      BY <3>1, <3>2
  <2>8. \A a \in Nat : 0 <= a /\ a < Mid(m, 0, k) => g[a] = f[a]
    BY <1>1, <2>7 DEF Repainted
  <2>9. Draws(p, g, 0, Mid(m, 0, k))
    BY <2>5, <2>7, <2>8, Redrawn
  <2>10. Len(p) = k + 0 + 0
    BY <1>1, <2>2, <2>6
  <2>11. Progress(m, g, s, e, b, t, k, p)
    BY <2>1, <2>2, <2>6, <2>9, <2>10 DEF Progress
  <2> QED
    BY <2>2, <2>4, <2>11
<1>5. ASSUME NEW i \in s .. e, Progress(m, g, s, e, b, t, i - 1, parts[i - 1])
      PROVE  Progress(m, g, s, e, b, t, i, parts[i])
  <2>1. /\ i \in 1 .. Len(m) /\ m[i] \in EntryType
        /\ m[i].base <= m[i].end /\ base <= m[i].end /\ m[i].base < base + length
        /\ i # s => BelowIt(m[i], base) = 0
        /\ i # e => AboveIt(m[i], base, length) = 0
    BY <1>1, Meets
  <2>2. /\ i \in s - 1 .. e /\ ~(i < s) /\ i - 1 # e /\ i >= s /\ i \in Nat
        /\ (i # s => i - 1 >= s /\ ~(i - 1 < s)) /\ (i = s => i - 1 < s)
    BY <1>1
  <2>3. PICK o : o = parts[i - 1]
    OBVIOUS
  <2>4. PICK q : q = CoreInsertGcdMapEntry(m[i], base, length, change)
    OBVIOUS
  <2>5. PICK p : p = o \o q
    OBVIOUS
  <2>6. parts[i] = p
    BY <1>3, <2>2, <2>3, <2>4, <2>5
  <2>7. PICK bi : bi = BelowIt(m[i], base)
    OBVIOUS
  <2>8. PICK ti : ti = AboveIt(m[i], base, length)
    OBVIOUS
  <2>9. \A a \in m[i].base .. m[i].end : f[a] = CellOf(m[i])
    BY <2>1 DEF Draws
  <2>10. /\ Draws(q, g, m[i].base, m[i].end + 1) /\ Len(q) = 1 + bi + ti
         /\ bi = 1 => CellOf(q[1]) = CellOf(m[i])
         /\ ti = 1 => CellOf(q[Len(q)]) = CellOf(m[i])
    BY <2>1, <2>4, <2>7, <2>8, <2>9, Pieces
  <2>11. Mid(m, 0, i - 1) = m[i].base /\ Mid(m, 0, i) = m[i].end + 1
    <3>1. i # 0
      BY <2>1
    <3>2. CASE i = 1
      BY <1>1, <2>1, <3>2 DEF Mid, Tiled
    <3>3. CASE i # 1
      <4>1. PICK h \in 1 .. Len(m) : i = h + 1 /\ h = i - 1 /\ h < Len(m) /\ h # 0
        BY <1>1, <2>1, <3>3
      <4>2. m[h + 1].base = m[h].end + 1
        BY <1>1, <4>1 DEF Tiled
      <4> QED
        BY <3>1, <4>1, <4>2 DEF Mid
    <3> QED
      BY <3>2, <3>3
  <2>12. /\ Draws(o, g, 0, m[i].base)
         /\ Len(o) = i - 1 + (IF i = s THEN 0 ELSE b)
         /\ \A k \in 1 .. s - 1 : o[k] = m[k]
         /\ i # s /\ b = 1 => CellOf(o[s]) = CellOf(m[s])
    <3>1. Progress(m, g, s, e, b, t, i - 1, o)
      BY <1>5, <2>3
    <3>2. Len(o) = i - 1 + (IF i - 1 < s THEN 0 ELSE b) + 0
      BY <2>2, <3>1 DEF Progress
    <3>3. Len(o) = i - 1 + (IF i = s THEN 0 ELSE b)
      BY <1>2, <2>2, <3>2
    <3> QED
      BY <2>2, <2>11, <3>1, <3>3 DEF Progress
  <2>13. /\ Draws(p, g, 0, m[i].end + 1) /\ Len(p) = Len(o) + Len(q)
         /\ \A k \in 1 .. Len(o) : p[k] = o[k]
         /\ \A k \in 1 .. Len(q) : p[Len(o) + k] = q[k]
    <3>1. Draws(o, g, 0, m[i].base) /\ Draws(q, g, m[i].base, m[i].end + 1)
      BY <2>10, <2>12
    <3> QED
      BY <2>5, <3>1, Joins
  <2>14. bi = (IF i = s THEN b ELSE 0) /\ ti = (IF i = e THEN t ELSE 0)
    <3>1. (i = s => bi = b) /\ (i = e => ti = t)
      BY <2>7, <2>8
    <3>2. (i # s => bi = 0) /\ (i # e => ti = 0)
      BY <2>1, <2>7, <2>8
    <3> QED
      BY <3>1, <3>2
  <2>15. Len(p) = i + (IF i < s THEN 0 ELSE b) + (IF i = e THEN t ELSE 0)
    <3>1. Len(p) = (i - 1 + (IF i = s THEN 0 ELSE b)) + (1 + bi + ti)
      BY <2>10, <2>12, <2>13
    <3>2. i \in Nat /\ ~(i < s)
      BY <2>2
    <3> QED
      BY <1>2, <2>14, <3>1, <3>2
  <2>16. \A k \in 1 .. s - 1 : p[k] = m[k]
    <3>1. \A k \in 1 .. s - 1 : k \in 1 .. Len(o)
      BY <1>1, <1>2, <2>2, <2>12
    <3> QED
      BY <2>12, <2>13, <3>1
  <2>17. b = 1 => CellOf(p[s]) = CellOf(m[s])
    <3>1. CASE i = s
      <4>1. b = 1 => 1 \in 1 .. Len(q) /\ Len(o) + 1 = s
        BY <1>1, <1>2, <2>2, <2>10, <2>12, <2>14, <3>1
      <4> QED
        BY <2>10, <2>13, <2>14, <3>1, <4>1
    <3>2. CASE i # s
      <4>1. b = 1 => s \in 1 .. Len(o)
        BY <1>1, <1>2, <2>2, <2>12, <3>2
      <4> QED
        BY <2>12, <2>13, <3>2, <4>1
    <3> QED
      BY <3>1, <3>2
  <2>18. i = e /\ t = 1 => CellOf(p[Len(p)]) = CellOf(m[e])
    <3>1. Len(q) \in 1 .. Len(q) /\ Len(o) \in Nat
      BY <1>2, <2>2, <2>10, <2>12, <2>14
    <3> QED
      BY <2>10, <2>13, <2>14, <3>1
  <2>19. Progress(m, g, s, e, b, t, i, p)
    BY <2>11, <2>13, <2>15, <2>16, <2>17, <2>18 DEF Progress
  <2> QED
    BY <2>6, <2>19
<1> DEFINE P(n) == s - 1 + n <= e => Progress(m, g, s, e, b, t, s - 1 + n, parts[s - 1 + n])
           S == {n \in Nat : P(n)}
<1>6. 0 \in S
  <2>1. s - 1 + 0 = s - 1
    BY <1>1
  <2> QED
    BY <1>4, <2>1
<1>7. \A n \in Nat : n \in S => n + 1 \in S
  <2> SUFFICES ASSUME NEW n \in Nat, P(n), s - 1 + (n + 1) <= e
               PROVE  Progress(m, g, s, e, b, t, s - 1 + (n + 1), parts[s - 1 + (n + 1)])
    OBVIOUS
  <2>1. PICK i : i = s - 1 + (n + 1)
    OBVIOUS
  <2>2. i \in s .. e /\ i - 1 = s - 1 + n /\ s - 1 + n <= e
    BY <1>1, <2>1
  <2>3. Progress(m, g, s, e, b, t, i - 1, parts[i - 1])
    BY <2>2
  <2>4. Progress(m, g, s, e, b, t, i, parts[i])
    BY <1>5, <2>2, <2>3
  <2> QED
    BY <2>1, <2>4
<1>8. Nat \subseteq S
  <2> HIDE DEF S
  <2> QED
    BY <1>6, <1>7, Induction
<1>9. PICK n \in Nat : e = s - 1 + n
  <2>1. e - (s - 1) \in Nat /\ e = s - 1 + (e - (s - 1))
    BY <1>1
  <2> QED
    BY <2>1
<1>10. P(n)
  BY <1>8
<1>11. s - 1 + n <= e
  BY <1>1, <1>9
<1> QED
  BY <1>9, <1>10, <1>11

(* Splitting draws the new picture, and leaves the states of the entries   *)
(* before and after the range.                                             *)
LEMMA Splits ==
    ASSUME NEW size, NEW base, NEW length, Within(base, length, size),
           NEW change, Legal(change), NEW m, NEW f, Draws(m, f, 0, size),
           NEW s, NEW e, Found(m, base, length, s, e),
           NEW g, g = Repainted(f, base, length, change),
           NEW b, b = BelowIt(m[s], base), NEW t, t = AboveIt(m[e], base, length)
    PROVE  LET w == Split(m, s, e, base, length, change)
           IN  /\ Draws(w, g, 0, size) /\ Len(w) = Len(m) + b + t
               /\ \A k \in 1 .. s - 1 + b : CellOf(w[k]) = CellOf(m[k])
               /\ \A k \in e + b + 1 .. Len(w) : CellOf(w[k]) = CellOf(m[k - b - t])
<1>1. /\ Tiled(m, 0, size) /\ m \in Seq(EntryType) /\ Len(m) \in Nat
      /\ s \in 1 .. Len(m) /\ e \in s .. Len(m) /\ e \in 1 .. Len(m) /\ size \in Nat
      /\ base \in Nat /\ length \in Nat
      /\ \A i \in 1 .. Len(m) : m[i].base \in Nat /\ m[i].end \in Nat
  <2>1. Tiled(m, 0, size) /\ m \in Seq(EntryType)
    BY DEF Draws, Tiled
  <2>2. Len(m) \in Nat /\ \A i \in 1 .. Len(m) : m[i].base \in Nat /\ m[i].end \in Nat
    BY <2>1, Typed
  <2>3. base \in Nat /\ length \in Nat /\ size \in Nat
    BY Numbers
  <2>4. s \in 1 .. Len(m) /\ e \in 1 .. Len(m) /\ s <= e
    BY DEF Found
  <2> QED
    BY <2>1, <2>2, <2>3, <2>4
<1>2. b \in {0, 1} /\ t \in {0, 1}
  BY DEF BelowIt, AboveIt
<1>3. \A i \in s .. e : CoreInsertGcdMapEntry(m[i], base, length, change) \in Seq(EntryType)
  <2> TAKE i \in s .. e
  <2>1. /\ i \in 1 .. Len(m) /\ m[i] \in EntryType
        /\ m[i].base <= m[i].end /\ base <= m[i].end /\ m[i].base < base + length
    BY <1>1, Meets
  <2>2. \A a \in m[i].base .. m[i].end : f[a] = CellOf(m[i])
    BY <2>1 DEF Draws
  <2>3. Draws(CoreInsertGcdMapEntry(m[i], base, length, change), g, m[i].base, m[i].end + 1)
    BY <2>1, <2>2, Pieces
  <2> QED
    BY <2>3 DEF Draws, Tiled
<1>4. PICK parts : /\ Splitting(m, s, e, base, length, change, parts)
                   /\ Split(m, s, e, base, length, change) = parts[e] \o SubSeq(m, e + 1, Len(m))
  <2>1. m \in Seq(EntryType) /\ s \in 1 .. Len(m) /\ e \in s .. Len(m)
    BY <1>1
  <2> QED
    BY <1>3, <2>1, SplitIs
<1>5. PICK p : p = parts[e]
  OBVIOUS
<1>6. PICK r : r = SubSeq(m, e + 1, Len(m))
  OBVIOUS
<1>7. PICK w : w = p \o r
  OBVIOUS
<1>8. Split(m, s, e, base, length, change) = w
  BY <1>4, <1>5, <1>6, <1>7
<1>9. Progress(m, g, s, e, b, t, e, p)
  BY <1>4, <1>5, ProgressHolds
<1>10. Mid(m, 0, e) = m[e].end + 1 /\ e # 0 /\ ~(e < s) /\ e >= s
  BY <1>1 DEF Mid
<1>11. /\ Draws(p, g, 0, m[e].end + 1) /\ Len(p) = e + b + t
       /\ \A k \in 1 .. s - 1 : p[k] = m[k]
       /\ b = 1 => CellOf(p[s]) = CellOf(m[s])
       /\ t = 1 => CellOf(p[Len(p)]) = CellOf(m[e])
  BY <1>9, <1>10 DEF Progress
<1>12. Draws(r, g, m[e].end + 1, size)
  <2>1. Draws(r, f, m[e].end + 1, size)
    BY <1>1, <1>6, <1>10, Parts
  <2>2. m[e].end + 1 \in Nat /\ base + length <= m[e].end + 1
    BY <1>1 DEF Found, Covers
  <2>3. \A a \in Nat : m[e].end + 1 <= a /\ a < size => g[a] = f[a]
    BY <1>1, <2>2 DEF Repainted
  <2> QED
    BY <1>1, <2>1, <2>2, <2>3, Redrawn
<1>13. Len(r) = Len(m) - e /\ \A i \in 1 .. Len(m) - e : r[i] = m[e + i]
  <2>1. m \in Seq(EntryType) /\ e \in 0 .. Len(m)
    BY <1>1
  <2> QED
    BY <1>6, <2>1, Cuts
<1>14. /\ Draws(w, g, 0, size) /\ Len(w) = Len(p) + Len(r)
       /\ \A i \in 1 .. Len(p) : w[i] = p[i]
       /\ \A i \in 1 .. Len(r) : w[Len(p) + i] = r[i]
  <2>1. Draws(p, g, 0, m[e].end + 1) /\ Draws(r, g, m[e].end + 1, size)
    BY <1>11, <1>12
  <2> QED
    BY <1>7, <2>1, Joins
<1>15. Len(w) = Len(m) + b + t
  BY <1>1, <1>2, <1>11, <1>13, <1>14
<1>16. ASSUME NEW k \in 1 .. s - 1 + b
       PROVE  CellOf(w[k]) = CellOf(m[k])
  <2>1. k \in 1 .. Len(p)
    BY <1>1, <1>2, <1>11
  <2>2. CASE k \in 1 .. s - 1
    BY <1>11, <1>14, <2>1, <2>2
  <2>3. CASE k \notin 1 .. s - 1
    <3>1. k = s /\ b = 1
      BY <1>1, <1>2, <2>3
    <3> QED
      BY <1>11, <1>14, <2>1, <3>1
  <2> QED
    BY <2>2, <2>3
<1>17. ASSUME NEW k \in e + b + 1 .. Len(w)
       PROVE  CellOf(w[k]) = CellOf(m[k - b - t])
  <2>1. CASE k <= Len(p)
    <3>1. t = 1 /\ k = Len(p) /\ k - b - t = e /\ k \in 1 .. Len(p)
      BY <1>1, <1>2, <1>11, <2>1
    <3> QED
      BY <1>11, <1>14, <3>1
  <2>2. CASE k > Len(p)
    <3>1. PICK i \in 1 .. Len(r) : k = Len(p) + i
      <4>1. Len(p) \in Nat /\ Len(r) \in Nat /\ Len(w) = Len(p) + Len(r) /\ k \in Nat
        BY <1>1, <1>2, <1>11, <1>13, <1>14
      <4>2. k - Len(p) \in 1 .. Len(r) /\ k = Len(p) + (k - Len(p))
        BY <2>2, <4>1
      <4> QED
        BY <4>2
    <3>2. w[k] = r[i] /\ r[i] = m[e + i]
      <4>1. w[Len(p) + i] = r[i]
        BY <1>14
      <4>2. r[i] = m[e + i]
        BY <1>13
      <4> QED
        BY <3>1, <4>1, <4>2
    <3>3. k - b - t = e + i
      <4>1. i \in Int
        BY <3>1
      <4>2. Len(p) = e + b + t
        BY <1>11
      <4>3. k = (e + b + t) + i
        BY <3>1, <4>2
      <4>4. e \in Int /\ b \in Int /\ t \in Int
        BY <1>1, <1>2
      <4>5. \A x, y, z, j \in Int : (x + y + z) + j - y - z = x + j
        OBVIOUS
      <4> QED
        BY ONLY <4>1, <4>3, <4>4, <4>5
    <3> QED
      BY <3>2, <3>3
  <2> QED
    BY <1>1, <1>2, <1>11, <2>1, <2>2
<1> QED
  BY <1>8, <1>14, <1>15, <1>16, <1>17

-----------------------------------------------------------------------------
(* Merging. *)

Apart(m) == \A i \in 1 .. Len(m) - 1 : CellOf(m[i]) # CellOf(m[i + 1])

LEMMA ApartIsMerged ==
    ASSUME NEW m, NEW lo, NEW hi, Tiled(m, lo, hi)
    PROVE  Merged(m) <=> Apart(m)
<1>1. \A i \in 1 .. Len(m) - 1 : m[i] \in EntryType /\ m[i + 1] \in EntryType
  BY Typed
<1> QED
  BY <1>1, SameCells DEF Merged, Apart

(* One entry more.                                                         *)
LEMMA Merging ==
    ASSUME NEW d, NEW g, NEW e \in EntryType, Draws(d, g, 0, e.base), Apart(d),
           e.base <= e.end, \A a \in e.base .. e.end : g[a] = CellOf(e)
    PROVE  LET w == CoreMergeGcdMapEntry(d, e)
           IN  /\ Draws(w, g, 0, e.end + 1) /\ Apart(w)
               /\ w # <<>> /\ CellOf(w[Len(w)]) = CellOf(e)
<1>1. /\ Tiled(d, 0, e.base) /\ d \in Seq(EntryType) /\ Len(d) \in Nat /\ (d = <<>> <=> Len(d) = 0)
      /\ \A i \in 1 .. Len(d) : d[i] \in EntryType /\ d[i].base \in Nat /\ d[i].end \in Nat
      /\ e.base \in Nat /\ e.end \in Nat
  BY Typed DEF Draws, Tiled, EntryType
<1>2. PICK w : w = CoreMergeGcdMapEntry(d, e)
  OBVIOUS
<1>3. PICK n : n = Len(d)
  OBVIOUS
<1>4. CASE d # <<>> /\ SameState(d[n], e)
  <2>1. w = [d EXCEPT ![n].end = e.end]
    BY <1>2, <1>3, <1>4 DEF CoreMergeGcdMapEntry, Last
  <2>2. n \in 1 .. Len(d) /\ d[n].end + 1 = e.base
    BY <1>1, <1>3, <1>4 DEF Tiled
  <2>3. CellOf(d[n]) = CellOf(e)
    BY <1>1, <1>4, <2>2, SameCells
  <2>4. PICK x : x = [d[n] EXCEPT !.end = e.end]
    OBVIOUS
  <2>5. x \in EntryType /\ x.base = d[n].base /\ x.end = e.end /\ CellOf(x) = CellOf(e)
    BY <1>1, <2>2, <2>3, <2>4 DEF EntryType, CellOf
  <2>6. w = [d EXCEPT ![n] = x]
    BY <2>1, <2>4
  <2>7. /\ w \in Seq(EntryType) /\ Len(w) = n /\ w[n] = x
        /\ \A i \in 1 .. n : i # n => w[i] = d[i]
    BY <1>1, <1>3, <2>2, <2>5, <2>6
  <2>8. w # <<>> /\ n \in Nat /\ n # 0
    BY <1>1, <1>3, <1>4, <2>7
  <2>9. \A i \in 1 .. n : w[i].base = d[i].base /\ CellOf(w[i]) = CellOf(d[i])
    BY <2>3, <2>5, <2>7
  <2>10. Tiled(w, 0, e.end + 1)
    <3>1. w[1].base = 0 /\ w[Len(w)].end + 1 = e.end + 1
      <4>1. d[1].base = 0
        BY <1>1, <1>4 DEF Tiled
      <4> QED
        BY <2>5, <2>7, <2>8, <2>9, <4>1
    <3>2. ASSUME NEW i \in 1 .. Len(w)
          PROVE  w[i].base <= w[i].end /\ (i < Len(w) => w[i + 1].base = w[i].end + 1)
      <4>1. CASE i = n
        <5>1. d[n].base <= d[n].end
          BY <1>1, <2>2 DEF Tiled
        <5> QED
          BY <1>1, <2>2, <2>5, <2>7, <4>1, <5>1
      <4>2. CASE i # n
        <5>1. i \in 1 .. n /\ i < n /\ i + 1 \in 1 .. n /\ i \in 1 .. Len(d)
          BY <1>3, <2>7, <2>8, <4>2
        <5>2. d[i].base <= d[i].end /\ d[i + 1].base = d[i].end + 1
          BY <1>1, <1>3, <5>1 DEF Tiled
        <5> QED
          BY <2>7, <2>9, <4>2, <5>1, <5>2
      <4> QED
        BY <4>1, <4>2
    <3> QED
      BY <2>7, <2>8, <3>1, <3>2 DEF Tiled
  <2>11. ASSUME NEW i \in 1 .. Len(w), NEW a \in w[i].base .. w[i].end
         PROVE  g[a] = CellOf(w[i])
    <3>1. CASE i = n
      <4>1. a \in d[n].base .. d[n].end \/ a \in e.base .. e.end
        BY <1>1, <2>2, <2>5, <2>7, <3>1
      <4>2. a \in d[n].base .. d[n].end => g[a] = CellOf(d[n])
        BY <2>2 DEF Draws
      <4> QED
        BY <2>3, <2>5, <2>7, <3>1, <4>1, <4>2
    <3>2. CASE i # n
      <4>1. i \in 1 .. Len(d) /\ w[i] = d[i]
        BY <1>3, <2>7, <3>2
      <4> QED
        BY <4>1 DEF Draws
    <3> QED
      BY <3>1, <3>2
  <2>12. Draws(w, g, 0, e.end + 1)
    BY <2>10, <2>11 DEF Draws
  <2>13. Apart(w)
    <3> SUFFICES ASSUME NEW i \in 1 .. Len(w) - 1 PROVE CellOf(w[i]) # CellOf(w[i + 1])
      BY DEF Apart
    <3>1. i \in 1 .. n /\ i + 1 \in 1 .. n /\ i \in 1 .. Len(d) - 1
      BY <1>3, <2>7, <2>8
    <3>2. CellOf(d[i]) # CellOf(d[i + 1])
      BY <3>1 DEF Apart
    <3> QED
      BY <2>9, <3>1, <3>2
  <2> QED
    BY <1>2, <2>5, <2>7, <2>8, <2>12, <2>13
<1>5. CASE ~(d # <<>> /\ SameState(d[n], e))
  <2>1. w = Append(d, e)
    BY <1>2, <1>3, <1>5 DEF CoreMergeGcdMapEntry, Last
  <2>2. w = d \o <<e>>
    BY <1>1, <2>1
  <2>3. Draws(<<e>>, g, e.base, e.end + 1) /\ Len(<<e>>) = 1 /\ <<e>>[1] = e
    BY Single
  <2>4. PICK z : z = <<e>>
    OBVIOUS
  <2>5. /\ Draws(w, g, 0, e.end + 1) /\ Len(w) = n + 1
        /\ \A i \in 1 .. n : w[i] = d[i]
        /\ w[n + 1] = e
    <3>1. Draws(z, g, e.base, e.end + 1) /\ Len(z) = 1 /\ z[1] = e /\ w = d \o z
      BY <2>2, <2>3, <2>4
    <3>2. /\ Draws(w, g, 0, e.end + 1) /\ Len(w) = Len(d) + Len(z)
          /\ \A i \in 1 .. Len(d) : w[i] = d[i]
          /\ \A i \in 1 .. Len(z) : w[Len(d) + i] = z[i]
      <4>1. Draws(d, g, 0, e.base) /\ Draws(z, g, e.base, e.end + 1)
        BY <3>1
      <4>2. w = d \o z
        BY <3>1
      <4> QED
        BY <4>1, <4>2, Joins
    <3>3. 1 \in 1 .. Len(z)
      BY <3>1
    <3> QED
      BY <1>3, <3>1, <3>2, <3>3
  <2>6. Apart(w)
    <3> SUFFICES ASSUME NEW i \in 1 .. Len(w) - 1 PROVE CellOf(w[i]) # CellOf(w[i + 1])
      BY DEF Apart
    <3>1. CASE i = n
      <4>1. d # <<>> /\ n \in 1 .. Len(d)
        BY <1>1, <1>3, <3>1
      <4>2. ~SameState(d[n], e)
        BY <1>5, <4>1
      <4>3. CellOf(d[n]) # CellOf(e)
        BY <1>1, <4>1, <4>2, SameCells
      <4> QED
        BY <1>3, <2>5, <3>1, <4>1, <4>3
    <3>2. CASE i # n
      <4>1. i \in 1 .. n /\ i + 1 \in 1 .. n /\ i \in 1 .. Len(d) - 1
        BY <1>1, <1>3, <2>5, <3>2
      <4>2. CellOf(d[i]) # CellOf(d[i + 1])
        BY <4>1 DEF Apart
      <4> QED
        BY <2>5, <4>1, <4>2
    <3> QED
      BY <3>1, <3>2
  <2>7. w # <<>>
    <3>1. Len(w) # 0
      BY <1>1, <1>3, <2>5
    <3> QED
      BY <3>1
  <2> QED
    BY <1>2, <2>5, <2>6, <2>7
<1> QED
  BY <1>4, <1>5

Cleaning(m, s, high, done) ==
    done = [i \in s - 1 .. high |->
               IF i < s THEN SubSeq(m, 1, i) ELSE CoreMergeGcdMapEntry(done[i - 1], m[i])]

LEMMA CleaningExists ==
    ASSUME NEW m \in Seq(EntryType), NEW s \in 1 .. Len(m), NEW high \in s .. Len(m)
    PROVE  \E done : Cleaning(m, s, high, done)
<1> DEFINE V == Seq(EntryType)
           Grown(i, w) == IF i \in s .. high THEN CoreMergeGcdMapEntry(w, m[i]) ELSE w
<1>1. Len(m) \in Nat /\ SubSeq(m, 1, s - 1) \in V /\ \A i \in 1 .. Len(m) : m[i] \in EntryType
  BY Cuts, LenProperties
<1>2. ASSUME NEW i \in Int, NEW w \in V PROVE Grown(i, w) \in V
  <2>1. CASE i \in s .. high
    <3>1. m[i] \in EntryType
      BY <1>1, <2>1
    <3>2. CASE w # <<>> /\ SameState(w[Len(w)], m[i])
      <4>1. Len(w) \in 1 .. Len(w) /\ Len(w) \in Nat
        BY <3>2, EmptySeq
      <4>2. PICK x : x = [w[Len(w)] EXCEPT !.end = m[i].end]
        OBVIOUS
      <4>3. x \in EntryType
        <5>1. w[Len(w)] \in EntryType
          BY <4>1
        <5> QED
          BY <3>1, <4>2, <5>1 DEF EntryType
      <4>4. [w EXCEPT ![Len(w)] = x] \in Seq(EntryType)
        BY <4>1, <4>3
      <4>5. CoreMergeGcdMapEntry(w, m[i]) = [w EXCEPT ![Len(w)] = x]
        BY <3>2, <4>2 DEF CoreMergeGcdMapEntry, Last
      <4> QED
        BY <2>1, <4>4, <4>5
    <3>3. CASE ~(w # <<>> /\ SameState(w[Len(w)], m[i]))
      <4>1. CoreMergeGcdMapEntry(w, m[i]) = Append(w, m[i])
        BY <3>3 DEF CoreMergeGcdMapEntry, Last
      <4> QED
        BY <2>1, <3>1, <4>1, AppendProperties
    <3> QED
      BY <3>2, <3>3
  <2>2. CASE i \notin s .. high
    BY <2>2
  <2> QED
    BY <2>1, <2>2
<1>3. PICK h : h = [p \in Int \X V |-> Grown(p[1], p[2])]
  OBVIOUS
<1>4. h \in [Int \X V -> V] /\ \A i \in Int, w \in V : h[<<i, w>>] = Grown(i, w)
  <2> HIDE DEF V, Grown
  <2>1. \A p \in Int \X V : p[1] \in Int /\ p[2] \in V
    OBVIOUS
  <2>2. \A p \in Int \X V : Grown(p[1], p[2]) \in V
    BY <1>2, <2>1
  <2>3. h \in [Int \X V -> V]
    BY <1>3, <2>2
  <2>4. ASSUME NEW i \in Int, NEW w \in V PROVE h[<<i, w>>] = Grown(i, w)
    <3>1. <<i, w>> \in Int \X V /\ <<i, w>>[1] = i /\ <<i, w>>[2] = w
      OBVIOUS
    <3> QED
      BY <1>3, <3>1
  <2> QED
    BY <2>3, <2>4
<1>5. PICK low \in Int : low = s - 1 /\ low <= high /\ high \in Int
  BY <1>1
<1>6. PICK v \in V : v = SubSeq(m, 1, low)
  BY <1>1, <1>5
<1>7. PICK f : Recurs(f, V, low, high, v, h)
  <2> HIDE DEF V, Grown
  <2> QED
    BY <1>4, <1>5, <1>6, Recursion
<1>8. ASSUME NEW i \in low .. high
      PROVE  f[i] = IF i < s THEN SubSeq(m, 1, i) ELSE CoreMergeGcdMapEntry(f[i - 1], m[i])
  <2>1. f[i] = IF i <= low THEN v ELSE h[<<i, f[i - 1]>>]
    <3> HIDE DEF V
    <3> QED
      BY <1>7 DEF Recurs
  <2>2. CASE i < s
    <3>1. i = low /\ i <= low
      BY <1>1, <1>5, <2>2
    <3> QED
      BY <1>6, <2>1, <2>2, <3>1
  <2>3. CASE ~(i < s)
    <3>1. i \in s .. high /\ i \in Int /\ i - 1 \in low .. high /\ ~(i <= low)
      BY <1>1, <1>5, <2>3
    <3>2. f[i - 1] \in V
      <4> HIDE DEF V
      <4> QED
        BY <1>7, <3>1 DEF Recurs
    <3>3. h[<<i, f[i - 1]>>] = Grown(i, f[i - 1])
      <4> HIDE DEF V, Grown
      <4> QED
        BY <1>4, <3>1, <3>2
    <3> QED
      BY <2>1, <2>3, <3>1, <3>3
  <2> QED
    BY <2>2, <2>3
<1>9. Cleaning(m, s, high, f)
  <2> HIDE DEF V
  <2>1. DOMAIN f = low .. high /\ f = [i \in low .. high |-> f[i]]
    BY <1>7 DEF Recurs
  <2>2. f = [i \in low .. high |-> IF i < s THEN SubSeq(m, 1, i) ELSE CoreMergeGcdMapEntry(f[i - 1], m[i])]
    BY <1>8, <2>1
  <2> QED
    BY <1>5, <2>2 DEF Cleaning
<1> QED
  BY <1>9

LEMMA CleanupIs ==
    ASSUME NEW m \in Seq(EntryType), NEW s \in 1 .. Len(m), NEW e \in s .. Len(m)
    PROVE  \E done, high :
              /\ high = (IF e < Len(m) THEN e + 1 ELSE e) /\ Cleaning(m, s, high, done)
              /\ CoreCleanupGcdMapEntry(m, s, e) = done[high] \o SubSeq(m, high + 1, Len(m))
<1>1. PICK high : high = IF e < Len(m) THEN e + 1 ELSE e
  OBVIOUS
<1>2. Len(m) \in Nat /\ high \in s .. Len(m)
  BY <1>1, LenProperties
<1>3. Min({e + 1, Len(m)}) = high
  <2>1. e \in Int /\ e + 1 \in Int /\ Len(m) \in Int /\ e <= Len(m)
    BY <1>2
  <2>2. high \in {e + 1, Len(m)} /\ high <= e + 1 /\ high <= Len(m)
    BY <1>1, <2>1
  <2>3. PICK T : T = {e + 1, Len(m)}
    OBVIOUS
  <2>4. T \subseteq Int /\ high \in T /\ \A y \in T : high <= y
    BY <2>1, <2>2, <2>3
  <2>5. Min(T) = high
    BY <2>4, Least
  <2> QED
    BY <2>3, <2>5
<1> DEFINE k == CHOOSE done : Cleaning(m, s, high, done)
<1>4. Cleaning(m, s, high, k)
  BY <1>2, CleaningExists
<1>5. CoreCleanupGcdMapEntry(m, s, e) = k[high] \o SubSeq(m, high + 1, Len(m))
  BY <1>3 DEF CoreCleanupGcdMapEntry, Cleaning
<1> QED
  BY <1>1, <1>4, <1>5

(* What is done up to entry i.                                             *)
Gathered(m, g, i, d) ==
    /\ Draws(d, g, 0, Mid(m, 0, i)) /\ Apart(d)
    /\ i > 0 => d # <<>> /\ CellOf(d[Len(d)]) = CellOf(m[i])

LEMMA GatheredHolds ==
    ASSUME NEW size \in Nat, NEW m, NEW g, Draws(m, g, 0, size),
           NEW s \in 1 .. Len(m), NEW high \in s .. Len(m),
           \A k \in 1 .. Len(m) - 1 : k < s - 1 => CellOf(m[k]) # CellOf(m[k + 1]),
           NEW done, Cleaning(m, s, high, done)
    PROVE  Gathered(m, g, high, done[high])
<1>1. Tiled(m, 0, size) /\ m \in Seq(EntryType)
  BY DEF Draws, Tiled
<1>2. /\ Len(m) \in Nat
      /\ \A i \in 1 .. Len(m) : m[i] \in EntryType /\ m[i].base \in Nat /\ m[i].end \in Nat
  BY <1>1, Typed
<1>3. \A i \in s - 1 .. high :
         done[i] = IF i < s THEN SubSeq(m, 1, i) ELSE CoreMergeGcdMapEntry(done[i - 1], m[i])
  BY DEF Cleaning
<1>4. Gathered(m, g, s - 1, done[s - 1])
  <2>1. PICK k \in 0 .. Len(m) : k = s - 1 /\ k \in s - 1 .. high /\ k < s /\ k <= Len(m) - 1
    BY <1>2
  <2>2. PICK p : p = SubSeq(m, 1, k)
    OBVIOUS
  <2>3. done[k] = p
    BY <1>3, <2>1, <2>2
  <2>4. Draws(p, g, 0, Mid(m, 0, k))
    BY <2>1, <2>2, Parts
  <2>5. p \in Seq(EntryType) /\ Len(p) = k /\ \A i \in 1 .. k : p[i] = m[i]
    BY <1>1, <2>1, <2>2, Cuts
  <2>6. Apart(p)
    <3> SUFFICES ASSUME NEW i \in 1 .. Len(p) - 1 PROVE CellOf(p[i]) # CellOf(p[i + 1])
      BY DEF Apart
    <3>1. i \in 1 .. k /\ i + 1 \in 1 .. k /\ i \in 1 .. Len(m) - 1 /\ i < s - 1
      BY <1>2, <2>1, <2>5
    <3> QED
      BY <2>5, <3>1
  <2>7. k > 0 => p # <<>> /\ CellOf(p[Len(p)]) = CellOf(m[k])
    BY <2>1, <2>5
  <2>8. Gathered(m, g, k, p)
    BY <2>4, <2>6, <2>7 DEF Gathered
  <2> QED
    BY <2>1, <2>3, <2>8
<1>5. ASSUME NEW i \in s .. high, Gathered(m, g, i - 1, done[i - 1])
      PROVE  Gathered(m, g, i, done[i])
  <2>1. i \in 1 .. Len(m) /\ i \in s - 1 .. high /\ ~(i < s) /\ i # 0 /\ i > 0
    BY <1>2
  <2>2. PICK o : o = done[i - 1]
    OBVIOUS
  <2>3. PICK w : w = CoreMergeGcdMapEntry(o, m[i])
    OBVIOUS
  <2>4. done[i] = w
    BY <1>3, <2>1, <2>2, <2>3
  <2>5. Mid(m, 0, i - 1) = m[i].base /\ Mid(m, 0, i) = m[i].end + 1
    <3>1. CASE i = 1
      BY <1>1, <2>1, <3>1 DEF Mid, Tiled
    <3>2. CASE i # 1
      <4>1. PICK h \in 1 .. Len(m) : i = h + 1 /\ h = i - 1 /\ h < Len(m) /\ h # 0
        <5>1. i - 1 \in 1 .. Len(m) /\ i = (i - 1) + 1 /\ i - 1 < Len(m) /\ i - 1 # 0
          BY <1>2, <2>1, <3>2
        <5> QED
          BY <5>1
      <4>2. m[h + 1].base = m[h].end + 1
        BY <1>1, <4>1 DEF Tiled
      <4> QED
        BY <2>1, <4>1, <4>2 DEF Mid
    <3> QED
      BY <3>1, <3>2
  <2>6. Draws(o, g, 0, m[i].base) /\ Apart(o)
    BY <1>5, <2>2, <2>5 DEF Gathered
  <2>7. /\ m[i] \in EntryType /\ m[i].base <= m[i].end
        /\ \A a \in m[i].base .. m[i].end : g[a] = CellOf(m[i])
    BY <1>1, <1>2, <2>1 DEF Tiled, Draws
  <2>8. /\ Draws(w, g, 0, m[i].end + 1) /\ Apart(w)
        /\ w # <<>> /\ CellOf(w[Len(w)]) = CellOf(m[i])
    BY <2>3, <2>6, <2>7, Merging
  <2> QED
    BY <2>4, <2>5, <2>8 DEF Gathered
<1> DEFINE P(n) == s - 1 + n <= high => Gathered(m, g, s - 1 + n, done[s - 1 + n])
           S == {n \in Nat : P(n)}
<1>6. 0 \in S
  <2>1. s - 1 + 0 = s - 1
    BY <1>2
  <2> QED
    BY <1>4, <2>1
<1>7. \A n \in Nat : n \in S => n + 1 \in S
  <2> SUFFICES ASSUME NEW n \in Nat, P(n), s - 1 + (n + 1) <= high
               PROVE  Gathered(m, g, s - 1 + (n + 1), done[s - 1 + (n + 1)])
    OBVIOUS
  <2>1. PICK i : i = s - 1 + (n + 1)
    OBVIOUS
  <2>2. i \in s .. high /\ i - 1 = s - 1 + n /\ s - 1 + n <= high
    BY <1>2, <2>1
  <2>3. Gathered(m, g, i - 1, done[i - 1])
    BY <2>2
  <2>4. Gathered(m, g, i, done[i])
    BY <1>5, <2>2, <2>3
  <2> QED
    BY <2>1, <2>4
<1>8. Nat \subseteq S
  <2> HIDE DEF S
  <2> QED
    BY <1>6, <1>7, Induction
<1>9. PICK n \in Nat : high = s - 1 + n
  <2>1. high - (s - 1) \in Nat /\ high = s - 1 + (high - (s - 1))
    BY <1>2
  <2> QED
    BY <2>1
<1>10. P(n)
  BY <1>8
<1>11. s - 1 + n <= high
  BY <1>2, <1>9
<1> QED
  BY <1>9, <1>10, <1>11

(* After merging, neighbours differ if those further away did.             *)
LEMMA Cleans ==
    ASSUME NEW size \in Nat, NEW m, NEW g, Draws(m, g, 0, size),
           NEW s \in 1 .. Len(m), NEW e \in s .. Len(m),
           \A k \in 1 .. Len(m) - 1 : k < s - 1 \/ k > e => CellOf(m[k]) # CellOf(m[k + 1])
    PROVE  /\ Draws(CoreCleanupGcdMapEntry(m, s, e), g, 0, size)
           /\ Apart(CoreCleanupGcdMapEntry(m, s, e))
<1>1. Tiled(m, 0, size) /\ m \in Seq(EntryType)
  BY DEF Draws, Tiled
<1>2. Len(m) \in Nat
  BY <1>1, Typed
<1>3. PICK done, high :
         /\ high = (IF e < Len(m) THEN e + 1 ELSE e) /\ Cleaning(m, s, high, done)
         /\ CoreCleanupGcdMapEntry(m, s, e) = done[high] \o SubSeq(m, high + 1, Len(m))
  BY <1>1, CleanupIs
<1>4. high \in s .. Len(m) /\ high \in 0 .. Len(m) /\ high > 0 /\ (high < Len(m) => high > e)
  BY <1>2, <1>3
<1>5. PICK d : d = done[high]
  OBVIOUS
<1>6. PICK r : r = SubSeq(m, high + 1, Len(m))
  OBVIOUS
<1>7. PICK w : w = d \o r
  OBVIOUS
<1>8. Gathered(m, g, high, d)
  <2>1. \A k \in 1 .. Len(m) - 1 : k < s - 1 => CellOf(m[k]) # CellOf(m[k + 1])
    OBVIOUS
  <2> QED
    BY <1>3, <1>4, <1>5, <2>1, GatheredHolds
<1>9. /\ Draws(d, g, 0, Mid(m, 0, high)) /\ Apart(d)
      /\ d # <<>> /\ CellOf(d[Len(d)]) = CellOf(m[high])
  BY <1>4, <1>8 DEF Gathered
<1>10. Draws(r, g, Mid(m, 0, high), size)
  BY <1>4, <1>6, Parts
<1>11. Len(r) = Len(m) - high /\ \A i \in 1 .. Len(m) - high : r[i] = m[high + i]
  BY <1>1, <1>4, <1>6, Cuts
<1>12. /\ Draws(w, g, 0, size) /\ Len(w) = Len(d) + Len(r)
       /\ \A i \in 1 .. Len(d) : w[i] = d[i]
       /\ \A i \in 1 .. Len(r) : w[Len(d) + i] = r[i]
  <2>1. Draws(d, g, 0, Mid(m, 0, high))
    BY <1>9
  <2> QED
    BY <1>7, <1>10, <2>1, Joins
<1>13. Len(d) \in Nat /\ Len(d) # 0
  <2>1. Tiled(d, 0, Mid(m, 0, high))
    BY <1>9 DEF Draws
  <2> QED
    BY <1>9, <2>1, Typed
<1>14. Apart(w)
  <2> SUFFICES ASSUME NEW i \in 1 .. Len(w) - 1 PROVE CellOf(w[i]) # CellOf(w[i + 1])
    BY DEF Apart
  <2>1. Len(w) = Len(d) + (Len(m) - high) /\ i \in Int
    BY <1>2, <1>4, <1>11, <1>12, <1>13
  <2>2. CASE i < Len(d)
    <3>1. i \in 1 .. Len(d) /\ i + 1 \in 1 .. Len(d) /\ i \in 1 .. Len(d) - 1
      BY <1>13, <2>2
    <3>2. CellOf(d[i]) # CellOf(d[i + 1])
      BY <1>9, <3>1 DEF Apart
    <3> QED
      BY <1>12, <3>1, <3>2
  <2>3. CASE i = Len(d)
    <3>1. i \in 1 .. Len(d) /\ 1 \in 1 .. Len(m) - high /\ high \in 1 .. Len(m) - 1 /\ high > e
      BY <1>2, <1>4, <1>13, <2>1, <2>3
    <3>2. w[i] = d[Len(d)] /\ w[i + 1] = m[high + 1]
      BY <1>11, <1>12, <2>3, <3>1
    <3>3. CellOf(m[high]) # CellOf(m[high + 1])
      BY <3>1
    <3> QED
      BY <1>9, <3>2, <3>3
  <2>4. CASE i > Len(d)
    <3>1. PICK j \in 1 .. Len(m) - high : j = i - Len(d)
      <4>1. high \in Int /\ Len(m) \in Int /\ Len(d) \in Int /\ i <= Len(w) - 1
        BY <1>2, <1>4, <1>13, <2>1
      <4>2. i - Len(d) \in 1 .. Len(m) - high
        BY <2>4, <2>1, <4>1
      <4> QED
        BY <4>2
    <3>2. i = Len(d) + j /\ i + 1 = Len(d) + (j + 1) /\ j + 1 \in 1 .. Len(m) - high
      BY <1>2, <1>4, <1>13, <2>1, <3>1
    <3>3. w[i] = r[j] /\ w[i + 1] = r[j + 1]
      BY <1>11, <1>12, <3>2
    <3>4. r[j] = m[high + j] /\ r[j + 1] = m[high + (j + 1)]
      BY <1>11, <3>2
    <3>5. PICK k : k = high + j
      OBVIOUS
    <3>6. k \in 1 .. Len(m) - 1 /\ k > e /\ high + (j + 1) = k + 1
      BY <1>2, <1>4, <3>2, <3>5
    <3>7. CellOf(m[k]) # CellOf(m[k + 1])
      BY <3>6
    <3> QED
      BY <3>3, <3>4, <3>5, <3>6, <3>7
  <2> QED
    BY <1>13, <2>1, <2>2, <2>3, <2>4
<1> QED
  BY <1>3, <1>5, <1>6, <1>7, <1>12, <1>14

-----------------------------------------------------------------------------
(* What a service makes of a map. *)

Kept(m, size) == Tiled(m, 0, size) /\ Merged(m)

(* The cells of the range are changed, and no others.                      *)
LEMMA Converts ==
    ASSUME NEW size, NEW base, NEW length, Within(base, length, size),
           NEW change, Legal(change), NEW m, Kept(m, size)
    PROVE  LET w == Converted(m, base, length, change)
           IN  /\ Kept(w, size)
               /\ Cells(w, size) =
                      [a \in 0 .. size - 1 |->
                          IF base <= a /\ a < base + length
                          THEN Changed(Cells(m, size)[a], change) ELSE Cells(m, size)[a]]
<1>1. /\ Tiled(m, 0, size) /\ m \in Seq(EntryType) /\ Len(m) \in Nat /\ Apart(m)
      /\ size \in Nat /\ base \in Nat /\ length \in Nat
  <2>1. Tiled(m, 0, size) /\ Merged(m)
    BY DEF Kept
  <2>2. m \in Seq(EntryType) /\ Len(m) \in Nat
    BY <2>1, Typed DEF Tiled
  <2> QED
    BY <2>1, <2>2, ApartIsMerged, Numbers
<1>2. PICK s, e : CoreSearchGcdMapEntry(m, base, length) = <<s, e>> /\ Found(m, base, length, s, e)
  <2>1. Sized(size) /\ base \in 0 .. size - 1 /\ length \in 1 .. size /\ base + length <= size
    BY DEF Within
  <2> QED
    BY <1>1, <2>1, SearchFinds
<1>3. s \in 1 .. Len(m) /\ e \in 1 .. Len(m) /\ s <= e
  BY <1>2 DEF Found
<1>4. PICK f : f = Cells(m, size)
  OBVIOUS
<1>5. Draws(m, f, 0, size)
  BY <1>1, <1>4, Pictured
<1>6. PICK g : g = Repainted(f, base, length, change)
  OBVIOUS
<1>7. PICK b : b = BelowIt(m[s], base)
  OBVIOUS
<1>8. PICK t : t = AboveIt(m[e], base, length)
  OBVIOUS
<1>9. PICK v : v = Split(m, s, e, base, length, change)
  OBVIOUS
<1>10. PICK w : w = CoreCleanupGcdMapEntry(v, s + b, e + b)
  OBVIOUS
<1>11. b \in {0, 1} /\ t \in {0, 1}
  BY <1>7, <1>8 DEF BelowIt, AboveIt
<1>12. Converted(m, base, length, change) = w
  <2>1. (IF base > m[s].base THEN s + 1 ELSE s) = s + b
    BY <1>3, <1>7 DEF BelowIt
  <2>2. (s + b) + (e - s) = e + b
    BY <1>3, <1>11
  <2>3. <<s, e>>[1] = s /\ <<s, e>>[2] = e
    OBVIOUS
  <2> QED
    BY <1>2, <1>9, <1>10, <2>1, <2>2, <2>3 DEF Converted
<1>13. /\ Draws(v, g, 0, size) /\ Len(v) = Len(m) + b + t
       /\ \A k \in 1 .. s - 1 + b : CellOf(v[k]) = CellOf(m[k])
       /\ \A k \in e + b + 1 .. Len(v) : CellOf(v[k]) = CellOf(m[k - b - t])
  BY <1>2, <1>5, <1>6, <1>7, <1>8, <1>9, Splits
<1>14. ASSUME NEW k \in 1 .. Len(v) - 1, k < (s + b) - 1 \/ k > e + b
       PROVE  CellOf(v[k]) # CellOf(v[k + 1])
  <2>1. CASE k < (s + b) - 1
    <3>1. k \in 1 .. s - 1 + b /\ k + 1 \in 1 .. s - 1 + b /\ k \in 1 .. Len(m) - 1
      BY <1>1, <1>3, <1>11, <2>1
    <3>2. CellOf(m[k]) # CellOf(m[k + 1])
      BY <1>1, <3>1 DEF Apart
    <3> QED
      BY <1>13, <3>1, <3>2
  <2>2. CASE k > e + b
    <3>1. /\ Len(v) = Len(m) + b + t /\ Len(m) \in Int /\ b \in Int /\ t \in Int /\ e \in Int
          /\ b >= 0 /\ t >= 0 /\ t <= 1 /\ e >= 1 /\ k \in Int /\ k <= Len(v) - 1
      BY <1>1, <1>3, <1>11, <1>13
    <3>2. PICK j : j = k - b - t
      OBVIOUS
    <3>3. /\ k \in e + b + 1 .. Len(v) /\ k + 1 \in e + b + 1 .. Len(v)
          /\ (k + 1) - b - t = j + 1 /\ j \in 1 .. Len(m) - 1
      BY <2>2, <3>1, <3>2
    <3>4. CellOf(v[k]) = CellOf(m[j]) /\ CellOf(v[k + 1]) = CellOf(m[j + 1])
      BY <1>13, <3>2, <3>3
    <3>5. CellOf(m[j]) # CellOf(m[j + 1])
      BY <1>1, <3>3 DEF Apart
    <3> QED
      BY <3>4, <3>5
  <2> QED
    BY <1>14, <2>1, <2>2
<1>15. Draws(w, g, 0, size) /\ Apart(w)
  <2>1. s + b \in 1 .. Len(v) /\ e + b \in s + b .. Len(v)
    BY <1>1, <1>3, <1>11, <1>13
  <2>2. Draws(v, g, 0, size)
    BY <1>13
  <2> QED
    BY <1>1, <1>10, <1>14, <2>1, <2>2, Cleans
<1>16. Kept(w, size)
  <2>1. Tiled(w, 0, size)
    BY <1>15 DEF Draws
  <2> QED
    BY <1>15, <2>1, ApartIsMerged DEF Kept
<1>17. Cells(w, size) = [a \in 0 .. size - 1 |-> g[a]]
  BY <1>1, <1>15, PictureOf
<1>18. \A a \in 0 .. size - 1 :
          g[a] = IF base <= a /\ a < base + length
                 THEN Changed(f[a], change) ELSE f[a]
  BY <1>1, <1>6 DEF Repainted
<1>19. Cells(w, size) =
          [a \in 0 .. size - 1 |->
              IF base <= a /\ a < base + length THEN Changed(f[a], change) ELSE f[a]]
  BY <1>17, <1>18
<1> QED
  BY <1>4, <1>12, <1>16, <1>19

-----------------------------------------------------------------------------
(* Alignment. *)

LEMMA Divides ==
    ASSUME NEW v \in Nat, NEW u \in Nat \ {0}
    PROVE  /\ v \div u \in Nat /\ v % u \in 0 .. u - 1
           /\ v = (v \div u) * u + (v % u)
<1>1. v % u \in 0 .. u - 1
  OBVIOUS
<1>2. v = (v \div u) * u + (v % u)
  OBVIOUS
<1>3. v \div u \in Int
  OBVIOUS
<1>4. v \div u >= 0
  OBVIOUS
<1> QED
  BY <1>1, <1>2, <1>3, <1>4

LEMMA Multiple ==
    ASSUME NEW k \in Nat, NEW u \in Nat \ {0}
    PROVE  (k * u) % u = 0
OBVIOUS

(* Of two multiples the smaller is smaller by a unit.                      *)
LEMMA Multiples ==
    ASSUME NEW u \in Nat \ {0}, NEW a \in Nat, NEW b \in Nat, a % u = 0, b % u = 0, a < b
    PROVE  a + u <= b
<1>1. PICK q \in Nat : q = a \div u
  BY Divides
<1>2. PICK k \in Nat : k = b \div u
  BY Divides
<1>3. a = q * u + 0 /\ b = k * u + 0
  BY <1>1, <1>2, Divides
<1>4. CASE k <= q
  <2>1. PICK d \in Nat : q = k + d
    <3>1. q - k \in Nat /\ q = k + (q - k)
      BY <1>4
    <3> QED
      BY <3>1
  <2>2. q * u = k * u + d * u /\ d * u \in Nat /\ k * u \in Nat
    BY <2>1
  <2> QED
    BY <1>3, <2>2
<1>5. CASE q < k
  <2>1. PICK d \in Nat : k = q + d + 1
    <3>1. k - q - 1 \in Nat /\ k = q + (k - q - 1) + 1
      BY <1>5
    <3> QED
      BY <3>1
  <2>2. k * u = q * u + d * u + u /\ d * u \in Nat /\ q * u \in Nat
    BY <2>1
  <2> QED
    BY <1>3, <2>2
<1> QED
  BY <1>4, <1>5

LEMMA DownTo ==
    ASSUME NEW v \in Nat, NEW u \in Nat \ {0}
    PROVE  /\ AlignDown(v, u) \in Nat /\ AlignDown(v, u) <= v /\ v < AlignDown(v, u) + u
           /\ AlignDown(v, u) % u = 0
           /\ \A b \in Nat : b % u = 0 /\ b <= v => b <= AlignDown(v, u)
<1>1. PICK q \in Nat : q = v \div u
  BY Divides
<1>2. PICK r \in 0 .. u - 1 : r = v % u
  BY Divides
<1>3. v = q * u + r
  BY <1>1, <1>2, Divides
<1>4. AlignDown(v, u) = q * u
  BY <1>2, <1>3 DEF AlignDown
<1>5. q * u \in Nat /\ (q * u) % u = 0
  BY Multiple
<1>6. AlignDown(v, u) \in Nat /\ AlignDown(v, u) <= v /\ v < AlignDown(v, u) + u /\ AlignDown(v, u) % u = 0
  BY <1>2, <1>3, <1>4, <1>5
<1>7. ASSUME NEW b \in Nat, b % u = 0, b <= v, AlignDown(v, u) < b
      PROVE  FALSE
  <2>1. AlignDown(v, u) + u <= b
    BY <1>6, <1>7, Multiples
  <2> QED
    BY <1>6, <1>7, <2>1
<1> QED
  BY <1>6, <1>7

LEMMA UpTo ==
    ASSUME NEW v \in Nat, NEW u \in Nat \ {0}, v + u - 1 < Width
    PROVE  /\ AlignUp(v, u) \in Nat /\ v <= AlignUp(v, u) /\ AlignUp(v, u) < v + u
           /\ AlignUp(v, u) % u = 0
           /\ \A b \in Nat : b % u = 0 /\ v <= b => AlignUp(v, u) <= b
<1>1. v + u - 1 \in 0 .. Width - 1 /\ Width \in Nat /\ v + u - 1 \in Nat
  BY Spaces
<1>2. AlignUp(v, u) = AlignDown(v + u - 1, u)
  BY <1>1 DEF AlignUp
<1>3. PICK w \in Nat : w = AlignUp(v, u) /\ w <= v + u - 1 /\ v + u - 1 < w + u /\ w % u = 0
  BY <1>1, <1>2, DownTo
<1>4. ASSUME NEW b \in Nat, b % u = 0, v <= b, w > b
      PROVE  FALSE
  <2>1. b + u <= w
    BY <1>3, <1>4, Multiples
  <2> QED
    BY <1>3, <1>4, <2>1
<1> QED
  BY <1>3, <1>4

-----------------------------------------------------------------------------
(* What the entries of a range, and single descriptors, say of addresses. *)

LEMMA RangeCells ==
    ASSUME NEW size, NEW base, NEW length, Within(base, length, size),
           NEW m, Tiled(m, 0, size), NEW s, NEW e, Found(m, base, length, s, e)
    PROVE  /\ \A a \in base .. base + length - 1 : \E i \in s .. e :
                 Covers(m[i], a) /\ Cells(m, size)[a] = CellOf(m[i])
           /\ \A i \in s .. e : \E a \in base .. base + length - 1 :
                 Covers(m[i], a) /\ Cells(m, size)[a] = CellOf(m[i])
<1>1. base \in Nat /\ length \in Nat /\ length > 0 /\ size \in Nat /\ base + length <= size
  BY Numbers
<1>2. /\ Len(m) \in Nat
      /\ \A j \in 1 .. Len(m) : m[j].base \in Nat /\ m[j].end \in Nat
  BY Typed
<1>3. /\ s \in 1 .. Len(m) /\ e \in 1 .. Len(m) /\ s <= e
      /\ m[s].base <= base /\ base + length - 1 <= m[e].end
  BY DEF Found, Covers
<1>4. ASSUME NEW a \in base .. base + length - 1
      PROVE  \E i \in s .. e : Covers(m[i], a) /\ Cells(m, size)[a] = CellOf(m[i])
  <2>1. a \in 0 .. size - 1 /\ a \in Nat /\ base <= a /\ a <= base + length - 1
    BY <1>1
  <2>2. PICK i \in 1 .. Len(m) : Covers(m[i], a)
    BY <1>1, <2>1, Covered
  <2>3. Cells(m, size)[a] = CellOf(m[i])
    BY <1>1, <2>1, <2>2, CellAt
  <2>4. i < s => m[i].end < m[s].base
    BY <1>3, Rises
  <2>5. e < i => m[e].end < m[i].base
    BY <1>3, Rises
  <2>6. i \in s .. e
    BY <1>1, <1>2, <1>3, <2>1, <2>2, <2>4, <2>5 DEF Covers
  <2> QED
    BY <2>2, <2>3, <2>6
<1>5. ASSUME NEW i \in s .. e
      PROVE  \E a \in base .. base + length - 1 : Covers(m[i], a) /\ Cells(m, size)[a] = CellOf(m[i])
  <2>1. /\ i \in 1 .. Len(m) /\ m[i].base <= m[i].end /\ base <= m[i].end /\ m[i].base < base + length
        /\ m[i].base \in Nat /\ m[i].end \in Nat
    BY <1>2, <1>3, Meets
  <2>2. PICK a \in Nat : a = IF base <= m[i].base THEN m[i].base ELSE base
    BY <1>1, <2>1
  <2>3. Covers(m[i], a) /\ a \in base .. base + length - 1 /\ a \in 0 .. size - 1
    BY <1>1, <2>1, <2>2 DEF Covers
  <2>4. Cells(m, size)[a] = CellOf(m[i])
    BY <1>1, <2>1, <2>3, CellAt
  <2> QED
    BY <2>3, <2>4
<1> QED
  BY <1>4, <1>5

LEMMA LastEnd ==
    ASSUME NEW size, Sized(size), NEW m, Tiled(m, 0, size)
    PROVE  m # <<>> /\ Last(m).end = size - 1 /\ Len(m) \in Nat /\ Len(m) # 0
<1>1. m # <<>> /\ m[Len(m)].end + 1 = size /\ size \in Nat
  BY DEF Tiled, Sized
<1>2. Len(m) \in Nat /\ Len(m) # 0
  BY <1>1, Typed
<1>3. m[Len(m)].end \in Nat
  BY <1>2, Typed
<1> QED
  BY <1>1, <1>2, <1>3 DEF Last

(* The free addresses are those whose cells an allocation may take.        *)
LEMMA FreeCells ==
    ASSUME NEW size, Sized(size), NEW m, Tiled(m, 0, size), NEW kind
    PROVE  Free(m, kind) =
               {a \in 0 .. size - 1 : Cells(m, size)[a].kind = kind /\ Cells(m, size)[a].owner = NoOwner}
<1>1. size \in Nat /\ size > 0
  BY DEF Sized
<1>2. ASSUME NEW a \in 0 .. size - 1
      PROVE  CoreAllocateSpaceCheckEntry(SpaceDescriptor(m, a), kind)
                <=> Cells(m, size)[a].kind = kind /\ Cells(m, size)[a].owner = NoOwner
  <2>1. 1 \in 1 .. size /\ a + 1 <= size /\ a \in Nat
    BY <1>1
  <2>2. PICK s, e : CoreSearchGcdMapEntry(m, a, 1) = <<s, e>> /\ Found(m, a, 1, s, e)
    BY <2>1, SearchFinds
  <2>3. s \in 1 .. Len(m) /\ Covers(m[s], a) /\ SpaceDescriptor(m, a) = m[s]
    BY <2>2 DEF Found, SpaceDescriptor
  <2>4. Cells(m, size)[a] = CellOf(m[s])
    BY <1>1, <2>3, CellAt
  <2> QED
    BY <2>3, <2>4 DEF CoreAllocateSpaceCheckEntry, CellOf
<1>3. Last(m).end = size - 1
  BY LastEnd
<1> QED
  BY <1>2, <1>3 DEF Free

-----------------------------------------------------------------------------
(* The searches for space. *)

Asked(request, size) ==
    /\ request.base \in 0 .. size - 1 /\ request.length \in 1 .. size
    /\ request.unit \in Nat \ {0} /\ 2 * request.unit <= Width

LEMMA RequestsAsk ==
    ASSUME NEW size, NEW kinds, NEW request \in Requests(size, kinds)
    PROVE  Asked(request, size) /\ request.type \in AllocateTypes /\ request.kind \in kinds
<1>1. /\ request.type \in AllocateTypes /\ request.kind \in kinds
      /\ request.base \in 0 .. size - 1 /\ request.length \in 1 .. size
      /\ request.unit \in {2 ^ n : n \in 0 .. MaxAlignment}
  BY DEF Requests
<1>2. request.unit \in 1 .. Width \div 2
  BY <1>1, GcdAssumption
<1>3. Width \in Nat
  BY GcdAssumption
<1> QED
  BY <1>1, <1>2, <1>3 DEF Asked

(* A base from which the entries of the range serve the request.           *)
Serves(m, request, base) ==
    /\ CoreSearchGcdMapEntry(m, base, request.length) # <<>>
    /\ Misfits(m, base, request) = {}

LEMMA ServesFree ==
    ASSUME NEW size, Sized(size), NEW m, Tiled(m, 0, size),
           NEW request, Asked(request, size), NEW base \in Nat
    PROVE  /\ Serves(m, request, base)
                 <=> base .. base + request.length - 1 \subseteq Free(m, request.kind)
           /\ Serves(m, request, base) => Within(base, request.length, size)
<1>1. request.length \in 1 .. size /\ size \in Nat /\ size > 0
  BY DEF Asked, Sized
<1>2. PICK length \in 1 .. size : length = request.length
  BY <1>1
<1>3. PICK free : free = Free(m, request.kind)
  OBVIOUS
<1>4. \A a : a \in free <=> /\ a \in 0 .. size - 1
                            /\ Cells(m, size)[a].kind = request.kind /\ Cells(m, size)[a].owner = NoOwner
  BY <1>3, FreeCells
<1>5. ASSUME Within(base, length, size)
      PROVE  Serves(m, request, base) <=> base .. base + length - 1 \subseteq free
  <2>1. /\ Sized(size) /\ base \in 0 .. size - 1 /\ base + length <= size
        /\ base .. base + length - 1 \subseteq 0 .. size - 1
    BY <1>1, <1>5 DEF Within
  <2>2. PICK s, e : CoreSearchGcdMapEntry(m, base, length) = <<s, e>> /\ Found(m, base, length, s, e)
    BY <2>1, SearchFinds
  <2>3. Misfits(m, base, request) = {i \in s .. e : ~CoreAllocateSpaceCheckEntry(m[i], request.kind)}
    BY <1>2, <2>2 DEF Misfits
  <2>4. Serves(m, request, base) <=> \A i \in s .. e : CoreAllocateSpaceCheckEntry(m[i], request.kind)
    BY <1>2, <2>2, <2>3 DEF Serves
  <2>5. /\ \A a \in base .. base + length - 1 : \E i \in s .. e :
              Covers(m[i], a) /\ Cells(m, size)[a] = CellOf(m[i])
        /\ \A i \in s .. e : \E a \in base .. base + length - 1 :
              Covers(m[i], a) /\ Cells(m, size)[a] = CellOf(m[i])
    BY <1>5, <2>2, RangeCells
  <2>6. \A i \in s .. e : CoreAllocateSpaceCheckEntry(m[i], request.kind)
           <=> CellOf(m[i]).kind = request.kind /\ CellOf(m[i]).owner = NoOwner
    BY DEF CoreAllocateSpaceCheckEntry, CellOf
  <2> QED
    BY <1>4, <2>1, <2>4, <2>5, <2>6
<1>6. Serves(m, request, base) => Within(base, length, size)
  <2>1. Serves(m, request, base) => CoreSearchGcdMapEntry(m, base, length) # <<>>
    BY <1>2 DEF Serves
  <2>2. Serves(m, request, base) => base \in 0 .. size - 1 /\ base + length <= size
    BY <2>1, SearchFails
  <2> QED
    BY <2>2 DEF Within
<1>7. base .. base + length - 1 \subseteq free => Within(base, length, size)
  <2> SUFFICES ASSUME base .. base + length - 1 \subseteq free PROVE Within(base, length, size)
    OBVIOUS
  <2>1. base \in base .. base + length - 1 /\ base + length - 1 \in base .. base + length - 1
    BY <1>1
  <2>2. base \in 0 .. size - 1 /\ base + length - 1 \in 0 .. size - 1
    BY <1>4, <2>1
  <2>3. base + length <= size
    BY <1>1, <2>2
  <2> QED
    BY <2>2, <2>3 DEF Within
<1> QED
  BY <1>2, <1>3, <1>5, <1>6, <1>7

FitsOf(m, request) == Fits(m, request, Free(m, request.kind))

LEMMA FitsServe ==
    ASSUME NEW size, Sized(size), NEW m, Tiled(m, 0, size), NEW request, Asked(request, size)
    PROVE  /\ FitsOf(m, request) \subseteq Nat
           /\ \A base \in Nat : base \in FitsOf(m, request) <=>
                 /\ Serves(m, request, base) /\ base % request.unit = 0
                 /\ request.type = "Address" => base = request.base
                 /\ base + request.length - 1 <= MaxAddress(m, request)
<1>1. request.length \in Nat /\ request.length > 0 /\ size \in Nat
  BY DEF Asked, Sized
<1>2. Free(m, request.kind) \subseteq Nat
  <2>1. Free(m, request.kind) \subseteq 0 .. size - 1
    BY FreeCells
  <2> QED
    BY <1>1, <2>1
<1>3. ASSUME NEW base \in Nat
      PROVE  base \in FitsOf(m, request) <=>
                 /\ Serves(m, request, base) /\ base % request.unit = 0
                 /\ request.type = "Address" => base = request.base
                 /\ base + request.length - 1 <= MaxAddress(m, request)
  <2>1. base \in base .. base + request.length - 1
    BY <1>1
  <2>2. Serves(m, request, base)
           <=> base .. base + request.length - 1 \subseteq Free(m, request.kind)
    BY ServesFree
  <2> QED
    BY <2>1, <2>2 DEF FitsOf, Fits
<1> QED
  BY <1>2, <1>3 DEF FitsOf, Fits

Best(F) == IF F = {} THEN NotFound ELSE Min(F)

LEMMA AddressFound ==
    ASSUME NEW size, Sized(size), NEW m, Tiled(m, 0, size),
           NEW request, Asked(request, size), request.type = "Address"
    PROVE  FindAddress(m, request) = Best(FitsOf(m, request))
<1>1. request.base \in Nat /\ request.base \in Int /\ request.length \in Nat /\ size \in Nat
  BY DEF Asked, Sized
<1>2. MaxAddress(m, request) = size - 1
  BY LastEnd DEF MaxAddress
<1>3. Serves(m, request, request.base) => request.base + request.length - 1 <= size - 1
  <2>1. Serves(m, request, request.base) => Within(request.base, request.length, size)
    BY <1>1, ServesFree
  <2> QED
    BY <1>1, <2>1 DEF Within
<1>4. request.base \in FitsOf(m, request)
         <=> Serves(m, request, request.base) /\ request.base % request.unit = 0
  BY <1>1, <1>2, <1>3, FitsServe
<1>5. \A b \in FitsOf(m, request) : b = request.base
  BY FitsServe
<1>6. CASE request.base \in FitsOf(m, request)
  <2>1. FindAddress(m, request) = request.base
    BY <1>4, <1>6 DEF FindAddress, Serves
  <2>2. FitsOf(m, request) \subseteq Int /\ \A b \in FitsOf(m, request) : request.base <= b
    BY <1>1, <1>5
  <2>3. Min(FitsOf(m, request)) = request.base
    BY <1>6, <2>2, Least
  <2> QED
    BY <1>6, <2>1, <2>3 DEF Best
<1>7. CASE request.base \notin FitsOf(m, request)
  <2>1. FindAddress(m, request) = NotFound
    BY <1>4, <1>7 DEF FindAddress, Serves
  <2>2. FitsOf(m, request) = {}
    BY <1>5, <1>7
  <2> QED
    BY <2>1, <2>2 DEF Best
<1> QED
  BY <1>6, <1>7

(* The fits that are not below entry i.                                    *)
FromEntry(m, request, i) == {b \in FitsOf(m, request) : i <= Len(m) /\ m[i].base <= b}

(* What the search makes of entry i, given what it finds from later ones.  *)
UpStep(m, request, up, i) ==
    IF i > Len(m) THEN NotFound
    ELSE IF ~CoreAllocateSpaceCheckEntry(m[i], request.kind) THEN up[i + 1]
    ELSE LET base == AlignUp(m[i].base, request.unit)
         IN  IF \/ LastOf(base, request.length) > MaxAddress(m, request)
                \/ CoreSearchGcdMapEntry(m, base, request.length) = <<>>
             THEN NotFound
             ELSE IF Misfits(m, base, request) = {} THEN base
             ELSE up[Min(Misfits(m, base, request))]

LEMMA NoFitInMisfit ==
    ASSUME NEW size, Sized(size), NEW m, Tiled(m, 0, size), NEW request, Asked(request, size),
           NEW i \in 1 .. Len(m), ~CoreAllocateSpaceCheckEntry(m[i], request.kind),
           NEW b \in FitsOf(m, request), NEW a \in Nat, b <= a, a < b + request.length
    PROVE  ~Covers(m[i], a)
<1>1. b \in Nat /\ request.length \in Nat
  <2>1. b \in Nat
    BY FitsServe
  <2>2. request.length \in Nat
    BY DEF Asked, Sized
  <2> QED
    BY <2>1, <2>2
<1>2. a \in b .. b + request.length - 1
  BY <1>1
<1>3. Serves(m, request, b)
  BY <1>1, FitsServe
<1>4. a \in Free(m, request.kind)
  BY <1>1, <1>2, <1>3, ServesFree
<1>5. a \in 0 .. size - 1 /\ Cells(m, size)[a].kind = request.kind /\ Cells(m, size)[a].owner = NoOwner
  BY <1>4, FreeCells
<1>6. Covers(m[i], a) => Cells(m, size)[a] = CellOf(m[i])
  BY <1>5, CellAt DEF Sized
<1> QED
  BY <1>5, <1>6 DEF CellOf, CoreAllocateSpaceCheckEntry

LEMMA UpStepBest ==
    ASSUME NEW size, Sized(size), NEW m, Tiled(m, 0, size),
           NEW request, Asked(request, size), request.type \notin {"Address", "MaxTopDown"},
           NEW i \in 1 .. Len(m) + 1, NEW up,
           \A j \in 1 .. Len(m) + 1 : j > i => up[j] = Best(FromEntry(m, request, j))
    PROVE  UpStep(m, request, up, i) = Best(FromEntry(m, request, i))
<1>1. /\ request.length \in Nat /\ request.length > 0 /\ request.length <= size
      /\ request.unit \in Nat \ {0} /\ 2 * request.unit <= Width /\ 2 * size <= Width
      /\ size \in Nat /\ size > 0 /\ Width \in Nat
  BY Spaces DEF Asked, Sized
<1>2. /\ Len(m) \in Nat
      /\ \A k \in 1 .. Len(m) :
            m[k].base \in Nat /\ m[k].end \in Nat /\ m[k].base <= m[k].end /\ m[k].end < size
  <2>1. Len(m) \in Nat /\ \A k \in 1 .. Len(m) : m[k].base \in Nat /\ m[k].end \in Nat
    BY Typed
  <2>2. \A k \in 1 .. Len(m) : m[k].end < size
    BY <1>1, Bounded
  <2> QED
    BY <2>1, <2>2 DEF Tiled
<1>3. MaxAddress(m, request) \in Nat /\ MaxAddress(m, request) < size
  <2>1. Last(m).end = size - 1 /\ request.base \in 0 .. size - 1
    BY LastEnd DEF Asked
  <2> QED
    BY <1>1, <2>1 DEF MaxAddress
<1>4. FitsOf(m, request) \subseteq Nat
  BY FitsServe
<1>5. \A b \in FitsOf(m, request) :
         /\ b \in Nat /\ Serves(m, request, b) /\ b % request.unit = 0
         /\ b + request.length - 1 <= MaxAddress(m, request) /\ b + request.length <= size
  <2> TAKE b \in FitsOf(m, request)
  <2>1. /\ b \in Nat /\ Serves(m, request, b) /\ b % request.unit = 0
        /\ b + request.length - 1 <= MaxAddress(m, request)
    BY <1>4, FitsServe
  <2> QED
    BY <1>1, <1>3, <2>1
<1>6. CASE i > Len(m)
  <2>1. FromEntry(m, request, i) = {}
    BY <1>2, <1>6 DEF FromEntry
  <2> QED
    BY <1>6, <2>1 DEF UpStep, Best
<1>7. CASE i <= Len(m) /\ ~CoreAllocateSpaceCheckEntry(m[i], request.kind)
  <2>1. i \in 1 .. Len(m) /\ i + 1 \in 1 .. Len(m) + 1 /\ ~(i > Len(m)) /\ i + 1 > i
    BY <1>2, <1>7
  <2>2. \A b \in FitsOf(m, request) :
           m[i].base <= b => i + 1 <= Len(m) /\ m[i + 1].base <= b
    <3> SUFFICES ASSUME NEW b \in FitsOf(m, request), m[i].base <= b
                 PROVE  i + 1 <= Len(m) /\ m[i + 1].base <= b
      OBVIOUS
    <3>1. ~Covers(m[i], b)
      <4>1. b \in Nat /\ b <= b /\ b < b + request.length
        BY <1>1, <1>5
      <4> QED
        BY <1>7, <2>1, <4>1, NoFitInMisfit
    <3>2. m[i].end < b /\ b < size
      BY <1>1, <1>2, <1>5, <2>1, <3>1 DEF Covers
    <3>3. i # Len(m)
      <4>1. i = Len(m) => m[i].end + 1 = size
        BY <2>1 DEF Tiled
      <4> QED
        BY <1>1, <1>2, <1>5, <2>1, <3>2, <4>1
    <3>4. i < Len(m) /\ m[i + 1].base = m[i].end + 1
      BY <1>2, <2>1, <3>3 DEF Tiled
    <3> QED
      BY <1>2, <1>5, <2>1, <3>2, <3>4
  <2>3. \A b \in FitsOf(m, request) : i + 1 <= Len(m) /\ m[i + 1].base <= b => m[i].base <= b
    <3> SUFFICES ASSUME NEW b \in FitsOf(m, request), i + 1 <= Len(m), m[i + 1].base <= b
                 PROVE  m[i].base <= b
      OBVIOUS
    <3>1. i + 1 \in 1 .. Len(m) /\ i < i + 1
      BY <1>2, <2>1
    <3>2. m[i].end < m[i + 1].base
      BY <2>1, <3>1, Rises
    <3> QED
      BY <1>2, <1>5, <2>1, <3>1, <3>2
  <2>4. FromEntry(m, request, i) = FromEntry(m, request, i + 1)
    BY <1>7, <2>2, <2>3 DEF FromEntry
  <2>5. UpStep(m, request, up, i) = up[i + 1]
    BY <1>7, <2>1 DEF UpStep
  <2> QED
    BY <2>1, <2>4, <2>5
<1>8. CASE i <= Len(m) /\ CoreAllocateSpaceCheckEntry(m[i], request.kind)
  <2>1. i \in 1 .. Len(m) /\ ~(i > Len(m))
    BY <1>2, <1>8
  <2>2. PICK base \in Nat :
           /\ base = AlignUp(m[i].base, request.unit)
           /\ m[i].base <= base /\ base < m[i].base + request.unit /\ base % request.unit = 0
           /\ \A b \in Nat : b % request.unit = 0 /\ m[i].base <= b => base <= b
    <3>1. m[i].base \in Nat /\ m[i].base + request.unit - 1 < Width
      <4>1. m[i].base \in Nat /\ m[i].end \in Nat /\ m[i].base <= m[i].end /\ m[i].end < size
        BY <1>2, <2>1
      <4>2. PICK u \in Nat : u = request.unit /\ 2 * u <= Width
        BY <1>1
      <4> QED
        BY <1>1, <4>1, <4>2
    <3> QED
      BY <1>1, <3>1, UpTo
  <2>3. UpStep(m, request, up, i) =
           IF \/ LastOf(base, request.length) > MaxAddress(m, request)
              \/ CoreSearchGcdMapEntry(m, base, request.length) = <<>>
           THEN NotFound
           ELSE IF Misfits(m, base, request) = {} THEN base
           ELSE up[Min(Misfits(m, base, request))]
    BY <1>8, <2>1, <2>2 DEF UpStep
  <2>4. \A b \in FromEntry(m, request, i) : b \in FitsOf(m, request) /\ b \in Nat /\ base <= b
    BY <1>5, <2>2 DEF FromEntry
  <2>5. CASE CoreSearchGcdMapEntry(m, base, request.length) = <<>>
    <3>1. ASSUME NEW b \in FromEntry(m, request, i) PROVE FALSE
      <4>1. b \in Nat /\ base <= b /\ b + request.length <= size
        BY <1>5, <2>4
      <4>2. base \in 0 .. size - 1 /\ base + request.length <= size /\ request.length \in 1 .. size
        BY <1>1, <4>1
      <4>3. \E s, e : CoreSearchGcdMapEntry(m, base, request.length) = <<s, e>>
        BY <4>2, SearchFinds
      <4> QED
        BY <2>5, <4>3
    <3>2. FromEntry(m, request, i) = {}
      BY <3>1
    <3> QED
      BY <2>3, <2>5, <3>2 DEF Best
  <2>6. CASE CoreSearchGcdMapEntry(m, base, request.length) # <<>>
    <3>1. /\ base \in 0 .. size - 1 /\ base + request.length <= size
          /\ Within(base, request.length, size)
          /\ LastOf(base, request.length) = base + request.length - 1
      <4>1. request.length \in 1 .. size
        BY <1>1
      <4>2. base \in 0 .. size - 1 /\ base + request.length <= size
        BY <2>6, <4>1, SearchFails
      <4> QED
        BY <4>1, <4>2, EndOf DEF Within
    <3>2. CASE base + request.length - 1 > MaxAddress(m, request)
      <4>1. ASSUME NEW b \in FromEntry(m, request, i) PROVE FALSE
        <5>1. b \in Nat /\ base <= b /\ b + request.length - 1 <= MaxAddress(m, request)
          BY <1>5, <2>4
        <5> QED
          BY <1>1, <1>3, <3>2, <5>1
      <4>2. FromEntry(m, request, i) = {}
        BY <4>1
      <4> QED
        BY <2>3, <3>1, <3>2, <4>2 DEF Best
    <3>3. CASE ~(base + request.length - 1 > MaxAddress(m, request)) /\ Misfits(m, base, request) = {}
      <4>1. UpStep(m, request, up, i) = base
        BY <2>3, <2>6, <3>1, <3>3
      <4>2. base + request.length - 1 <= MaxAddress(m, request)
        BY <1>1, <1>3, <3>3
      <4>3. Serves(m, request, base)
        BY <2>6, <3>3 DEF Serves
      <4>4. base \in FromEntry(m, request, i)
        BY <1>8, <2>2, <4>2, <4>3, FitsServe DEF FromEntry
      <4>5. FromEntry(m, request, i) \subseteq Int /\ \A b \in FromEntry(m, request, i) : base <= b
        BY <2>4
      <4>6. Min(FromEntry(m, request, i)) = base
        BY <4>4, <4>5, Least
      <4> QED
        BY <4>1, <4>4, <4>6 DEF Best
    <3>4. CASE ~(base + request.length - 1 > MaxAddress(m, request)) /\ Misfits(m, base, request) # {}
      <4>1. PICK s, e : CoreSearchGcdMapEntry(m, base, request.length) = <<s, e>>
                        /\ Found(m, base, request.length, s, e)
        <5>1. request.length \in 1 .. size
          BY <1>1
        <5> QED
          BY <3>1, <5>1, SearchFinds
      <4>2. Misfits(m, base, request) = {k \in s .. e : ~CoreAllocateSpaceCheckEntry(m[k], request.kind)}
        BY <4>1 DEF Misfits
      <4>3. s \in 1 .. Len(m) /\ e \in 1 .. Len(m) /\ m[s].base <= base /\ base <= m[s].end
        BY <4>1 DEF Found, Covers
      <4>4. PICK j : j = Min(Misfits(m, base, request)) /\ j \in Misfits(m, base, request)
        <5>1. Misfits(m, base, request) \subseteq Nat
          BY <1>2, <4>2, <4>3
        <5> QED
          BY <3>4, <5>1, Minimum
      <4>5. j \in s .. e /\ j \in 1 .. Len(m) /\ ~CoreAllocateSpaceCheckEntry(m[j], request.kind)
        BY <1>2, <4>2, <4>3, <4>4
      <4>6. m[j].base < base + request.length
        BY <3>1, <4>1, <4>5, Meets
      <4>7. i <= s
        <5>1. s < i => m[s].end < m[i].base
          BY <2>1, <4>3, Rises
        <5> QED
          BY <1>2, <2>1, <2>2, <4>3, <5>1
      <4>8. i < j /\ j \in 1 .. Len(m) + 1 /\ j <= Len(m)
        <5>1. i # j
          BY <1>8, <4>5
        <5> QED
          BY <1>2, <2>1, <4>3, <4>5, <4>7, <5>1
      <4>9. m[i].end < m[j].base
        BY <2>1, <4>5, <4>8, Rises
      <4>10. ASSUME NEW b \in FitsOf(m, request)
             PROVE  m[i].base <= b <=> m[j].base <= b
        <5>1. m[j].base <= b => m[i].base <= b
          BY <1>2, <1>5, <2>1, <4>5, <4>9
        <5>2. ASSUME m[i].base <= b, b < m[j].base
              PROVE  FALSE
          <6>1. b \in Nat /\ base <= b
            BY <1>5, <2>2, <5>2
          <6>2. m[j].base \in Nat /\ b <= m[j].base /\ m[j].base < b + request.length
            BY <1>1, <1>2, <4>5, <4>6, <5>2, <6>1
          <6>3. ~Covers(m[j], m[j].base)
            BY <4>5, <6>2, NoFitInMisfit
          <6>4. Covers(m[j], m[j].base)
            BY <1>2, <4>5 DEF Covers
          <6> QED
            BY <6>3, <6>4
        <5> QED
          BY <1>2, <1>5, <2>1, <4>5, <5>1, <5>2
      <4>11. FromEntry(m, request, i) = FromEntry(m, request, j)
        BY <1>8, <4>8, <4>10 DEF FromEntry
      <4>12. UpStep(m, request, up, i) = up[j]
        BY <2>3, <2>6, <3>1, <3>4, <4>4
      <4>13. up[j] = Best(FromEntry(m, request, j))
        BY <4>8
      <4> QED
        BY <4>11, <4>12, <4>13
    <3> QED
      BY <3>2, <3>3, <3>4
  <2> QED
    BY <2>5, <2>6
<1> QED
  BY <1>2, <1>6, <1>7, <1>8

Climbing(m, request, up) == up = [i \in 1 .. Len(m) + 1 |-> UpStep(m, request, up, i)]

LEMMA BottomUpFound ==
    ASSUME NEW size, Sized(size), NEW m, Tiled(m, 0, size),
           NEW request, Asked(request, size), request.type \notin {"Address", "MaxTopDown"}
    PROVE  FindBottomUp(m, request) = Best(FitsOf(m, request))
<1> DEFINE B(i) == Best(FromEntry(m, request, i))
<1>1. Len(m) \in Nat /\ Len(m) # 0 /\ m # <<>>
  BY LastEnd
<1>2. \E up : Climbing(m, request, up)
  <2> HIDE DEF B
  <2>1. PICK w : w = [i \in 1 .. Len(m) + 1 |-> B(i)]
    OBVIOUS
  <2>2. ASSUME NEW i \in 1 .. Len(m) + 1 PROVE UpStep(m, request, w, i) = B(i)
    <3>1. \A j \in 1 .. Len(m) + 1 : j > i => w[j] = B(j)
      BY <2>1
    <3> QED
      BY <3>1, UpStepBest DEF B
  <2>3. w = [i \in 1 .. Len(m) + 1 |-> UpStep(m, request, w, i)]
    BY <2>1, <2>2
  <2> QED
    BY <2>3 DEF Climbing
<1>3. PICK k : k = CHOOSE up : Climbing(m, request, up)
  OBVIOUS
<1>4. Climbing(m, request, k)
  BY <1>2, <1>3
<1>5. FindBottomUp(m, request) = k[1]
  BY <1>3 DEF FindBottomUp, Climbing, UpStep
<1>6. \A i \in 1 .. Len(m) + 1 : k[i] = UpStep(m, request, k, i)
  BY <1>4 DEF Climbing
<1> DEFINE P(n) == \A j \in 1 .. Len(m) + 1 : j > Len(m) + 1 - n => k[j] = B(j)
           S == {n \in Nat : P(n)}
<1>7. 0 \in S
  BY <1>1
<1>8. \A n \in Nat : n \in S => n + 1 \in S
  <2> SUFFICES ASSUME NEW n \in Nat, P(n), NEW j \in 1 .. Len(m) + 1, j > Len(m) + 1 - (n + 1)
               PROVE  k[j] = B(j)
    OBVIOUS
  <2>1. \A h \in 1 .. Len(m) + 1 : h > j => k[h] = B(h)
    <3> TAKE h \in 1 .. Len(m) + 1
    <3>1. h > j => h > Len(m) + 1 - n
      BY <1>1
    <3> HIDE DEF B
    <3> QED
      BY <3>1
  <2>2. UpStep(m, request, k, j) = B(j)
    BY <2>1, UpStepBest
  <2> QED
    BY <1>6, <2>2
<1>9. Nat \subseteq S
  <2> HIDE DEF S
  <2> QED
    BY <1>7, <1>8, Induction
<1>10. k[1] = B(1)
  <2>1. Len(m) + 1 \in Nat /\ 1 \in 1 .. Len(m) + 1 /\ 1 > Len(m) + 1 - (Len(m) + 1)
    BY <1>1
  <2>2. P(Len(m) + 1)
    BY <1>9, <2>1
  <2> HIDE DEF B
  <2> QED
    BY <2>1, <2>2
<1>11. FromEntry(m, request, 1) = FitsOf(m, request)
  <2>1. m[1].base = 0 /\ 1 <= Len(m)
    BY <1>1 DEF Tiled
  <2>2. \A b \in FitsOf(m, request) : 0 <= b
    BY FitsServe
  <2> QED
    BY <2>1, <2>2 DEF FromEntry
<1> QED
  BY <1>5, <1>10, <1>11

LEMMA Small ==
    ASSUME NEW x \in Nat, x < Width
    PROVE  x % Width = x
BY Spaces

(* The search downwards. *)
StepFrom(m, request, down, base) ==
    IF CoreSearchGcdMapEntry(m, base, request.length) = <<>> THEN NotFound
    ELSE IF Misfits(m, base, request) = {} THEN base
    ELSE down[Min(Misfits(m, base, request))]

DownStep(m, request, down, i) ==
    LET max == MaxAddress(m, request)
    IN  IF i = 0 THEN NotFound
        ELSE IF \/ ~CoreAllocateSpaceCheckEntry(m[i], request.kind)
                \/ (m[i].base + request.length) % Width > max
             THEN down[i - 1]
        ELSE IF request.length > m[i].end + 1 THEN NotFound
        ELSE StepFrom(m, request, down,
                 AlignDown((Min({max, m[i].end}) + 1 - request.length) % Width, request.unit))

Descending(m, request, down, n) == down = [i \in 0 .. n |-> DownStep(m, request, down, i)]

(* A step comes to a lower entry, or to what fits.                         *)
LEMMA DownSteps ==
    ASSUME NEW size, Sized(size), NEW m, Tiled(m, 0, size),
           NEW request, Asked(request, size), request.type # "Address",
           NEW i \in 0 .. Len(m)
    PROVE  \/ \A down : DownStep(m, request, down, i) = NotFound
           \/ \E b \in FitsOf(m, request) : \A down : DownStep(m, request, down, i) = b
           \/ \E j \in 0 .. i - 1 : \A down : DownStep(m, request, down, i) = down[j]
<1>1. /\ request.length \in Nat /\ request.length > 0 /\ request.length <= size
      /\ request.unit \in Nat \ {0} /\ 2 * size <= Width
      /\ size \in Nat /\ size > 0 /\ Width \in Nat
  BY Spaces DEF Asked, Sized
<1>2. /\ Len(m) \in Nat
      /\ \A k \in 1 .. Len(m) :
            m[k].base \in Nat /\ m[k].end \in Nat /\ m[k].base <= m[k].end /\ m[k].end < size
  <2>1. Len(m) \in Nat /\ \A k \in 1 .. Len(m) : m[k].base \in Nat /\ m[k].end \in Nat
    BY Typed
  <2>2. \A k \in 1 .. Len(m) : m[k].end < size
    BY <1>1, Bounded
  <2> QED
    BY <2>1, <2>2 DEF Tiled
<1>3. PICK limit \in Nat : limit = MaxAddress(m, request) /\ limit < size
  <2>1. Last(m).end = size - 1 /\ request.base \in 0 .. size - 1
    BY LastEnd DEF Asked
  <2> QED
    BY <1>1, <2>1 DEF MaxAddress
<1>4. CASE i = 0
  BY <1>4 DEF DownStep
<1>5. CASE i # 0 /\ ~CoreAllocateSpaceCheckEntry(m[i], request.kind)
  <2>1. i - 1 \in 0 .. i - 1
    BY <1>2, <1>5
  <2>2. \A down : DownStep(m, request, down, i) = down[i - 1]
    BY <1>5 DEF DownStep
  <2> QED
    BY <2>1, <2>2
<1>6. CASE i # 0 /\ CoreAllocateSpaceCheckEntry(m[i], request.kind)
  <2>1. i \in 1 .. Len(m)
    BY <1>2, <1>6
  <2>2. /\ m[i].base \in Nat /\ m[i].end \in Nat /\ m[i].base <= m[i].end /\ m[i].end < size
        /\ (m[i].base + request.length) % Width = m[i].base + request.length
    <3>1. m[i].base \in Nat /\ m[i].end \in Nat /\ m[i].base <= m[i].end /\ m[i].end < size
      BY <1>2, <2>1
    <3>2. m[i].base + request.length \in Nat /\ m[i].base + request.length < Width
      BY <1>1, <3>1
    <3>3. (m[i].base + request.length) % Width = m[i].base + request.length
      BY <3>2, Small
    <3> QED
      BY <3>1, <3>3
  <2>3. CASE m[i].base + request.length > limit
    <3>1. i - 1 \in 0 .. i - 1
      BY <1>2, <1>6
    <3>2. \A down : DownStep(m, request, down, i) = down[i - 1]
      BY <1>3, <1>6, <2>2, <2>3 DEF DownStep
    <3> QED
      BY <3>1, <3>2
  <2>4. CASE ~(m[i].base + request.length > limit) /\ request.length > m[i].end + 1
    BY <1>3, <1>6, <2>2, <2>4 DEF DownStep
  <2>5. CASE ~(m[i].base + request.length > limit) /\ ~(request.length > m[i].end + 1)
    <3>1. PICK top \in Nat : top = Min({limit, m[i].end}) /\ top <= limit /\ top <= m[i].end
                             /\ (top = limit \/ top = m[i].end)
      <4>1. PICK top \in Nat : top = IF limit <= m[i].end THEN limit ELSE m[i].end
        BY <2>2
      <4>2. PICK S : S = {limit, m[i].end}
        OBVIOUS
      <4>3. S \subseteq Int /\ top \in S /\ \A y \in S : top <= y
        BY <2>2, <4>2, <4>1
      <4>4. Min({limit, m[i].end}) = top
        BY <4>2, <4>3, Least
      <4> QED
        BY <2>2, <4>1, <4>4
    <3>2. PICK room \in Nat : room = top + 1 - request.length /\ room % Width = room
      <4>1. PICK l \in Nat : l = request.length /\ l > 0
        BY <1>1
      <4>2. PICK lo \in Nat, hi \in Nat : lo = m[i].base /\ hi = m[i].end /\ hi < size
        BY <2>2
      <4>3. lo + l <= limit /\ l <= hi + 1
        <5>1. ~(lo + l > limit) /\ ~(l > hi + 1)
          BY <2>5, <4>1, <4>2
        <5>2. lo \in Nat /\ hi \in Nat /\ l \in Nat /\ limit \in Nat
          BY <1>3, <4>1, <4>2
        <5> QED
          BY <5>1, <5>2
      <4>4. l <= top + 1 /\ top < size
        BY <1>1, <1>3, <3>1, <4>1, <4>2, <4>3
      <4>5. top + 1 - l \in Nat /\ top + 1 - l < Width
        BY <1>1, <4>1, <4>4
      <4>6. (top + 1 - l) % Width = top + 1 - l
        BY <4>5, Small
      <4> QED
        BY <4>1, <4>5, <4>6
    <3>3. PICK base \in Nat : base = AlignDown(room, request.unit) /\ base <= room /\ base % request.unit = 0
      BY <1>1, <3>2, DownTo
    <3>4. \A down : DownStep(m, request, down, i) =
                IF CoreSearchGcdMapEntry(m, base, request.length) = <<>> THEN NotFound
                ELSE IF Misfits(m, base, request) = {} THEN base
                ELSE down[Min(Misfits(m, base, request))]
      <4>1. (Min({limit, m[i].end}) + 1 - request.length) % Width = room
        BY <3>1, <3>2
      <4>2. AlignDown((Min({MaxAddress(m, request), m[i].end}) + 1 - request.length) % Width, request.unit) = base
        BY <1>3, <3>3, <4>1
      <4>3. ~((m[i].base + request.length) % Width > MaxAddress(m, request))
        BY <1>3, <2>2, <2>5
      <4>4. i # 0 /\ CoreAllocateSpaceCheckEntry(m[i], request.kind) /\ ~(request.length > m[i].end + 1)
        BY <1>6, <2>5
      <4> TAKE down
      <4>5. DownStep(m, request, down, i) =
               StepFrom(m, request, down,
                   AlignDown((Min({MaxAddress(m, request), m[i].end}) + 1 - request.length) % Width, request.unit))
        BY <4>3, <4>4 DEF DownStep
      <4>6. DownStep(m, request, down, i) = StepFrom(m, request, down, base)
        BY <4>2, <4>5
      <4> QED
        BY <4>6 DEF StepFrom
    <3>5. base + request.length - 1 <= top
      <4>1. PICK l \in Nat : l = request.length
        BY <1>1
      <4>2. room = top + 1 - l /\ base <= room /\ top \in Nat /\ room \in Nat /\ base \in Nat
        BY <3>1, <3>2, <3>3, <4>1
      <4>3. base + l - 1 <= top
        BY <4>1, <4>2
      <4> QED
        BY <4>1, <4>3
    <3>6. CASE CoreSearchGcdMapEntry(m, base, request.length) = <<>>
      BY <3>4, <3>6
    <3>7. CASE CoreSearchGcdMapEntry(m, base, request.length) # <<>> /\ Misfits(m, base, request) = {}
      <4>1. Serves(m, request, base)
        BY <3>7 DEF Serves
      <4>2. base + request.length - 1 <= MaxAddress(m, request)
        BY <1>1, <1>3, <3>1, <3>5
      <4>3. base \in FitsOf(m, request)
        BY <3>3, <4>1, <4>2, FitsServe
      <4> QED
        BY <3>4, <3>7, <4>3
    <3>8. CASE CoreSearchGcdMapEntry(m, base, request.length) # <<>> /\ Misfits(m, base, request) # {}
      <4>1. Within(base, request.length, size)
        <5>1. request.length \in 1 .. size
          BY <1>1
        <5>2. base \in 0 .. size - 1 /\ base + request.length <= size
          BY <3>8, <5>1, SearchFails
        <5> QED
          BY <5>1, <5>2 DEF Within
      <4>2. PICK s, e : CoreSearchGcdMapEntry(m, base, request.length) = <<s, e>>
                        /\ Found(m, base, request.length, s, e)
        BY <4>1, SearchFinds DEF Within
      <4>3. Misfits(m, base, request) = {k \in s .. e : ~CoreAllocateSpaceCheckEntry(m[k], request.kind)}
        BY <4>2 DEF Misfits
      <4>4. s \in 1 .. Len(m) /\ e \in 1 .. Len(m) /\ m[e].base <= base + request.length - 1
        BY <4>2 DEF Found, Covers
      <4>5. PICK j : j = Min(Misfits(m, base, request)) /\ j \in Misfits(m, base, request)
        <5>1. Misfits(m, base, request) \subseteq Nat
          BY <1>2, <4>3, <4>4
        <5> QED
          BY <3>8, <5>1, Minimum
      <4>6. j \in s .. e /\ j \in 1 .. Len(m) /\ ~CoreAllocateSpaceCheckEntry(m[j], request.kind)
        BY <1>2, <4>3, <4>4, <4>5
      <4>7. e <= i
        <5>1. i < e => m[i].end < m[e].base
          BY <2>1, <4>4, Rises
        <5>2. PICK b \in Nat, h \in Nat, l \in Nat : b = m[e].base /\ h = m[i].end /\ l = request.length
          BY <1>1, <1>2, <2>2, <4>4
        <5>3. b <= base + l - 1
          BY <4>4, <5>2
        <5>4. base + l - 1 <= top /\ top <= h
          BY <3>1, <3>5, <5>2
        <5>5. b <= h
          <6>1. base \in Int /\ l \in Int /\ b \in Int /\ h \in Int /\ top \in Int
            BY <3>1, <3>3, <5>2
          <6> QED
            BY <5>3, <5>4, <6>1
        <5>6. i \in Int /\ e \in Int
          BY <1>2, <2>1, <4>4
        <5> QED
          BY <5>1, <5>2, <5>5, <5>6
      <4>8. j \in 0 .. i - 1
        <5>1. i # j
          BY <1>6, <4>6
        <5> QED
          BY <1>2, <2>1, <4>4, <4>6, <4>7, <5>1
      <4>9. \A down : DownStep(m, request, down, i) = down[j]
        BY <3>4, <3>8, <4>5
      <4> QED
        BY <4>8, <4>9
    <3> QED
      BY <3>6, <3>7, <3>8
  <2> QED
    BY <2>3, <2>4, <2>5
<1> QED
  BY <1>4, <1>5, <1>6

LEMMA DownSame ==
    ASSUME NEW size, Sized(size), NEW m, Tiled(m, 0, size),
           NEW request, Asked(request, size), request.type # "Address",
           NEW i \in 0 .. Len(m), NEW f, NEW g, \A j \in 0 .. i - 1 : f[j] = g[j]
    PROVE  DownStep(m, request, f, i) = DownStep(m, request, g, i)
<1>1. CASE \A down : DownStep(m, request, down, i) = NotFound
  BY <1>1
<1>2. CASE \E b \in FitsOf(m, request) : \A down : DownStep(m, request, down, i) = b
  BY <1>2
<1>3. CASE \E j \in 0 .. i - 1 : \A down : DownStep(m, request, down, i) = down[j]
  BY <1>3
<1> QED
  BY <1>1, <1>2, <1>3, DownSteps

LEMMA DescentExists ==
    ASSUME NEW size, Sized(size), NEW m, Tiled(m, 0, size),
           NEW request, Asked(request, size), request.type # "Address"
    PROVE  \E down : Descending(m, request, down, Len(m))
<1> DEFINE P(n) == n <= Len(m) => \E f : Descending(m, request, f, n)
           S == {n \in Nat : P(n)}
<1>1. Len(m) \in Nat
  BY Typed
<1>2. 0 \in S
  <2>1. PICK f : f = [i \in 0 .. 0 |-> NotFound]
    OBVIOUS
  <2>2. DownStep(m, request, f, 0) = NotFound
    BY DEF DownStep
  <2>3. \A i \in 0 .. 0 : i = 0
    OBVIOUS
  <2>4. f = [i \in 0 .. 0 |-> DownStep(m, request, f, i)]
    BY <2>1, <2>2, <2>3
  <2> QED
    BY <2>4 DEF Descending
<1>3. \A n \in Nat : n \in S => n + 1 \in S
  <2> SUFFICES ASSUME NEW n \in Nat, P(n), n + 1 <= Len(m)
               PROVE  \E f : Descending(m, request, f, n + 1)
    OBVIOUS
  <2>1. n <= Len(m)
    BY <1>1
  <2>2. PICK f : Descending(m, request, f, n)
    BY <2>1
  <2>3. PICK k : k = n + 1
    OBVIOUS
  <2>4. PICK x : x = DownStep(m, request, f, k)
    OBVIOUS
  <2>5. PICK g : g = [i \in 0 .. k |-> IF i = k THEN x ELSE f[i]]
    OBVIOUS
  <2>6. /\ k \in 0 .. k /\ k \in 0 .. Len(m)
        /\ \A i \in 0 .. n : i \in 0 .. k /\ i # k /\ i \in 0 .. Len(m)
        /\ \A i \in 0 .. k : i = k \/ i \in 0 .. n
        /\ \A i \in 0 .. k : \A j \in 0 .. i - 1 : j \in 0 .. n
    BY <1>1, <2>3
  <2>7. g[k] = x /\ \A i \in 0 .. n : g[i] = f[i]
    BY <2>5, <2>6
  <2>8. ASSUME NEW i \in 0 .. k
        PROVE  g[i] = DownStep(m, request, g, i)
    <3>1. i \in 0 .. Len(m) /\ \A j \in 0 .. i - 1 : f[j] = g[j]
      BY <2>6, <2>7
    <3>2. DownStep(m, request, f, i) = DownStep(m, request, g, i)
      BY <3>1, DownSame
    <3>3. CASE i = k
      BY <2>4, <2>7, <3>2, <3>3
    <3>4. CASE i # k
      <4>1. i \in 0 .. n
        BY <2>6, <3>4
      <4>2. f[i] = DownStep(m, request, f, i)
        BY <2>2, <4>1 DEF Descending
      <4> QED
        BY <2>7, <3>2, <4>1, <4>2
    <3> QED
      BY <3>3, <3>4
  <2>9. g = [i \in 0 .. k |-> DownStep(m, request, g, i)]
    BY <2>5, <2>8
  <2> QED
    BY <2>3, <2>9 DEF Descending
<1>4. Nat \subseteq S
  <2> HIDE DEF S
  <2> QED
    BY <1>2, <1>3, Induction
<1> QED
  BY <1>1, <1>4

LEMMA TopDownFound ==
    ASSUME NEW size, Sized(size), NEW m, Tiled(m, 0, size),
           NEW request, Asked(request, size), request.type # "Address"
    PROVE  FindTopDown(m, request) \in FitsOf(m, request) \cup {NotFound}
<1>1. PICK k : k = CHOOSE down : Descending(m, request, down, Len(m))
  OBVIOUS
<1>2. Descending(m, request, k, Len(m))
  BY <1>1, DescentExists
<1>3. FindTopDown(m, request) = k[Len(m)]
  BY <1>1 DEF FindTopDown, Descending, DownStep, StepFrom
<1>4. Len(m) \in Nat
  BY Typed
<1> DEFINE R == FitsOf(m, request) \cup {NotFound}
           P(n) == \A i \in 0 .. Len(m) : i <= n => k[i] \in R
           S == {n \in Nat : P(n)}
<1>5. ASSUME NEW i \in 0 .. Len(m), \A j \in 0 .. i - 1 : k[j] \in R
      PROVE  k[i] \in R
  <2>1. k[i] = DownStep(m, request, k, i)
    BY <1>2 DEF Descending
  <2>2. CASE \A down : DownStep(m, request, down, i) = NotFound
    BY <2>1, <2>2
  <2>3. CASE \E b \in FitsOf(m, request) : \A down : DownStep(m, request, down, i) = b
    BY <2>1, <2>3
  <2>4. CASE \E j \in 0 .. i - 1 : \A down : DownStep(m, request, down, i) = down[j]
    <3> HIDE DEF R
    <3> QED
      BY <1>5, <2>1, <2>4
  <2> QED
    BY <2>2, <2>3, <2>4, DownSteps
<1>6. 0 \in S
  <2>1. 0 \in 0 .. Len(m) /\ 0 .. 0 - 1 = {}
    BY <1>4
  <2>2. k[0] \in R
    <3> HIDE DEF R
    <3> QED
      BY <1>5, <2>1
  <2>3. \A i \in 0 .. Len(m) : i <= 0 => i = 0
    BY <1>4
  <2> HIDE DEF R
  <2> QED
    BY <2>2, <2>3
<1>7. \A n \in Nat : n \in S => n + 1 \in S
  <2> HIDE DEF R
  <2> SUFFICES ASSUME NEW n \in Nat, P(n), NEW i \in 0 .. Len(m), i <= n + 1
               PROVE  k[i] \in R
    OBVIOUS
  <2>1. \A j \in 0 .. i - 1 : j \in 0 .. Len(m) /\ j <= n
    BY <1>4
  <2> QED
    BY <1>5, <2>1
<1>8. Nat \subseteq S
  <2> HIDE DEF S
  <2> QED
    BY <1>6, <1>7, Induction
<1>9. k[Len(m)] \in R
  <2>1. P(Len(m)) /\ Len(m) \in 0 .. Len(m) /\ Len(m) <= Len(m)
    BY <1>4, <1>8
  <2> HIDE DEF R
  <2> QED
    BY <2>1
<1> QED
  BY <1>3, <1>9

(* What the search finds.                                                  *)
LEMMA SpaceFound ==
    ASSUME NEW size, Sized(size), NEW m, Tiled(m, 0, size),
           NEW kinds, NEW request \in Requests(size, kinds)
    PROVE  IF TopDown(request) THEN FindSpace(m, request) \in FitsOf(m, request) \cup {NotFound}
           ELSE FindSpace(m, request) = Best(FitsOf(m, request))
<1>1. Asked(request, size) /\ request.type \in AllocateTypes
  BY RequestsAsk
<1>2. CASE request.type = "Address"
  <2>1. ~TopDown(request) /\ FindSpace(m, request) = FindAddress(m, request)
    BY <1>2 DEF TopDown, FindSpace
  <2> QED
    BY <1>1, <1>2, <2>1, AddressFound
<1>3. CASE TopDown(request)
  <2>1. request.type # "Address" /\ FindSpace(m, request) = FindTopDown(m, request)
    BY <1>3 DEF TopDown, FindSpace
  <2> QED
    BY <1>1, <1>3, <2>1, TopDownFound
<1>4. CASE request.type # "Address" /\ ~TopDown(request)
  <2>1. request.type \notin {"Address", "MaxTopDown"} /\ FindSpace(m, request) = FindBottomUp(m, request)
    BY <1>4 DEF TopDown, FindSpace
  <2> QED
    BY <1>1, <1>4, <2>1, BottomUpFound
<1> QED
  BY <1>2, <1>3, <1>4

LEMMA FoundServes ==
    ASSUME NEW size, Sized(size), NEW m, Tiled(m, 0, size),
           NEW kinds, NEW request \in Requests(size, kinds), FindSpace(m, request) # NotFound
    PROVE  /\ Within(FindSpace(m, request), request.length, size)
           /\ FindSpace(m, request) .. FindSpace(m, request) + request.length - 1
                 \subseteq Free(m, request.kind)
<1>1. Asked(request, size)
  BY RequestsAsk
<1>2. FitsOf(m, request) \subseteq Nat
  BY <1>1, FitsServe
<1>3. PICK base : base = FindSpace(m, request)
  OBVIOUS
<1>4. base \in FitsOf(m, request)
  <2>1. FitsOf(m, request) # {} => Min(FitsOf(m, request)) \in FitsOf(m, request)
    BY <1>2, Minimum
  <2> QED
    BY <1>3, <2>1, SpaceFound DEF Best
<1>5. base \in Nat /\ Serves(m, request, base)
  BY <1>1, <1>2, <1>4, FitsServe
<1> QED
  BY <1>1, <1>3, <1>5, ServesFree

-----------------------------------------------------------------------------
(* The promises about the maps. *)

(* A tiled map is one as GetMemorySpaceMap and GetIoSpaceMap return it.    *)
LEMMA KeptTiles ==
    ASSUME NEW size, Sized(size), NEW m, Kept(m, size)
    PROVE  Tiles(m, size)
<1>1. Tiled(m, 0, size) /\ size \in Nat
  BY DEF Kept, Sized
<1>2. /\ Len(m) \in Nat /\ Len(m) # 0 /\ m # <<>>
      /\ \A i \in 1 .. Len(m) : m[i].base \in Nat /\ m[i].end \in Nat
  BY <1>1, Typed, LastEnd
<1>3. m[1].base = 0 /\ m[Len(m)].end + 1 = size
  BY <1>1, <1>2 DEF Tiled
<1>4. \A i \in 1 .. Len(m) : SpaceMap(m)[i] = Descriptor(m[i])
  BY DEF SpaceMap
<1>5. \A i \in 1 .. Len(m) :
         SpaceMap(m)[i].base = m[i].base /\ SpaceMap(m)[i].length = m[i].end - m[i].base + 1
  <2> SUFFICES ASSUME NEW i \in 1 .. Len(m)
               PROVE  /\ SpaceMap(m)[i].base = m[i].base
                      /\ SpaceMap(m)[i].length = m[i].end - m[i].base + 1
    OBVIOUS
  <2>1. SpaceMap(m)[i] = [base |-> m[i].base, length |-> m[i].end - m[i].base + 1]
    BY <1>4 DEF Descriptor
  <2> QED
    BY <2>1
<1>6. SpaceMap(m)[1].base = 0
  <2>1. 1 \in 1 .. Len(m)
    BY <1>2
  <2> QED
    BY <1>3, <1>5, <2>1
<1>7. ASSUME NEW i \in 1 .. Len(m)
      PROVE  /\ SpaceMap(m)[i].length > 0
             /\ SpaceMap(m)[i].base + SpaceMap(m)[i].length =
                    IF i = Len(m) THEN size ELSE SpaceMap(m)[i + 1].base
  <2>1. PICK l \in Nat : l = m[i].base
    BY <1>2
  <2>2. PICK h \in Nat : h = m[i].end
    BY <1>2
  <2>3. l <= h /\ (i < Len(m) => m[i + 1].base = h + 1)
    BY <1>1, <2>1, <2>2 DEF Tiled
  <2>4. SpaceMap(m)[i].base = l /\ SpaceMap(m)[i].length = h - l + 1
    BY <1>5, <2>1, <2>2
  <2>5. CASE i = Len(m)
    <3>1. h + 1 = size
      BY <1>3, <2>2, <2>5
    <3> QED
      BY <2>3, <2>4, <2>5, <3>1
  <2>6. CASE i # Len(m)
    <3>1. i + 1 \in 1 .. Len(m) /\ i < Len(m)
      BY <1>2, <2>6
    <3>2. SpaceMap(m)[i + 1].base = h + 1
      BY <1>5, <2>3, <3>1
    <3> QED
      BY <2>3, <2>4, <2>6, <3>2
  <2> QED
    BY <2>5, <2>6
<1> QED
  BY <1>6, <1>7 DEF Tiles

LEMMA KeptFits == Kept(mGcdMemorySpaceMap, MemorySize) => SearchFits
<1> SUFFICES ASSUME Tiled(mGcdMemorySpaceMap, 0, MemorySize),
                    NEW kind \in MemoryKinds \cup {NonExistent},
                    NEW request \in Requests(MemorySize, {kind})
             PROVE  LET base == FindSpace(mGcdMemorySpaceMap, request)
                        fits == Fits(mGcdMemorySpaceMap, request, Free(mGcdMemorySpaceMap, kind))
                    IN  IF TopDown(request)
                        THEN base \in fits \cup {NotFound}
                        ELSE base = IF fits = {} THEN NotFound ELSE Min(fits)
  BY DEF SearchFits, Kept
<1>1. request.kind = kind
  BY RequestsAsk
<1>2. IF TopDown(request)
      THEN FindSpace(mGcdMemorySpaceMap, request) \in FitsOf(mGcdMemorySpaceMap, request) \cup {NotFound}
      ELSE FindSpace(mGcdMemorySpaceMap, request) = Best(FitsOf(mGcdMemorySpaceMap, request))
  BY Spaces, SpaceFound
<1> QED
  BY <1>1, <1>2 DEF FitsOf, Best

(* The one entry of a new map.                                             *)
LEMMA TemplateKept ==
    ASSUME NEW size, Sized(size)
    PROVE  /\ Kept(<<Template(size)>>, size)
           /\ Cells(<<Template(size)>>, size) =
                  [a \in 0 .. size - 1 |->
                      [kind |-> NonExistent, capabilities |-> {}, attributes |-> {}, owner |-> NoOwner]]
<1> DEFINE e == Template(size)
           m == <<e>>
<1>1. size \in Nat /\ size > 0
  BY DEF Sized
<1>2. e \in EntryType /\ e.base = 0 /\ e.end = size - 1
  <2>1. NonExistent \in Kinds /\ {} \in SUBSET Bits /\ NoOwner \in AnyOwner /\ 0 \in Nat /\ size - 1 \in Nat
    BY <1>1 DEF Kinds, AnyOwner
  <2> QED
    BY <2>1 DEF Template, EntryType
<1>3. CellOf(e) = [kind |-> NonExistent, capabilities |-> {}, attributes |-> {}, owner |-> NoOwner]
  BY DEF Template, CellOf
<1> HIDE DEF e
<1>4. m \in Seq(EntryType) /\ Len(m) = 1 /\ m[1] = e /\ m # <<>>
  BY <1>2
<1>5. Tiled(m, 0, size)
  <2> HIDE DEF m
  <2>1. (size - 1) + 1 = size /\ 0 <= size - 1
    BY <1>1
  <2>2. \A i \in 1 .. Len(m) : i = 1 /\ ~(i < Len(m))
    BY <1>4
  <2> QED
    BY <1>2, <1>4, <2>1, <2>2 DEF Tiled
<1>6. Merged(m)
  BY <1>4 DEF Merged
<1>7. \A a \in 0 .. size - 1 : Cells(m, size)[a] = CellOf(e)
  <2> HIDE DEF m
  <2> SUFFICES ASSUME NEW a \in 0 .. size - 1 PROVE Cells(m, size)[a] = CellOf(e)
    OBVIOUS
  <2>1. 1 \in 1 .. Len(m) /\ Covers(m[1], a)
    BY <1>1, <1>2, <1>4 DEF Covers
  <2> QED
    BY <1>1, <1>4, <1>5, <2>1, CellAt
<1>8. Cells(m, size) = [a \in 0 .. size - 1 |-> Cells(m, size)[a]]
  BY DEF Cells
<1> QED
  <2> HIDE DEF m
  <2>1. Kept(m, size)
    BY <1>5, <1>6 DEF Kept
  <2>2. Cells(m, size) = [a \in 0 .. size - 1 |-> CellOf(e)]
    BY <1>7, <1>8
  <2> QED
    BY <1>3, <2>1, <2>2 DEF m, e

-----------------------------------------------------------------------------
(* The services, address by address. *)

LEMMA CellsTyped ==
    ASSUME NEW size, Sized(size), NEW m, Kept(m, size), NEW a \in 0 .. size - 1
    PROVE  Cells(m, size)[a] \in CellType
<1>1. Tiled(m, 0, size) /\ size \in Nat
  BY DEF Kept, Sized
<1>2. PICK i \in 1 .. Len(m) : Covers(m[i], a)
  BY <1>1, Covered
<1>3. Cells(m, size)[a] = CellOf(m[i]) /\ m[i] \in EntryType
  BY <1>1, <1>2, CellAt, Typed
<1> QED
  BY <1>3 DEF CellOf, EntryType, CellType

(* The fields of a cell that a service sets.                               *)
LEMMA ChangedCell ==
    ASSUME NEW c \in CellType, NEW x
    PROVE  /\ Changed(c, [owner |-> x]) = [c EXCEPT !.owner = x]
           /\ Changed(c, [kind |-> x]) = [c EXCEPT !.kind = x]
           /\ Changed(c, [capabilities |-> x]) = [c EXCEPT !.capabilities = x]
           /\ Changed(c, [attributes |-> x]) = [c EXCEPT !.attributes = x \cup (@ \cap CpuBits)]
<1>1. c = [kind |-> c.kind, capabilities |-> c.capabilities,
           attributes |-> c.attributes, owner |-> c.owner]
  BY DEF CellType
<1>2. DOMAIN c = {"kind", "capabilities", "attributes", "owner"}
  BY DEF CellType
<1>3. Changed(c, [owner |-> x]) = [c EXCEPT !.owner = x]
  BY <1>1, <1>2 DEF Changed
<1>4. Changed(c, [kind |-> x]) = [c EXCEPT !.kind = x]
  BY <1>1, <1>2 DEF Changed
<1>5. Changed(c, [capabilities |-> x]) = [c EXCEPT !.capabilities = x]
  BY <1>1, <1>2 DEF Changed
<1>6. Changed(c, [attributes |-> x]) = [c EXCEPT !.attributes = x \cup (@ \cap CpuBits)]
  BY <1>1, <1>2 DEF Changed
<1> QED
  BY <1>3, <1>4, <1>5, <1>6

Both(c, x, y) == [c EXCEPT !.kind = x, !.capabilities = y]

LEMMA ChangedBoth ==
    ASSUME NEW c \in CellType, NEW x, NEW y
    PROVE  Changed(c, [kind |-> x, capabilities |-> y]) = Both(c, x, y)
<1>1. c = [kind |-> c.kind, capabilities |-> c.capabilities,
           attributes |-> c.attributes, owner |-> c.owner]
  BY DEF CellType
<1>2. DOMAIN c = {"kind", "capabilities", "attributes", "owner"}
  BY DEF CellType
<1>3. PICK d : d = Changed(c, [kind |-> x, capabilities |-> y])
  OBVIOUS
<1>4. d = [field \in {"kind", "capabilities", "attributes", "owner"} |-> d[field]]
  BY <1>2, <1>3 DEF Changed
<1>5. d.kind = x /\ d.capabilities = y
  BY <1>2, <1>3 DEF Changed
<1>6. d.attributes = c.attributes /\ d.owner = c.owner
  BY <1>2, <1>3 DEF Changed
<1>7. d = [kind |-> x, capabilities |-> y, attributes |-> c.attributes, owner |-> c.owner]
  BY <1>4, <1>5, <1>6
<1>8. [c EXCEPT !.kind = x, !.capabilities = y]
         = [kind |-> x, capabilities |-> y, attributes |-> c.attributes, owner |-> c.owner]
  <2>1. PICK r : r = [c EXCEPT !.kind = x]
    OBVIOUS
  <2>2. r = [kind |-> x, capabilities |-> c.capabilities,
             attributes |-> c.attributes, owner |-> c.owner]
    BY <1>1, <2>1
  <2>3. [r EXCEPT !.capabilities = y]
           = [kind |-> x, capabilities |-> y, attributes |-> c.attributes, owner |-> c.owner]
    BY <2>2
  <2>4. [c EXCEPT !.kind = x, !.capabilities = y] = [r EXCEPT !.capabilities = y]
    BY <2>1
  <2> QED
    BY <2>3, <2>4
<1> QED
  BY <1>3, <1>7, <1>8 DEF Both

(* A range that may be converted lies in the map, and its cells are those  *)
(* of entries that allow the operation.                                    *)
LEMMA RangeAllows ==
    ASSUME NEW size, Sized(size), NEW m, Kept(m, size),
           NEW range \in Ranges(size), NEW allowed, Convertible(m, range[1], range[2], allowed)
    PROVE  /\ Within(range[1], range[2], size)
           /\ \A a \in range[1] .. range[1] + range[2] - 1 :
                 \E entry \in allowed : Cells(m, size)[a] = CellOf(entry)
<1>1. PICK base, length : base = range[1] /\ length = range[2]
  OBVIOUS
<1>2. base \in 0 .. size - 1 /\ length \in 1 .. size
  BY <1>1 DEF Ranges
<1>3. Tiled(m, 0, size) /\ size \in Nat /\ base \in Nat
  BY <1>2 DEF Kept, Sized
<1>4. CoreSearchGcdMapEntry(m, base, length) # <<>>
  BY <1>1 DEF Convertible, EntriesOf
<1>5. base + length <= size
  BY <1>2, <1>3, <1>4, SearchFails
<1>6. Within(base, length, size)
  BY <1>2, <1>5 DEF Within
<1>7. PICK s, e : CoreSearchGcdMapEntry(m, base, length) = <<s, e>> /\ Found(m, base, length, s, e)
  BY <1>2, <1>3, <1>5, SearchFinds
<1>8. EntriesOf(m, base, length) = {m[i] : i \in s .. e}
  BY <1>4, <1>7 DEF EntriesOf
<1>9. \A i \in s .. e : m[i] \in allowed
  BY <1>1, <1>8 DEF Convertible
<1>10. \A a \in base .. base + length - 1 : \E i \in s .. e : Cells(m, size)[a] = CellOf(m[i])
  BY <1>3, <1>6, <1>7, RangeCells
<1> QED
  BY <1>1, <1>6, <1>9, <1>10

(* Converting a range changes its cells, and no others.                    *)
LEMMA Effect ==
    ASSUME NEW size, NEW base, NEW length, Within(base, length, size),
           NEW change, Legal(change), NEW m, Kept(m, size),
           NEW w, w = Converted(m, base, length, change)
    PROVE  /\ Kept(w, size)
           /\ base \in 0 .. size - 1 /\ base + length - 1 \in 0 .. size - 1
           /\ base .. base + length - 1 # {} /\ base .. base + length - 1 \subseteq 0 .. size - 1
           /\ DOMAIN Cells(m, size) = 0 .. size - 1
           /\ \A a \in (0 .. size - 1) \ (base .. base + length - 1) :
                 Cells(w, size)[a] = Cells(m, size)[a]
           /\ \A a \in base .. base + length - 1 :
                 /\ Cells(m, size)[a] \in CellType
                 /\ Cells(w, size)[a] = Changed(Cells(m, size)[a], change)
<1>1. /\ base \in Nat /\ length \in Nat /\ length > 0 /\ size \in Nat /\ base + length <= size
  BY Numbers
<1>2. /\ Kept(w, size)
      /\ Cells(w, size) =
             [a \in 0 .. size - 1 |->
                 IF base <= a /\ a < base + length
                 THEN Changed(Cells(m, size)[a], change) ELSE Cells(m, size)[a]]
  BY Converts
<1>3. base \in 0 .. size - 1 /\ base + length - 1 \in 0 .. size - 1 /\ base \in base .. base + length - 1
  BY <1>1
<1>4. base .. base + length - 1 \subseteq 0 .. size - 1
  BY <1>1
<1>5. DOMAIN Cells(m, size) = 0 .. size - 1
  BY DEF Cells
<1>6. ASSUME NEW a \in (0 .. size - 1) \ (base .. base + length - 1)
      PROVE  Cells(w, size)[a] = Cells(m, size)[a]
  <2>1. ~(base <= a /\ a < base + length)
    BY <1>1
  <2> QED
    BY <1>2, <2>1
<1>7. ASSUME NEW a \in base .. base + length - 1
      PROVE  /\ Cells(m, size)[a] \in CellType
             /\ Cells(w, size)[a] = Changed(Cells(m, size)[a], change)
  <2>1. a \in 0 .. size - 1 /\ base <= a /\ a < base + length
    BY <1>1
  <2>2. Cells(m, size)[a] \in CellType
    <3>1. Sized(size)
      BY DEF Within
    <3> QED
      BY <2>1, <3>1, CellsTyped
  <2> QED
    BY <1>2, <2>1, <2>2
<1> QED
  BY <1>2, <1>3, <1>4, <1>5, <1>6, <1>7

-----------------------------------------------------------------------------
(* Pages. *)

LEMMA MultipleSums ==
    ASSUME NEW u \in Nat \ {0}, NEW a \in Nat, NEW b \in Nat, a % u = 0, b % u = 0
    PROVE  /\ (a + b) % u = 0
           /\ a <= b => (b - a) % u = 0
<1>1. PICK q \in Nat : q = a \div u
  BY Divides
<1>2. PICK k \in Nat : k = b \div u
  BY Divides
<1>3. a = q * u /\ b = k * u
  <2>1. a = q * u + 0 /\ b = k * u + 0 /\ q * u \in Nat /\ k * u \in Nat
    BY <1>1, <1>2, Divides
  <2> QED
    BY <2>1
<1>4. (a + b) % u = 0
  <2>1. PICK d \in Nat : d = q + k
    OBVIOUS
  <2>2. a + b = d * u
    BY <1>3, <2>1
  <2> QED
    BY <2>2, Multiple
<1>5. ASSUME a <= b
      PROVE  (b - a) % u = 0
  <2>1. CASE q <= k
    <3>1. PICK d \in Nat : k = q + d
      <4>1. k - q \in Nat /\ k = q + (k - q)
        BY <2>1
      <4> QED
        BY <4>1
    <3>2. k * u = q * u + d * u /\ d * u \in Nat /\ q * u \in Nat
      BY <3>1
    <3>3. b - a = d * u
      BY <1>3, <3>2
    <3> QED
      BY <3>3, Multiple
  <2>2. CASE k < q
    <3>1. PICK d \in Nat : q = k + d + 1
      <4>1. q - k - 1 \in Nat /\ q = k + (q - k - 1) + 1
        BY <2>2
      <4> QED
        BY <4>1
    <3>2. q * u = k * u + d * u + u /\ d * u \in Nat /\ k * u \in Nat
      BY <3>1
    <3> QED
      BY <1>3, <1>5, <3>2
  <2> QED
    BY <2>1, <2>2
<1> QED
  BY <1>4, <1>5

(* The addresses of the page of a.                                         *)
Page(a) == AlignDown(a, PageSize) .. AlignDown(a, PageSize) + PageSize - 1

(* Which pages lie in a range: those between low and high, its outermost   *)
(* boundaries of pages.                                                    *)
LEMMA PagesInside ==
    ASSUME NEW base \in Nat, NEW end \in Nat, NEW low \in Nat, NEW high \in Nat,
           low % PageSize = 0, high % PageSize = 0, base <= low, high <= end,
           \A b \in Nat : b % PageSize = 0 /\ base <= b => low <= b,
           \A b \in Nat : b % PageSize = 0 /\ b <= end => b <= high,
           NEW a \in base .. end - 1
    PROVE  Page(a) \subseteq base .. end - 1 <=> low <= a /\ a < high
<1>1. PICK u \in Nat \ {0} : u = PageSize
  BY GcdAssumption
<1>2. a \in Nat /\ base <= a /\ a < end
  OBVIOUS
<1>3. PICK p \in Nat : p = AlignDown(a, u) /\ p <= a /\ a < p + u /\ p % u = 0
  BY <1>1, <1>2, DownTo
<1>4. Page(a) = p .. p + u - 1
  BY <1>1, <1>3 DEF Page
<1>5. ASSUME Page(a) \subseteq base .. end - 1
      PROVE  low <= a /\ a < high
  <2>1. p \in p .. p + u - 1 /\ p + u - 1 \in p .. p + u - 1
    BY <1>1
  <2>2. base <= p /\ p + u <= end
    BY <1>4, <1>5, <2>1
  <2>3. low <= p
    BY <1>1, <1>3, <2>2
  <2>4. (p + u) % u = 0 /\ p + u \in Nat
    <3>1. u % u = 0 /\ u \in Nat /\ p % u = 0
      BY <1>1, <1>3
    <3>2. (p + u) % u = 0
      BY <3>1, MultipleSums
    <3> QED
      BY <3>1, <3>2
  <2>5. p + u <= high
    BY <1>1, <2>2, <2>4
  <2> QED
    BY <1>1, <1>3, <2>3, <2>5
<1>6. ASSUME low <= a, a < high
      PROVE  Page(a) \subseteq base .. end - 1
  <2>1. low <= p
    <3>1. \A b \in Nat : b % u = 0 /\ b <= a => b <= AlignDown(a, u)
      BY <1>2, DownTo
    <3> QED
      BY <1>1, <1>3, <1>6, <3>1
  <2>2. p < high
    BY <1>3, <1>6
  <2>3. p + u <= high
    BY <1>1, <1>3, <2>2, Multiples
  <2> QED
    BY <1>1, <1>4, <2>1, <2>3
<1> QED
  BY <1>5, <1>6

(* A range of whole pages is all of their addresses.                       *)
LEMMA WholeRange ==
    ASSUME NEW base \in Nat, NEW length \in Nat \ {0}, WholePages(base, length),
           NEW a \in base .. base + length - 1
    PROVE  Page(a) \subseteq base .. base + length - 1
<1>1. PageSize \in Nat \ {0}
  BY GcdAssumption
<1>2. base % PageSize = 0 /\ (base + length) % PageSize = 0 /\ base + length \in Nat
  <2>1. base % PageSize = 0 /\ length % PageSize = 0 /\ length \in Nat
    BY DEF WholePages
  <2>2. (base + length) % PageSize = 0
    BY <1>1, <2>1, MultipleSums
  <2> QED
    BY <2>1, <2>2
<1>3. PICK end \in Nat : end = base + length
  BY <1>2
<1>4. base <= a /\ a < end /\ a \in base .. end - 1
  BY <1>3
<1>5. Page(a) \subseteq base .. end - 1 <=> base <= a /\ a < end
  <2>1. \A b \in Nat : b % PageSize = 0 /\ base <= b => base <= b
    OBVIOUS
  <2>2. \A b \in Nat : b % PageSize = 0 /\ b <= end => b <= end
    OBVIOUS
  <2>3. end % PageSize = 0 /\ base <= base /\ end <= end
    BY <1>2, <1>3
  <2> QED
    BY <1>2, <1>4, <2>1, <2>2, <2>3, PagesInside
<1> QED
  BY <1>3, <1>4, <1>5

OwnedBy(cell, owner) == [cell EXCEPT !.owner = owner]

(* The core takes the whole pages of the range, and no more.               *)
CoreTakes(m, w, size, base, length) ==
    \A a \in 0 .. size - 1 :
        Cells(w, size)[a] =
            IF a \in base .. base + length - 1 /\ Page(a) \subseteq base .. base + length - 1
            THEN OwnedBy(Cells(m, size)[a], CoreOwner)
            ELSE Cells(m, size)[a]

LEMMA PagesTaken ==
    ASSUME NEW size, NEW base, NEW length, Within(base, length, size), size % PageSize = 0,
           NEW m, Kept(m, size), AlignUp(base, PageSize) <= base + length,
           NEW w, w = TakeWholePages(m, base, length)
    PROVE  Kept(w, size) /\ CoreTakes(m, w, size, base, length)
<1>1. /\ base \in Nat /\ length \in Nat /\ length > 0 /\ size \in Nat /\ base + length <= size
      /\ Width \in Nat /\ base < size /\ 2 * size <= Width
  <2>1. /\ base \in Nat /\ length \in Nat /\ length > 0 /\ size \in Nat /\ base + length <= size
        /\ Width \in Nat
    BY Numbers
  <2>2. 2 * size <= Width
    BY DEF Within, Sized
  <2> QED
    BY <2>1, <2>2
<1>2. PICK u \in Nat \ {0} : u = PageSize
  BY GcdAssumption
<1>3. u <= size
  <2>1. 0 % u = 0 /\ 0 < size /\ size % u = 0
    BY <1>1, <1>2
  <2>2. 0 + u <= size
    BY <1>1, <2>1, Multiples
  <2> QED
    BY <1>2, <2>2
<1>4. PICK low \in Nat : /\ low = AlignUp(base, u) /\ base <= low /\ low % u = 0
                         /\ \A b \in Nat : b % u = 0 /\ base <= b => low <= b
  <2>1. base + u - 1 < Width
    BY <1>1, <1>2, <1>3
  <2> QED
    BY <1>1, <2>1, UpTo
<1>5. PICK rest \in Nat : rest = base + length - low
  BY <1>1, <1>2, <1>4
<1>6. rest % Width = rest
  <2>1. rest < Width
    BY <1>1, <1>4, <1>5
  <2> QED
    BY <2>1, Small
<1>7. PICK pages \in Nat : /\ pages = AlignDown(rest, u) /\ pages <= rest /\ pages % u = 0
                           /\ \A b \in Nat : b % u = 0 /\ b <= rest => b <= pages
  BY DownTo
<1>8. PICK high \in Nat : high = low + pages
  OBVIOUS
<1>9. high % u = 0 /\ low <= high /\ high <= base + length
  BY <1>1, <1>4, <1>5, <1>7, <1>8, MultipleSums
<1>10. ASSUME NEW b \in Nat, b % u = 0, b <= base + length
       PROVE  b <= high
  <2>1. CASE b < low
    BY <1>9, <2>1
  <2>2. CASE low <= b
    <3>1. (b - low) % u = 0 /\ b - low \in Nat
      BY <1>4, <1>10, <2>2, MultipleSums
    <3>2. b - low <= rest
      BY <1>1, <1>5, <1>10
    <3>3. b - low <= pages
      BY <1>7, <3>1, <3>2
    <3> QED
      BY <1>8, <3>3
  <2> QED
    BY <2>1, <2>2
<1>11. ASSUME NEW a \in base .. base + length - 1
       PROVE  Page(a) \subseteq base .. base + length - 1 <=> low <= a /\ a < high
  <2>1. PICK end \in Nat : end = base + length
    <3>1. base + length \in Nat
      BY <1>1
    <3> QED
      BY <3>1
  <2>2. end - 1 = base + length - 1
    BY <1>1, <2>1
  <2>3. a \in base .. end - 1
    BY <1>11, <2>2
  <2>4. \A b \in Nat : b % PageSize = 0 /\ base <= b => low <= b
    BY <1>2, <1>4
  <2>5. \A b \in Nat : b % PageSize = 0 /\ b <= end => b <= high
    BY <1>2, <1>10, <2>1
  <2>6. low % PageSize = 0 /\ high % PageSize = 0
    BY <1>2, <1>4, <1>9
  <2>7. base <= low /\ high <= end /\ base \in Nat
    BY <1>1, <1>4, <1>9, <2>1
  <2>8. Page(a) \subseteq base .. end - 1 <=> low <= a /\ a < high
    BY <2>3, <2>4, <2>5, <2>6, <2>7, PagesInside
  <2> QED
    BY <2>8, <2>2
<1>12. ASSUME NEW a \in 0 .. size - 1
       PROVE  a \in base .. base + length - 1 /\ Page(a) \subseteq base .. base + length - 1
                 <=> low <= a /\ a < high
  <2>1. CASE a \in base .. base + length - 1
    BY <1>11, <2>1
  <2>2. CASE a \notin base .. base + length - 1
    BY <1>1, <1>4, <1>9, <2>2
  <2> QED
    BY <2>1, <2>2
<1>13. w = IF pages = 0 THEN m ELSE Own(m, low, pages, CoreOwner)
  BY <1>2, <1>4, <1>5, <1>6, <1>7 DEF TakeWholePages
<1>14. CASE pages = 0
  <2>1. w = m /\ \A a \in 0 .. size - 1 : ~(low <= a /\ a < high)
    BY <1>8, <1>13, <1>14
  <2> QED
    BY <1>12, <2>1 DEF CoreTakes
<1>15. CASE pages # 0
  <2>1. w = Converted(m, low, pages, [owner |-> CoreOwner])
    BY <1>13, <1>15 DEF Own
  <2>2. Within(low, pages, size)
    <3>1. low \in 0 .. size - 1 /\ pages \in 1 .. size /\ low + pages <= size
      BY <1>1, <1>8, <1>9, <1>15
    <3> QED
      BY <3>1 DEF Within
  <2>3. Legal([owner |-> CoreOwner])
    BY DEF Legal, AnyOwner
  <2>4. /\ Kept(w, size)
        /\ \A a \in (0 .. size - 1) \ (low .. low + pages - 1) :
              Cells(w, size)[a] = Cells(m, size)[a]
        /\ \A a \in low .. low + pages - 1 :
              /\ Cells(m, size)[a] \in CellType
              /\ Cells(w, size)[a] = Changed(Cells(m, size)[a], [owner |-> CoreOwner])
    BY <2>1, <2>2, <2>3, Effect
  <2>5. \A a \in 0 .. size - 1 : a \in low .. low + pages - 1 <=> low <= a /\ a < high
    BY <1>8
  <2>6. \A a \in low .. low + pages - 1 :
           Cells(w, size)[a] = OwnedBy(Cells(m, size)[a], CoreOwner)
    BY <2>4, ChangedCell DEF OwnedBy
  <2> QED
    BY <1>12, <2>4, <2>5, <2>6 DEF CoreTakes
<1> QED
  BY <1>14, <1>15

-----------------------------------------------------------------------------
(* Each service makes a step of AddressSpace. *)

(* A service leaves attributes as they are.                                *)
Plain(m, w, size) == \A a \in 0 .. size - 1 : Cells(w, size)[a].attributes = Cells(m, size)[a].attributes

LEMMA SameAttributes ==
    ASSUME NEW c \in CellType, NEW x, NEW y
    PROVE  /\ [c EXCEPT !.owner = x].attributes = c.attributes
           /\ [c EXCEPT !.kind = x].attributes = c.attributes
           /\ [c EXCEPT !.capabilities = x].attributes = c.attributes
           /\ [c EXCEPT !.kind = x, !.capabilities = y].attributes = c.attributes
BY DEF CellType

(* The range S of the map has entries that are allowed, and is changed.    *)
Turned(m, w, size, S, allowed, change) ==
    /\ Kept(w, size)
    /\ S # {} /\ S \subseteq 0 .. size - 1 /\ DOMAIN Cells(m, size) = 0 .. size - 1
    /\ \A a \in (0 .. size - 1) \ S : Cells(w, size)[a] = Cells(m, size)[a]
    /\ \A a \in S :
          /\ Cells(m, size)[a] \in CellType
          /\ Cells(w, size)[a] = Changed(Cells(m, size)[a], change)
          /\ \E entry \in allowed : Cells(m, size)[a] = CellOf(entry)

LEMMA TurnsRange ==
    ASSUME NEW size, Sized(size), NEW m, Kept(m, size), NEW range \in Ranges(size),
           NEW allowed, Convertible(m, range[1], range[2], allowed),
           NEW change, Legal(change), NEW w, w = Converted(m, range[1], range[2], change)
    PROVE  /\ Within(range[1], range[2], size)
           /\ range[1] \in 0 .. size - 1 /\ range[1] + range[2] - 1 \in 0 .. size - 1
           /\ Turned(m, w, size, range[1] .. range[1] + range[2] - 1, allowed, change)
<1>1. PICK base, length : base = range[1] /\ length = range[2]
  OBVIOUS
<1>2. /\ Within(base, length, size)
      /\ \A a \in base .. base + length - 1 : \E entry \in allowed : Cells(m, size)[a] = CellOf(entry)
  BY <1>1, RangeAllows
<1>3. /\ Kept(w, size)
      /\ base \in 0 .. size - 1 /\ base + length - 1 \in 0 .. size - 1
      /\ base .. base + length - 1 # {} /\ base .. base + length - 1 \subseteq 0 .. size - 1
      /\ DOMAIN Cells(m, size) = 0 .. size - 1
      /\ \A a \in (0 .. size - 1) \ (base .. base + length - 1) :
            Cells(w, size)[a] = Cells(m, size)[a]
      /\ \A a \in base .. base + length - 1 :
            /\ Cells(m, size)[a] \in CellType
            /\ Cells(w, size)[a] = Changed(Cells(m, size)[a], change)
  BY <1>1, <1>2, Effect
<1>4. Turned(m, w, size, base .. base + length - 1, allowed, change)
  BY <1>2, <1>3 DEF Turned
<1> QED
  BY <1>1, <1>2, <1>3, <1>4

LEMMA Turns ==
    ASSUME NEW size, Sized(size), NEW m, Kept(m, size), NEW range \in Ranges(size),
           NEW allowed, Convertible(m, range[1], range[2], allowed),
           NEW change, Legal(change), NEW w, w = Converted(m, range[1], range[2], change)
    PROVE  \E low \in 0 .. size - 1, high \in 0 .. size - 1 :
              Turned(m, w, size, low .. high, allowed, change)
BY TurnsRange

(* CoreFreeMemorySpace, CoreFreeIoSpace *)
LEMMA FreeChanges ==
    ASSUME NEW size, Sized(size), NEW m, Kept(m, size), NEW range \in Ranges(size),
           Convertible(m, range[1], range[2], Owned(m)),
           NEW w, w = Own(m, range[1], range[2], NoOwner)
    PROVE  /\ Kept(w, size) /\ Plain(m, w, size)
           /\ \E low, high \in 0 .. size - 1 :
                 Space!FreeMemory(Cells(m, size), Cells(w, size), low .. high)
<1>1. Legal([owner |-> NoOwner])
  BY DEF Legal, AnyOwner
<1>2. PICK low \in 0 .. size - 1, high \in 0 .. size - 1 :
         Turned(m, w, size, low .. high, Owned(m), [owner |-> NoOwner])
  BY <1>1, Turns DEF Own
<1> DEFINE S == low .. high
<1>3. Turned(m, w, size, S, Owned(m), [owner |-> NoOwner])
  BY <1>2
<1> HIDE DEF S
<1>4. ASSUME NEW a \in S
      PROVE  /\ Cells(m, size)[a].owner # NoOwner
             /\ Cells(w, size)[a] = [Cells(m, size)[a] EXCEPT !.owner = NoOwner]
             /\ Cells(w, size)[a].attributes = Cells(m, size)[a].attributes
  <2>1. PICK c \in CellType : c = Cells(m, size)[a] /\ Cells(w, size)[a] = Changed(c, [owner |-> NoOwner])
    BY <1>3 DEF Turned
  <2>2. c \in CellType
    BY <2>1
  <2>3. PICK entry \in Owned(m) : c = CellOf(entry)
    BY <1>3, <2>1 DEF Turned
  <2>4. c.owner # NoOwner
    BY <2>3 DEF Owned, CellOf
  <2>5. Cells(w, size)[a] = [c EXCEPT !.owner = NoOwner]
    <3>1. Changed(c, [owner |-> NoOwner]) = [c EXCEPT !.owner = NoOwner]
      BY <2>2, ChangedCell
    <3> QED
      BY <2>1, <3>1
  <2>6. Cells(w, size)[a].attributes = c.attributes
    <3>1. [c EXCEPT !.owner = NoOwner].attributes = c.attributes
      BY <2>2, SameAttributes
    <3> QED
      BY <2>5, <3>1
  <2> QED
    BY <2>1, <2>4, <2>5, <2>6
<1>5. Space!FreeMemory(Cells(m, size), Cells(w, size), S)
  BY <1>3, <1>4 DEF Turned, Space!FreeMemory, Space!Changes, Space!Owned
<1>6. Kept(w, size) /\ Plain(m, w, size)
  BY <1>3, <1>4 DEF Turned, Plain
<1> QED
  BY <1>5, <1>6 DEF S

(* CoreRemoveMemorySpace *)
LEMMA RemoveMemoryChanges ==
    ASSUME NEW size, Sized(size), NEW m, Kept(m, size), NEW range \in Ranges(size),
           Convertible(m, range[1], range[2], Present(m)),
           NEW w, w = Converted(m, range[1], range[2], [kind |-> NonExistent, capabilities |-> {}])
    PROVE  /\ Kept(w, size) /\ Plain(m, w, size)
           /\ \E low, high \in 0 .. size - 1 :
                 Space!RemoveMemory(Cells(m, size), Cells(w, size), low .. high)
<1>1. Legal([kind |-> NonExistent, capabilities |-> {}])
  BY DEF Legal, Kinds
<1>2. PICK low \in 0 .. size - 1, high \in 0 .. size - 1 :
         Turned(m, w, size, low .. high, Present(m), [kind |-> NonExistent, capabilities |-> {}])
  BY <1>1, Turns
<1> DEFINE S == low .. high
<1>3. Turned(m, w, size, S, Present(m), [kind |-> NonExistent, capabilities |-> {}])
  BY <1>2
<1> HIDE DEF S
<1>4. ASSUME NEW a \in S
      PROVE  /\ Cells(m, size)[a].kind # NonExistent /\ Cells(m, size)[a].owner = NoOwner
             /\ Cells(w, size)[a] = [Cells(m, size)[a] EXCEPT !.kind = NonExistent, !.capabilities = {}]
             /\ Cells(w, size)[a].attributes = Cells(m, size)[a].attributes
  <2>1. PICK c \in CellType : c = Cells(m, size)[a] /\ Cells(w, size)[a] = Changed(c, [kind |-> NonExistent, capabilities |-> {}])
    BY <1>3 DEF Turned
  <2>2. c \in CellType
    BY <2>1
  <2>3. PICK entry \in Present(m) : c = CellOf(entry)
    BY <1>3, <2>1 DEF Turned
  <2>4. c.kind # NonExistent /\ c.owner = NoOwner
    BY <2>3 DEF Present, CellOf
  <2>5. Cells(w, size)[a] = [c EXCEPT !.kind = NonExistent, !.capabilities = {}]
    <3>1. Changed(c, [kind |-> NonExistent, capabilities |-> {}])
             = Both(c, NonExistent, {})
      BY <2>2, ChangedBoth
    <3> QED
      BY <2>1, <3>1 DEF Both
  <2>6. Cells(w, size)[a].attributes = c.attributes
    <3>1. [c EXCEPT !.kind = NonExistent, !.capabilities = {}].attributes = c.attributes
      BY <2>2, SameAttributes
    <3> QED
      BY <2>5, <3>1
  <2> QED
    BY <2>1, <2>4, <2>5, <2>6
<1>5. Space!RemoveMemory(Cells(m, size), Cells(w, size), S)
  BY <1>3, <1>4 DEF Turned, Space!RemoveMemory, Space!Changes, Space!Present, Space!NonExistent, NonExistent
<1>6. Kept(w, size) /\ Plain(m, w, size)
  BY <1>3, <1>4 DEF Turned, Plain
<1> QED
  BY <1>5, <1>6 DEF S

(* CoreRemoveIoSpace *)
LEMMA RemoveIoChanges ==
    ASSUME NEW size, Sized(size), NEW m, Kept(m, size), NEW range \in Ranges(size),
           Convertible(m, range[1], range[2], Present(m)),
           NEW w, w = Converted(m, range[1], range[2], [kind |-> NonExistent])
    PROVE  /\ Kept(w, size) /\ Plain(m, w, size)
           /\ \E low, high \in 0 .. size - 1 :
                 Space!RemoveIo(Cells(m, size), Cells(w, size), low .. high)
<1>1. Legal([kind |-> NonExistent])
  BY DEF Legal, Kinds
<1>2. PICK low \in 0 .. size - 1, high \in 0 .. size - 1 :
         Turned(m, w, size, low .. high, Present(m), [kind |-> NonExistent])
  BY <1>1, Turns
<1> DEFINE S == low .. high
<1>3. Turned(m, w, size, S, Present(m), [kind |-> NonExistent])
  BY <1>2
<1> HIDE DEF S
<1>4. ASSUME NEW a \in S
      PROVE  /\ Cells(m, size)[a].kind # NonExistent /\ Cells(m, size)[a].owner = NoOwner
             /\ Cells(w, size)[a] = [Cells(m, size)[a] EXCEPT !.kind = NonExistent]
             /\ Cells(w, size)[a].attributes = Cells(m, size)[a].attributes
  <2>1. PICK c \in CellType : c = Cells(m, size)[a] /\ Cells(w, size)[a] = Changed(c, [kind |-> NonExistent])
    BY <1>3 DEF Turned
  <2>2. c \in CellType
    BY <2>1
  <2>3. PICK entry \in Present(m) : c = CellOf(entry)
    BY <1>3, <2>1 DEF Turned
  <2>4. c.kind # NonExistent /\ c.owner = NoOwner
    BY <2>3 DEF Present, CellOf
  <2>5. Cells(w, size)[a] = [c EXCEPT !.kind = NonExistent]
    <3>1. Changed(c, [kind |-> NonExistent]) = [c EXCEPT !.kind = NonExistent]
      BY <2>2, ChangedCell
    <3> QED
      BY <2>1, <3>1
  <2>6. Cells(w, size)[a].attributes = c.attributes
    <3>1. [c EXCEPT !.kind = NonExistent].attributes = c.attributes
      BY <2>2, SameAttributes
    <3> QED
      BY <2>5, <3>1
  <2> QED
    BY <2>1, <2>4, <2>5, <2>6
<1>5. Space!RemoveIo(Cells(m, size), Cells(w, size), S)
  BY <1>3, <1>4 DEF Turned, Space!RemoveIo, Space!Changes, Space!Present, Space!NonExistent, NonExistent
<1>6. Kept(w, size) /\ Plain(m, w, size)
  BY <1>3, <1>4 DEF Turned, Plain
<1> QED
  BY <1>5, <1>6 DEF S

(* CoreAddIoSpace *)
LEMMA AddIoChanges ==
    ASSUME NEW size, Sized(size), NEW m, Kept(m, size), NEW range \in Ranges(size), NEW kind \in IoKinds,
           Convertible(m, range[1], range[2], Vacant(m)),
           NEW w, w = Converted(m, range[1], range[2], [kind |-> kind])
    PROVE  /\ Kept(w, size) /\ Plain(m, w, size)
           /\ \E low, high \in 0 .. size - 1 :
                 Space!AddIo(Cells(m, size), Cells(w, size), low .. high, kind)
<1>1. Legal([kind |-> kind])
  BY DEF Legal, Kinds
<1>2. PICK low \in 0 .. size - 1, high \in 0 .. size - 1 :
         Turned(m, w, size, low .. high, Vacant(m), [kind |-> kind])
  BY <1>1, Turns
<1> DEFINE S == low .. high
<1>3. Turned(m, w, size, S, Vacant(m), [kind |-> kind])
  BY <1>2
<1> HIDE DEF S
<1>4. ASSUME NEW a \in S
      PROVE  /\ Cells(m, size)[a].kind = NonExistent /\ Cells(m, size)[a].owner = NoOwner
             /\ Cells(w, size)[a] = [Cells(m, size)[a] EXCEPT !.kind = kind]
             /\ Cells(w, size)[a].attributes = Cells(m, size)[a].attributes
  <2>1. PICK c \in CellType : c = Cells(m, size)[a] /\ Cells(w, size)[a] = Changed(c, [kind |-> kind])
    BY <1>3 DEF Turned
  <2>2. c \in CellType
    BY <2>1
  <2>3. PICK entry \in Vacant(m) : c = CellOf(entry)
    BY <1>3, <2>1 DEF Turned
  <2>4. c.kind = NonExistent /\ c.owner = NoOwner
    BY <2>3 DEF Vacant, CellOf
  <2>5. Cells(w, size)[a] = [c EXCEPT !.kind = kind]
    <3>1. Changed(c, [kind |-> kind]) = [c EXCEPT !.kind = kind]
      BY <2>2, ChangedCell
    <3> QED
      BY <2>1, <3>1
  <2>6. Cells(w, size)[a].attributes = c.attributes
    <3>1. [c EXCEPT !.kind = kind].attributes = c.attributes
      BY <2>2, SameAttributes
    <3> QED
      BY <2>5, <3>1
  <2> QED
    BY <2>1, <2>4, <2>5, <2>6
<1>5. Space!AddIo(Cells(m, size), Cells(w, size), S, kind)
  BY <1>3, <1>4 DEF Turned, Space!AddIo, Space!Changes, Space!Vacant, Space!NonExistent, NonExistent
<1>6. Kept(w, size) /\ Plain(m, w, size)
  BY <1>3, <1>4 DEF Turned, Plain
<1> QED
  BY <1>5, <1>6 DEF S

LEMMA RangeIsWhole ==
    ASSUME NEW base, NEW length, NEW size, Within(base, length, size), WholePages(base, length)
    PROVE  Space!Whole(base .. base + length - 1)
<1>1. base \in Nat /\ length \in Nat \ {0}
  BY Numbers
<1>2. \A a \in base .. base + length - 1 : Page(a) \subseteq base .. base + length - 1
  BY <1>1, WholeRange
<1> QED
  BY <1>2 DEF Space!Whole, Page, AlignDown

(* CoreSetMemorySpaceCapabilities *)
LEMMA CapabilitiesChange ==
    ASSUME NEW size, Sized(size), NEW m, Kept(m, size), NEW range \in Ranges(size),
           NEW bits \in BitSets, WholePages(range[1], range[2]),
           NEW allowed, allowed = {entry \in Range(m) : entry.attributes \subseteq bits},
           Convertible(m, range[1], range[2], allowed),
           NEW w, w = Converted(m, range[1], range[2], [capabilities |-> bits])
    PROVE  /\ Kept(w, size) /\ Plain(m, w, size)
           /\ \E low, high \in 0 .. size - 1 :
                 Space!SetCapabilities(Cells(m, size), Cells(w, size), low .. high, bits)
<1>1. Legal([capabilities |-> bits])
  BY DEF Legal, Bits
<1>2. PICK low \in 0 .. size - 1, high \in 0 .. size - 1 :
         Space!Whole(low .. high) /\ Turned(m, w, size, low .. high, allowed, [capabilities |-> bits])
  <2>1. /\ Within(range[1], range[2], size)
        /\ range[1] \in 0 .. size - 1 /\ range[1] + range[2] - 1 \in 0 .. size - 1
        /\ Turned(m, w, size, range[1] .. range[1] + range[2] - 1, allowed, [capabilities |-> bits])
    BY <1>1, TurnsRange
  <2>2. Space!Whole(range[1] .. range[1] + range[2] - 1)
    BY <2>1, RangeIsWhole
  <2> QED
    BY <2>1, <2>2
<1> DEFINE S == low .. high
<1>3. Space!Whole(S) /\ Turned(m, w, size, S, allowed, [capabilities |-> bits])
  BY <1>2
<1> HIDE DEF S
<1>4. ASSUME NEW a \in S
      PROVE  /\ Cells(m, size)[a].attributes \subseteq bits
             /\ Cells(w, size)[a] = [Cells(m, size)[a] EXCEPT !.capabilities = bits]
             /\ Cells(w, size)[a].attributes = Cells(m, size)[a].attributes
  <2>1. PICK c \in CellType : c = Cells(m, size)[a] /\ Cells(w, size)[a] = Changed(c, [capabilities |-> bits])
    BY <1>3 DEF Turned
  <2>2. c \in CellType
    BY <2>1
  <2>3. PICK entry \in allowed : c = CellOf(entry)
    BY <1>3, <2>1 DEF Turned
  <2>4. c.attributes \subseteq bits
    BY <2>3 DEF CellOf
  <2>5. Cells(w, size)[a] = [c EXCEPT !.capabilities = bits]
    <3>1. Changed(c, [capabilities |-> bits]) = [c EXCEPT !.capabilities = bits]
      BY <2>2, ChangedCell
    <3> QED
      BY <2>1, <3>1
  <2>6. Cells(w, size)[a].attributes = c.attributes
    <3>1. [c EXCEPT !.capabilities = bits].attributes = c.attributes
      BY <2>2, SameAttributes
    <3> QED
      BY <2>5, <3>1
  <2> QED
    BY <2>1, <2>4, <2>5, <2>6
<1>5. Space!SetCapabilities(Cells(m, size), Cells(w, size), S, bits)
  BY <1>3, <1>4 DEF Turned, Space!SetCapabilities, Space!Changes
<1>6. Kept(w, size) /\ Plain(m, w, size)
  BY <1>3, <1>4 DEF Turned, Plain
<1> QED
  BY <1>5, <1>6 DEF S

(* Nothing has attributes of the CPU.                                      *)
NoCpuBits(m, size) == \A a \in 0 .. size - 1 : Cells(m, size)[a].attributes \cap CpuBits = {}

(* CoreSetMemorySpaceAttributes *)
LEMMA AttributesChange ==
    ASSUME NEW size, Sized(size), NEW m, Kept(m, size), NoCpuBits(m, size), NEW range \in Ranges(size),
           NEW bits \in BitSets, bits \cap CpuBits = {},
           RuntimeBit \in bits => WholePages(range[1], range[2]),
           NEW allowed, allowed = {entry \in Range(m) : bits \subseteq entry.capabilities},
           Convertible(m, range[1], range[2], allowed),
           NEW w, w = Converted(m, range[1], range[2], [attributes |-> bits])
    PROVE  /\ Kept(w, size) /\ NoCpuBits(w, size)
           /\ \E low, high \in 0 .. size - 1 :
                 Space!SetAttributes(Cells(m, size), Cells(w, size), low .. high, bits)
<1>1. Legal([attributes |-> bits])
  BY DEF Legal, Bits
<1>2. PICK low \in 0 .. size - 1, high \in 0 .. size - 1 :
         /\ RuntimeBit \in bits => Space!Whole(low .. high)
         /\ Turned(m, w, size, low .. high, allowed, [attributes |-> bits])
  <2>1. /\ Within(range[1], range[2], size)
        /\ range[1] \in 0 .. size - 1 /\ range[1] + range[2] - 1 \in 0 .. size - 1
        /\ Turned(m, w, size, range[1] .. range[1] + range[2] - 1, allowed, [attributes |-> bits])
    BY <1>1, TurnsRange
  <2>2. RuntimeBit \in bits => Space!Whole(range[1] .. range[1] + range[2] - 1)
    BY <2>1, RangeIsWhole
  <2> QED
    BY <2>1, <2>2
<1> DEFINE S == low .. high
<1>3. /\ RuntimeBit \in bits => Space!Whole(S)
      /\ Turned(m, w, size, S, allowed, [attributes |-> bits])
  BY <1>2
<1> HIDE DEF S
<1>4. ASSUME NEW a \in S
      PROVE  /\ bits \subseteq Cells(m, size)[a].capabilities
             /\ Cells(w, size)[a] = [Cells(m, size)[a] EXCEPT !.attributes = bits]
             /\ Cells(w, size)[a].attributes \cap CpuBits = {}
  <2>1. PICK c \in CellType : c = Cells(m, size)[a] /\ Cells(w, size)[a] = Changed(c, [attributes |-> bits])
    BY <1>3 DEF Turned
  <2>2. c \in CellType /\ c.attributes \cap CpuBits = {}
    BY <1>3, <2>1 DEF NoCpuBits, Turned
  <2>3. PICK entry \in allowed : c = CellOf(entry)
    BY <1>3, <2>1 DEF Turned
  <2>4. bits \subseteq c.capabilities
    BY <2>3 DEF CellOf
  <2>5. Changed(c, [attributes |-> bits]) = [c EXCEPT !.attributes = bits]
    <3>1. Changed(c, [attributes |-> bits]) = [c EXCEPT !.attributes = bits \cup (@ \cap CpuBits)]
      BY <2>2, ChangedCell
    <3>2. bits \cup (c.attributes \cap CpuBits) = bits
      BY <2>2
    <3> QED
      BY <3>1, <3>2
  <2>6. Cells(w, size)[a] = [c EXCEPT !.attributes = bits]
    BY <2>1, <2>5
  <2>7. [c EXCEPT !.attributes = bits].attributes = bits
    BY <2>2 DEF CellType
  <2>8. Cells(w, size)[a].attributes \cap CpuBits = {}
    BY <2>6, <2>7
  <2> QED
    BY <2>1, <2>4, <2>6, <2>8
<1>5. Space!SetAttributes(Cells(m, size), Cells(w, size), S, bits)
  BY <1>3, <1>4 DEF Turned, Space!SetAttributes, Space!Changes
<1>6. Kept(w, size) /\ NoCpuBits(w, size)
  BY <1>3, <1>4 DEF Turned, NoCpuBits
<1> QED
  BY <1>5, <1>6 DEF S

(* CoreAllocateMemorySpace, CoreAllocateIoSpace *)
LEMMA AllocateChanges ==
    ASSUME NEW size, Sized(size), NEW m, Kept(m, size),
           NEW kinds, NEW request \in Requests(size, kinds), FindSpace(m, request) # NotFound,
           NEW owner \in Owners, NEW w, w = Own(m, FindSpace(m, request), request.length, owner)
    PROVE  /\ Kept(w, size) /\ Plain(m, w, size) /\ request.kind \in kinds
           /\ \E low, high \in 0 .. size - 1 :
                 Space!AllocateMemory(Cells(m, size), Cells(w, size), low .. high, request.kind, owner)
<1>1. PICK base, length : base = FindSpace(m, request) /\ length = request.length
  OBVIOUS
<1>2. Tiled(m, 0, size)
  BY DEF Kept
<1>3. Within(base, length, size) /\ base .. base + length - 1 \subseteq Free(m, request.kind)
  BY <1>1, <1>2, FoundServes
<1>4. Legal([owner |-> owner])
  BY DEF Legal, AnyOwner
<1>5. w = Converted(m, base, length, [owner |-> owner])
  BY <1>1 DEF Own
<1> DEFINE S == base .. base + length - 1
<1>6. /\ Kept(w, size)
      /\ base \in 0 .. size - 1 /\ base + length - 1 \in 0 .. size - 1
      /\ S # {} /\ S \subseteq 0 .. size - 1
      /\ DOMAIN Cells(m, size) = 0 .. size - 1
      /\ \A a \in (0 .. size - 1) \ S : Cells(w, size)[a] = Cells(m, size)[a]
      /\ \A a \in S :
            /\ Cells(m, size)[a] \in CellType
            /\ Cells(w, size)[a] = Changed(Cells(m, size)[a], [owner |-> owner])
  BY <1>3, <1>4, <1>5, Effect
<1>7. S \subseteq Free(m, request.kind)
  BY <1>3
<1> HIDE DEF S
<1>8. ASSUME NEW a \in S
      PROVE  /\ Cells(m, size)[a].kind = request.kind /\ Cells(m, size)[a].owner = NoOwner
             /\ Cells(w, size)[a] = [Cells(m, size)[a] EXCEPT !.owner = owner]
             /\ Cells(w, size)[a].attributes = Cells(m, size)[a].attributes
  <2>1. PICK c \in CellType : c = Cells(m, size)[a] /\ Cells(w, size)[a] = Changed(c, [owner |-> owner])
    BY <1>6
  <2>2. c \in CellType
    BY <2>1
  <2>3. c.kind = request.kind /\ c.owner = NoOwner
    <3>1. a \in Free(m, request.kind)
      BY <1>7
    <3>2. Cells(m, size)[a].kind = request.kind /\ Cells(m, size)[a].owner = NoOwner
      BY <1>2, <3>1, FreeCells
    <3> QED
      BY <2>1, <3>2
  <2>4. Changed(c, [owner |-> owner]) = [c EXCEPT !.owner = owner]
    BY <2>2, ChangedCell
  <2>5. [c EXCEPT !.owner = owner].attributes = c.attributes
    BY <2>2, SameAttributes
  <2> QED
    BY <2>1, <2>3, <2>4, <2>5
<1>9. Space!AllocateMemory(Cells(m, size), Cells(w, size), S, request.kind, owner)
  BY <1>6, <1>8 DEF Space!AllocateMemory, Space!Changes
<1>10. Plain(m, w, size)
  BY <1>6, <1>8 DEF Plain
<1>11. request.kind \in kinds
  BY RequestsAsk
<1> QED
  BY <1>6, <1>9, <1>10, <1>11 DEF S

(* Memory that is added, and may be taken by the core.                     *)
Taken(c, x, y, z) == [c EXCEPT !.kind = x, !.capabilities = y, !.owner = z]

LEMMA TakenCell ==
    ASSUME NEW c \in CellType, NEW x, NEW y, NEW z
    PROVE  /\ c.owner = NoOwner => Taken(c, x, y, NoOwner) = Both(c, x, y)
           /\ Taken(c, x, y, z) = OwnedBy(Both(c, x, y), z)
           /\ Taken(c, x, y, z).attributes = c.attributes
<1>1. PICK p, q, k, o : c = [kind |-> k, capabilities |-> p, attributes |-> q, owner |-> o]
  BY DEF CellType
<1>2. PICK r : r = [c EXCEPT !.kind = x]
  OBVIOUS
<1>3. r = [kind |-> x, capabilities |-> p, attributes |-> q, owner |-> o]
  BY <1>1, <1>2
<1>4. PICK b : b = [r EXCEPT !.capabilities = y]
  OBVIOUS
<1>5. b = [kind |-> x, capabilities |-> y, attributes |-> q, owner |-> o]
  BY <1>3, <1>4
<1>6. Both(c, x, y) = b
  BY <1>2, <1>4 DEF Both
<1>7. \A n : Taken(c, x, y, n) = [b EXCEPT !.owner = n]
  BY <1>2, <1>4 DEF Taken
<1>8. \A n : [b EXCEPT !.owner = n] = [kind |-> x, capabilities |-> y, attributes |-> q, owner |-> n]
  BY <1>5
<1>9. c.attributes = q /\ c.owner = o
  BY <1>1
<1> QED
  BY <1>5, <1>6, <1>7, <1>8, <1>9 DEF OwnedBy

LEMMA GivenBits ==
    ASSUME NEW capabilities \in BitSets, NEW extra, extra \subseteq {PortIoBit}
    PROVE  capabilities \cup {RuntimeBit} \cup extra \in SUBSET Bits
BY DEF Bits

(* CoreAddMemorySpace *)
LEMMA AddMemoryChanges ==
    ASSUME NEW size, Sized(size), size % PageSize = 0, NEW m, Kept(m, size), NEW range \in Ranges(size),
           NEW kind \in MemoryKinds, NEW capabilities \in BitSets,
           Convertible(m, range[1], range[2], Vacant(m)),
           kind = "SystemMemory" => range[1] + range[2] >= AlignUp(range[1], PageSize),
           NEW given, given = capabilities \cup {RuntimeBit}
                                  \cup (IF kind = "MemoryMappedIo" THEN {PortIoBit} ELSE {}),
           NEW v, v = Converted(m, range[1], range[2], [kind |-> kind, capabilities |-> given]),
           NEW w, w = IF kind = "SystemMemory" THEN TakeWholePages(v, range[1], range[2]) ELSE v
    PROVE  /\ Kept(w, size) /\ Plain(m, w, size)
           /\ \E low, high \in 0 .. size - 1 :
                 Space!AddMemory(Cells(m, size), Cells(w, size), low .. high, kind, capabilities)
<1>1. Legal([kind |-> kind, capabilities |-> given])
  <2>1. kind \in Kinds
    BY DEF Kinds
  <2>2. given \in SUBSET Bits
    BY GivenBits
  <2> QED
    BY <2>1, <2>2 DEF Legal
<1>2. PICK base, length : base = range[1] /\ length = range[2]
  OBVIOUS
<1>3. /\ Within(base, length, size)
      /\ base \in 0 .. size - 1 /\ base + length - 1 \in 0 .. size - 1
      /\ Turned(m, v, size, base .. base + length - 1, Vacant(m), [kind |-> kind, capabilities |-> given])
  BY <1>1, <1>2, TurnsRange
<1> DEFINE S == base .. base + length - 1
           own(a) == kind = "SystemMemory" /\ Page(a) \subseteq S
<1>4. Kept(v, size)
  BY <1>3 DEF Turned
<1>5. /\ Kept(w, size)
      /\ \A a \in 0 .. size - 1 :
            Cells(w, size)[a] =
                IF a \in S /\ own(a) THEN OwnedBy(Cells(v, size)[a], CoreOwner) ELSE Cells(v, size)[a]
  <2>1. CASE kind = "SystemMemory"
    <3>1. w = TakeWholePages(v, base, length)
      BY <1>2, <2>1
    <3>2. base + length >= AlignUp(base, PageSize)
      BY <1>2, <2>1
    <3>3. AlignUp(base, PageSize) <= base + length
      BY <3>2
    <3>4. Kept(w, size) /\ CoreTakes(v, w, size, base, length)
      BY <1>3, <1>4, <3>1, <3>3, PagesTaken
    <3> QED
      BY <2>1, <3>4 DEF CoreTakes
  <2>2. CASE kind # "SystemMemory"
    BY <1>4, <2>2
  <2> QED
    BY <2>1, <2>2
<1>6. Turned(m, v, size, S, Vacant(m), [kind |-> kind, capabilities |-> given])
  BY <1>3
<1>7. \A a : own(a) <=> kind = "SystemMemory" /\ Space!InWholePage(S, a)
  BY DEF Space!InWholePage, Page, AlignDown
<1> HIDE DEF S, own
<1>8. S \subseteq 0 .. size - 1
  BY <1>6 DEF Turned
<1>9. \A a \in (0 .. size - 1) \ S : Cells(w, size)[a] = Cells(m, size)[a]
  <2>1. \A a \in (0 .. size - 1) \ S : Cells(v, size)[a] = Cells(m, size)[a]
    BY ONLY <1>6 DEF Turned
  <2>2. \A a \in (0 .. size - 1) \ S : Cells(w, size)[a] = Cells(v, size)[a]
    BY ONLY <1>5
  <2> QED
    BY ONLY <2>1, <2>2
<1>10. ASSUME NEW a \in S
       PROVE  /\ Cells(m, size)[a].kind = NonExistent /\ Cells(m, size)[a].owner = NoOwner
              /\ Cells(w, size)[a] =
                     Taken(Cells(m, size)[a], kind, given, IF own(a) THEN CoreOwner ELSE NoOwner)
              /\ Cells(w, size)[a].attributes = Cells(m, size)[a].attributes
  <2>1. PICK c \in CellType :
           c = Cells(m, size)[a] /\ Cells(v, size)[a] = Changed(c, [kind |-> kind, capabilities |-> given])
    BY <1>6 DEF Turned
  <2>2. c \in CellType
    BY <2>1
  <2>3. PICK entry \in Vacant(m) : c = CellOf(entry)
    BY <1>6, <2>1 DEF Turned
  <2>4. c.kind = NonExistent /\ c.owner = NoOwner
    BY <2>3 DEF Vacant, CellOf
  <2>5. Cells(v, size)[a] = Both(c, kind, given)
    <3>1. Changed(c, [kind |-> kind, capabilities |-> given]) = Both(c, kind, given)
      BY <2>2, ChangedBoth
    <3> QED
      BY <2>1, <3>1
  <2>6. Cells(w, size)[a] =
            IF own(a) THEN OwnedBy(Both(c, kind, given), CoreOwner) ELSE Both(c, kind, given)
    BY <1>5, <1>8, <2>5
  <2>7. Cells(w, size)[a] = Taken(c, kind, given, IF own(a) THEN CoreOwner ELSE NoOwner)
    <3>1. Taken(c, kind, given, NoOwner) = Both(c, kind, given)
      BY <2>2, <2>4, TakenCell
    <3>2. Taken(c, kind, given, CoreOwner) = OwnedBy(Both(c, kind, given), CoreOwner)
      BY <2>2, TakenCell
    <3> QED
      BY <2>6, <3>1, <3>2
  <2>8. Cells(w, size)[a].attributes = c.attributes
    BY <2>2, <2>7, TakenCell
  <2> QED
    BY <2>1, <2>4, <2>7, <2>8
<1>11. Space!AddMemory(Cells(m, size), Cells(w, size), S, kind, capabilities)
  <2>1. /\ S # {} /\ S \subseteq DOMAIN Cells(m, size)
        /\ \A a \in DOMAIN Cells(m, size) \ S : Cells(w, size)[a] = Cells(m, size)[a]
    BY <1>6, <1>9 DEF Turned
  <2>2. \A a \in S : Space!Vacant(Cells(m, size)[a])
    BY <1>10 DEF Space!Vacant, Space!NonExistent, NonExistent
  <2>3. \A a \in S :
           Cells(w, size)[a] =
               [Cells(m, size)[a] EXCEPT
                   !.kind = kind,
                   !.capabilities = capabilities \cup {RuntimeBit}
                                       \cup (IF kind = "MemoryMappedIo" THEN {PortIoBit} ELSE {}),
                   !.owner = IF kind = "SystemMemory" /\ Space!InWholePage(S, a)
                             THEN CoreOwner ELSE NoOwner]
    BY <1>7, <1>10 DEF Taken
  <2> QED
    BY <2>1, <2>2, <2>3 DEF Space!AddMemory, Space!Changes
<1>12. Plain(m, w, size)
  BY <1>9, <1>10 DEF Plain
<1> QED
  BY <1>3, <1>5, <1>11, <1>12 DEF S

-----------------------------------------------------------------------------
(* The theorems. *)

LEMMA PlainBits ==
    ASSUME NEW size, NEW m, NEW w, NoCpuBits(m, size), Plain(m, w, size)
    PROVE  NoCpuBits(w, size)
BY DEF NoCpuBits, Plain

LEMMA MemorySteps ==
    ASSUME Kept(mGcdMemorySpaceMap, MemorySize), NoCpuBits(mGcdMemorySpaceMap, MemorySize), MemoryNext
    PROVE  /\ Kept(mGcdMemorySpaceMap', MemorySize) /\ NoCpuBits(mGcdMemorySpaceMap', MemorySize)
           /\ Space!MemoryStep(Cells(mGcdMemorySpaceMap, MemorySize), Cells(mGcdMemorySpaceMap', MemorySize))
           /\ UNCHANGED mGcdIoSpaceMap
<1> DEFINE m == mGcdMemorySpaceMap
           w == mGcdMemorySpaceMap'
           before == Cells(m, MemorySize)
           after == Cells(w, MemorySize)
           Goal == /\ Kept(w, MemorySize) /\ NoCpuBits(w, MemorySize)
                   /\ Space!MemoryStep(before, after) /\ UNCHANGED mGcdIoSpaceMap
<1> USE Spaces
<1>1. ASSUME NEW range \in Ranges(MemorySize), NEW kind \in MemoryKinds, NEW capabilities \in BitSets,
             CoreAddMemorySpace(kind, range[1], range[2], capabilities)
      PROVE  Goal
  <2>1. PICK given : given = capabilities \cup {RuntimeBit}
                                 \cup (IF kind = "MemoryMappedIo" THEN {PortIoBit} ELSE {})
    OBVIOUS
  <2>2. PICK v : v = Converted(m, range[1], range[2], [kind |-> kind, capabilities |-> given])
    OBVIOUS
  <2>3. /\ Convertible(m, range[1], range[2], Vacant(m))
        /\ kind = "SystemMemory" => range[1] + range[2] >= AlignUp(range[1], PageSize)
        /\ w = IF kind = "SystemMemory" THEN TakeWholePages(v, range[1], range[2]) ELSE v
        /\ UNCHANGED mGcdIoSpaceMap
    BY <1>1, <2>1, <2>2 DEF CoreAddMemorySpace, MemoryCall
  <2>4. MemorySize % PageSize = 0
    BY GcdAssumption
  <2>5. /\ Kept(w, MemorySize) /\ Plain(m, w, MemorySize)
        /\ \E low, high \in 0 .. MemorySize - 1 :
              Space!AddMemory(before, after, low .. high, kind, capabilities)
    BY <2>1, <2>2, <2>3, <2>4, AddMemoryChanges
  <2>6. Space!MemoryStep(before, after)
    BY <2>5 DEF Space!MemoryStep
  <2> QED
    BY <2>3, <2>5, <2>6, PlainBits
<1>2. ASSUME NEW range \in Ranges(MemorySize), CoreFreeMemorySpace(range[1], range[2])
      PROVE  Goal
  <2>1. /\ Convertible(m, range[1], range[2], Owned(m)) /\ w = Own(m, range[1], range[2], NoOwner)
        /\ UNCHANGED mGcdIoSpaceMap
    BY <1>2 DEF CoreFreeMemorySpace, MemoryCall
  <2>2. /\ Kept(w, MemorySize) /\ Plain(m, w, MemorySize)
        /\ \E low, high \in 0 .. MemorySize - 1 : Space!FreeMemory(before, after, low .. high)
    BY <2>1, FreeChanges
  <2>3. Space!MemoryStep(before, after)
    BY <2>2 DEF Space!MemoryStep
  <2> QED
    BY <2>1, <2>2, <2>3, PlainBits
<1>3. ASSUME NEW range \in Ranges(MemorySize), CoreRemoveMemorySpace(range[1], range[2])
      PROVE  Goal
  <2>1. /\ Convertible(m, range[1], range[2], Present(m))
        /\ w = Converted(m, range[1], range[2], [kind |-> NonExistent, capabilities |-> {}])
        /\ UNCHANGED mGcdIoSpaceMap
    BY <1>3 DEF CoreRemoveMemorySpace, MemoryCall
  <2>2. /\ Kept(w, MemorySize) /\ Plain(m, w, MemorySize)
        /\ \E low, high \in 0 .. MemorySize - 1 : Space!RemoveMemory(before, after, low .. high)
    BY <2>1, RemoveMemoryChanges
  <2>3. Space!MemoryStep(before, after)
    BY <2>2 DEF Space!MemoryStep
  <2> QED
    BY <2>1, <2>2, <2>3, PlainBits
<1>4. ASSUME NEW range \in Ranges(MemorySize), NEW bits \in BitSets,
             CoreSetMemorySpaceAttributes(range[1], range[2], bits)
      PROVE  Goal
  <2>1. PICK allowed : allowed = {entry \in Range(m) : bits \subseteq entry.capabilities}
    OBVIOUS
  <2>2. /\ Convertible(m, range[1], range[2], allowed)
        /\ RuntimeBit \in bits => WholePages(range[1], range[2])
        /\ bits \cap CpuBits = {}
        /\ w = Converted(m, range[1], range[2], [attributes |-> bits])
        /\ UNCHANGED mGcdIoSpaceMap
    BY <1>4, <2>1 DEF CoreSetMemorySpaceAttributes, MemoryCall, ConverToCpuArchAttributes
  <2>3. /\ Kept(w, MemorySize) /\ NoCpuBits(w, MemorySize)
        /\ \E low, high \in 0 .. MemorySize - 1 : Space!SetAttributes(before, after, low .. high, bits)
    BY <2>1, <2>2, AttributesChange
  <2>4. Space!MemoryStep(before, after)
    BY <2>3 DEF Space!MemoryStep
  <2> QED
    BY <2>2, <2>3, <2>4
<1>5. ASSUME NEW range \in Ranges(MemorySize), NEW bits \in BitSets,
             CoreSetMemorySpaceCapabilities(range[1], range[2], bits)
      PROVE  Goal
  <2>1. PICK allowed : allowed = {entry \in Range(m) : entry.attributes \subseteq bits}
    OBVIOUS
  <2>2. /\ Convertible(m, range[1], range[2], allowed) /\ WholePages(range[1], range[2])
        /\ w = Converted(m, range[1], range[2], [capabilities |-> bits])
        /\ UNCHANGED mGcdIoSpaceMap
    BY <1>5, <2>1 DEF CoreSetMemorySpaceCapabilities, MemoryCall
  <2>3. /\ Kept(w, MemorySize) /\ Plain(m, w, MemorySize)
        /\ \E low, high \in 0 .. MemorySize - 1 : Space!SetCapabilities(before, after, low .. high, bits)
    BY <2>1, <2>2, CapabilitiesChange
  <2>4. Space!MemoryStep(before, after)
    BY <2>3 DEF Space!MemoryStep
  <2> QED
    BY <2>2, <2>3, <2>4, PlainBits
<1>6. ASSUME NEW request \in Requests(MemorySize, MemoryKinds \cup {NonExistent}), NEW owner \in Owners,
             CoreAllocateMemorySpace(request, owner)
      PROVE  Goal
  <2>1. /\ FindSpace(m, request) # NotFound
        /\ w = Own(m, FindSpace(m, request), request.length, owner)
        /\ UNCHANGED mGcdIoSpaceMap
    BY <1>6 DEF CoreAllocateMemorySpace, MemoryCall
  <2>2. /\ Kept(w, MemorySize) /\ Plain(m, w, MemorySize) /\ request.kind \in MemoryKinds \cup {NonExistent}
        /\ \E low, high \in 0 .. MemorySize - 1 :
              Space!AllocateMemory(before, after, low .. high, request.kind, owner)
    BY <2>1, AllocateChanges
  <2>3. Space!MemoryStep(before, after)
    BY <2>2 DEF Space!MemoryStep, Space!NonExistent, NonExistent
  <2> QED
    BY <2>1, <2>2, <2>3, PlainBits
<1> HIDE DEF Goal
<1>7. Goal
  BY <1>1, <1>2, <1>3, <1>4, <1>5, <1>6 DEF MemoryNext
<1> QED
  BY <1>7 DEF Goal

LEMMA IoSteps ==
    ASSUME Kept(mGcdIoSpaceMap, IoSize), IoNext
    PROVE  /\ Kept(mGcdIoSpaceMap', IoSize)
           /\ Space!IoStep(Cells(mGcdIoSpaceMap, IoSize), Cells(mGcdIoSpaceMap', IoSize))
           /\ UNCHANGED mGcdMemorySpaceMap
<1> DEFINE m == mGcdIoSpaceMap
           w == mGcdIoSpaceMap'
           before == Cells(m, IoSize)
           after == Cells(w, IoSize)
           Goal == Kept(w, IoSize) /\ Space!IoStep(before, after) /\ UNCHANGED mGcdMemorySpaceMap
<1> USE Spaces
<1>1. ASSUME NEW range \in Ranges(IoSize), NEW kind \in IoKinds, CoreAddIoSpace(kind, range[1], range[2])
      PROVE  Goal
  <2>1. /\ Convertible(m, range[1], range[2], Vacant(m))
        /\ w = Converted(m, range[1], range[2], [kind |-> kind])
        /\ UNCHANGED mGcdMemorySpaceMap
    BY <1>1 DEF CoreAddIoSpace, IoCall
  <2>2. /\ Kept(w, IoSize)
        /\ \E low, high \in 0 .. IoSize - 1 : Space!AddIo(before, after, low .. high, kind)
    BY <2>1, AddIoChanges
  <2>3. Space!IoStep(before, after)
    BY <2>2 DEF Space!IoStep
  <2> QED
    BY <2>1, <2>2, <2>3
<1>2. ASSUME NEW range \in Ranges(IoSize), CoreFreeIoSpace(range[1], range[2])
      PROVE  Goal
  <2>1. /\ Convertible(m, range[1], range[2], Owned(m)) /\ w = Own(m, range[1], range[2], NoOwner)
        /\ UNCHANGED mGcdMemorySpaceMap
    BY <1>2 DEF CoreFreeIoSpace, IoCall
  <2>2. /\ Kept(w, IoSize)
        /\ \E low, high \in 0 .. IoSize - 1 : Space!FreeMemory(before, after, low .. high)
    BY <2>1, FreeChanges
  <2>3. \E low, high \in 0 .. IoSize - 1 : Space!FreeIo(before, after, low .. high)
    BY <2>2 DEF Space!FreeMemory, Space!FreeIo, Space!Changes, Space!Owned
  <2>4. Space!IoStep(before, after)
    BY <2>3 DEF Space!IoStep
  <2> QED
    BY <2>1, <2>2, <2>4
<1>3. ASSUME NEW range \in Ranges(IoSize), CoreRemoveIoSpace(range[1], range[2])
      PROVE  Goal
  <2>1. /\ Convertible(m, range[1], range[2], Present(m))
        /\ w = Converted(m, range[1], range[2], [kind |-> NonExistent])
        /\ UNCHANGED mGcdMemorySpaceMap
    BY <1>3 DEF CoreRemoveIoSpace, IoCall
  <2>2. /\ Kept(w, IoSize)
        /\ \E low, high \in 0 .. IoSize - 1 : Space!RemoveIo(before, after, low .. high)
    BY <2>1, RemoveIoChanges
  <2>3. Space!IoStep(before, after)
    BY <2>2 DEF Space!IoStep
  <2> QED
    BY <2>1, <2>2, <2>3
<1>4. ASSUME NEW request \in Requests(IoSize, IoKinds \cup {NonExistent}), NEW owner \in Owners,
             CoreAllocateIoSpace(request, owner)
      PROVE  Goal
  <2>1. /\ FindSpace(m, request) # NotFound
        /\ w = Own(m, FindSpace(m, request), request.length, owner)
        /\ UNCHANGED mGcdMemorySpaceMap
    BY <1>4 DEF CoreAllocateIoSpace, IoCall
  <2>2. /\ Kept(w, IoSize) /\ request.kind \in IoKinds \cup {NonExistent}
        /\ \E low, high \in 0 .. IoSize - 1 :
              Space!AllocateMemory(before, after, low .. high, request.kind, owner)
    BY <2>1, AllocateChanges
  <2>3. \E low, high \in 0 .. IoSize - 1 :
           Space!AllocateIo(before, after, low .. high, request.kind, owner)
    BY <2>2 DEF Space!AllocateMemory, Space!AllocateIo, Space!Changes
  <2>4. Space!IoStep(before, after)
    BY <2>2, <2>3 DEF Space!IoStep, Space!NonExistent, NonExistent
  <2> QED
    BY <2>1, <2>2, <2>4
<1> HIDE DEF Goal
<1>5. Goal
  BY <1>1, <1>2, <1>3, <1>4 DEF IoNext
<1> QED
  BY <1>5 DEF Goal

(* What every step keeps.                                                  *)
GcdInv ==
    /\ Kept(mGcdMemorySpaceMap, MemorySize) /\ Kept(mGcdIoSpaceMap, IoSize)
    /\ NoCpuBits(mGcdMemorySpaceMap, MemorySize)

LEMMA GcdInitInv ==
    ASSUME GcdInit
    PROVE  GcdInv /\ Space!Init
<1>1. mGcdMemorySpaceMap = <<Template(MemorySize)>> /\ mGcdIoSpaceMap = <<Template(IoSize)>>
  BY DEF GcdInit
<1>2. /\ Kept(mGcdMemorySpaceMap, MemorySize)
      /\ Cells(mGcdMemorySpaceMap, MemorySize) = [a \in 0 .. MemorySize - 1 |-> Space!Unused]
  BY <1>1, Spaces, TemplateKept DEF Space!Unused, Space!NonExistent, NonExistent
<1>3. /\ Kept(mGcdIoSpaceMap, IoSize)
      /\ Cells(mGcdIoSpaceMap, IoSize) = [a \in 0 .. IoSize - 1 |-> Space!Unused]
  BY <1>1, Spaces, TemplateKept DEF Space!Unused, Space!NonExistent, NonExistent
<1>4. NoCpuBits(mGcdMemorySpaceMap, MemorySize)
  <2>1. Space!Unused.attributes = {}
    BY DEF Space!Unused
  <2> QED
    BY <1>2, <2>1 DEF NoCpuBits
<1> QED
  BY <1>2, <1>3, <1>4 DEF GcdInv, Space!Init

LEMMA GcdStep ==
    ASSUME GcdInv, [GcdNext]_gcdVars
    PROVE  GcdInv' /\ [Space!Next]_<<Cells(mGcdMemorySpaceMap, MemorySize), Cells(mGcdIoSpaceMap, IoSize)>>
<1>1. CASE MemoryNext
  <2>1. /\ Kept(mGcdMemorySpaceMap', MemorySize) /\ NoCpuBits(mGcdMemorySpaceMap', MemorySize)
        /\ Space!MemoryStep(Cells(mGcdMemorySpaceMap, MemorySize), Cells(mGcdMemorySpaceMap', MemorySize))
        /\ UNCHANGED mGcdIoSpaceMap
    BY <1>1, MemorySteps DEF GcdInv
  <2>2. GcdInv'
    BY <2>1 DEF GcdInv
  <2>3. Space!Next
    BY <2>1 DEF Space!Next
  <2> QED
    BY <2>2, <2>3
<1>2. CASE IoNext
  <2>1. /\ Kept(mGcdIoSpaceMap', IoSize)
        /\ Space!IoStep(Cells(mGcdIoSpaceMap, IoSize), Cells(mGcdIoSpaceMap', IoSize))
        /\ UNCHANGED mGcdMemorySpaceMap
    BY <1>2, IoSteps DEF GcdInv
  <2>2. GcdInv'
    BY <2>1 DEF GcdInv
  <2>3. Space!Next
    BY <2>1 DEF Space!Next
  <2> QED
    BY <2>2, <2>3
<1>3. CASE UNCHANGED gcdVars
  BY <1>3 DEF GcdInv, gcdVars
<1> QED
  BY <1>1, <1>2, <1>3 DEF GcdNext

(* The maps stay tiled and merged, and nothing in the memory map has       *)
(* attributes of the CPU, after any services (CoreConvertSpace).           *)
THEOREM GcdKeeps == GcdSpec => []GcdInv
<1>1. GcdInit => GcdInv
  BY GcdInitInv
<1>2. GcdInv /\ [GcdNext]_gcdVars => GcdInv'
  BY GcdStep
<1> QED
  BY <1>1, <1>2, PTL DEF GcdSpec

(* The maps tile their spaces, are merged, and a search finds in them what *)
(* there is (CoreConvertSpace, CoreAllocateSpace).                         *)
THEOREM GcdHolds == GcdSpec => []MapsHold
<1>1. GcdInv => MapsHold
  <2> SUFFICES ASSUME GcdInv PROVE MapsHold
    OBVIOUS
  <2>1. MapsTile
    BY Spaces, KeptTiles DEF GcdInv, MapsTile
  <2>2. MapsMerged
    BY DEF GcdInv, Kept, MapsMerged
  <2>3. SearchFits
    BY KeptFits DEF GcdInv
  <2> QED
    BY <2>1, <2>2, <2>3 DEF MapsHold
<1> QED
  BY <1>1, GcdKeeps, PTL

(* The lists of entries implement a description of every address: a        *)
(* service changes the cells of its range, and no others.                  *)
THEOREM GcdImplements == GcdSpec => ImplementsAddressSpace
<1>1. GcdInit => Space!Init
  BY GcdInitInv
<1>2. GcdInv /\ [GcdNext]_gcdVars
         => [Space!Next]_<<Cells(mGcdMemorySpaceMap, MemorySize), Cells(mGcdIoSpaceMap, IoSize)>>
  BY GcdStep
<1> QED
  BY <1>1, <1>2, GcdKeeps, PTL DEF GcdSpec, ImplementsAddressSpace, Space!Spec

-----------------------------------------------------------------------------
(***************************************************************************)
(* The variable services.  A name is in the list once, so that its value   *)
(* is that of its variable; a signature database holds signature lists,    *)
(* and other variables hold bytes.                                         *)
(***************************************************************************)
Records == [key : Keys, attributes : AttributeSets, stamp : Times \cup {NULL},
            contents : SignatureLists \cup Seq(Bytes)]

Stores(key) == IF key \in Databases THEN SignatureLists ELSE Seq(Bytes)

Named(list) ==
    /\ list \in Seq(Records)
    /\ \A i, j \in 1 .. Len(list) : list[i].key = list[j].key => i = j
    /\ \A i \in 1 .. Len(list) : list[i].contents \in Stores(list[i].key)

StoreInv == Named(mVarListEntry) /\ running \in BOOLEAN

(* What the contents of a variable stand for, and the value of a name.     *)
Meant(key, contents) == IF key \in Databases THEN SignaturesIn(contents) ELSE contents

Meaning(list, key) ==
    LET found == {i \in 1 .. Len(list) : list[i].key = key}
        variable == IF found = {} THEN Absent ELSE list[CHOOSE i \in found : TRUE]
    IN  IF variable = Absent THEN Absent
        ELSE [attributes |-> variable.attributes, stamp |-> variable.stamp,
              contents |-> Meant(key, variable.contents)]

LEMMA RecordIs ==
    ASSUME NEW v \in Records
    PROVE  /\ v.key \in Keys /\ v.attributes \in AttributeSets /\ v.stamp \in Times \cup {NULL}
           /\ v # Absent
BY VariableAssumption DEF Records

LEMMA NewRecord ==
    ASSUME NEW key \in Keys, NEW attributes \in AttributeSets, NEW stamp \in Times \cup {NULL},
           NEW contents \in Stores(key)
    PROVE  [key |-> key, attributes |-> attributes, stamp |-> stamp, contents |-> contents] \in Records
BY DEF Records, Stores

LEMMA Listed ==
    ASSUME NEW list, Named(list), NEW i \in 1 .. Len(list)
    PROVE  /\ list[i] \in Records /\ list[i] # Absent
           /\ list[i].key \in Keys /\ list[i].contents \in Stores(list[i].key)
           /\ {j \in 1 .. Len(list) : list[j].key = list[i].key} = {i}
<1>1. list \in Seq(Records) /\ list[i] \in Records
  BY ElementOfSeq DEF Named
<1>2. {j \in 1 .. Len(list) : list[j].key = list[i].key} = {i}
  BY DEF Named
<1> QED
  BY <1>1, <1>2, RecordIs DEF Named

LEMMA MeaningOf ==
    ASSUME NEW list, Named(list), NEW i \in 1 .. Len(list)
    PROVE  Meaning(list, list[i].key) =
              [attributes |-> list[i].attributes, stamp |-> list[i].stamp,
               contents |-> Meant(list[i].key, list[i].contents)]
<1>1. {j \in 1 .. Len(list) : list[j].key = list[i].key} = {i} /\ list[i] # Absent
  BY Listed
<1>2. (CHOOSE j \in {i} : TRUE) = i /\ {i} # {}
  OBVIOUS
<1> QED
  BY <1>1, <1>2 DEF Meaning

LEMMA MeaningNone ==
    ASSUME NEW list, NEW key, \A i \in 1 .. Len(list) : list[i].key # key
    PROVE  Meaning(list, key) = Absent
<1>1. {i \in 1 .. Len(list) : list[i].key = key} = {}
  OBVIOUS
<1> QED
  BY <1>1 DEF Meaning

(* Lists that hold the same variable of a name give it the same value.     *)
LEMMA MeaningSame ==
    ASSUME NEW list, Named(list), NEW other, Named(other), NEW key,
           \A v : v.key = key => (v \in Range(list) <=> v \in Range(other))
    PROVE  Meaning(list, key) = Meaning(other, key)
<1>1. list \in Seq(Records) /\ other \in Seq(Records)
  BY DEF Named
<1>2. /\ \A v : v \in Range(list) <=> \E i \in 1 .. Len(list) : list[i] = v
      /\ \A v : v \in Range(other) <=> \E i \in 1 .. Len(other) : other[i] = v
  BY <1>1, Elements
<1>3. CASE \A i \in 1 .. Len(list) : list[i].key # key
  <2>1. \A i \in 1 .. Len(other) : other[i].key # key
    <3> SUFFICES ASSUME NEW i \in 1 .. Len(other), other[i].key = key PROVE FALSE
      OBVIOUS
    <3>1. other[i] \in Range(list)
      BY <1>2
    <3> QED
      BY <1>2, <1>3, <3>1
  <2> QED
    BY <1>3, <2>1, MeaningNone
<1>4. CASE \E i \in 1 .. Len(list) : list[i].key = key
  <2>1. PICK i \in 1 .. Len(list) : list[i].key = key
    BY <1>4
  <2>2. list[i] \in Range(other)
    BY <1>2, <2>1
  <2>3. PICK j \in 1 .. Len(other) : other[j] = list[i]
    BY <1>2, <2>2
  <2>4. /\ Meaning(list, list[i].key) = [attributes |-> list[i].attributes, stamp |-> list[i].stamp,
                                         contents |-> Meant(list[i].key, list[i].contents)]
        /\ Meaning(other, other[j].key) = [attributes |-> other[j].attributes, stamp |-> other[j].stamp,
                                           contents |-> Meant(other[j].key, other[j].contents)]
    BY MeaningOf
  <2> QED
    BY <2>1, <2>3, <2>4
<1> QED
  BY <1>3, <1>4

LEMMA ValueIs ==
    /\ \A key : Value(key) = Meaning(mVarListEntry, key)
    /\ \A key : Value(key)' = Meaning(mVarListEntry', key)
BY DEF Value, Meaning, Meant, FindVariableInfoPtr, FindVariableList

-----------------------------------------------------------------------------
(* Signature databases. *)

SignatureList == [type : SignatureTypes, signatures : Seq(Signatures)]

LEMMA SignaturesAre ==
    ASSUME NEW lists \in Seq(SignatureList)
    PROVE  /\ \A x : x \in SignaturesIn(lists) <=>
                 \E i \in 1 .. Len(lists) : \E g \in Range(lists[i].signatures) : x = <<lists[i].type, g>>
           /\ \A i \in 1 .. Len(lists) : lists[i].type \in SignatureTypes /\ lists[i].signatures \in Seq(Signatures)
<1>1. \A i \in 1 .. Len(lists) : lists[i].type \in SignatureTypes /\ lists[i].signatures \in Seq(Signatures)
  <2>1. \A i \in 1 .. Len(lists) : lists[i] \in SignatureList
    BY ElementOfSeq
  <2> QED
    BY <2>1 DEF SignatureList
<1>2. \A i \in 1 .. Len(lists) : \A g : g \in Range(lists[i].signatures) <=>
          \E j \in 1 .. Len(lists[i].signatures) : lists[i].signatures[j] = g
  BY <1>1, Elements
<1>3. ASSUME NEW x
      PROVE  x \in SignaturesIn(lists) <=>
                 \E i \in 1 .. Len(lists) : \E g \in Range(lists[i].signatures) : x = <<lists[i].type, g>>
  <2>1. x \in SignaturesIn(lists) <=>
            \E i \in 1 .. Len(lists) : \E j \in 1 .. Len(lists[i].signatures) :
               x = <<lists[i].type, lists[i].signatures[j]>>
    BY DEF SignaturesIn
  <2>2. ASSUME NEW i \in 1 .. Len(lists)
        PROVE  (\E j \in 1 .. Len(lists[i].signatures) : x = <<lists[i].type, lists[i].signatures[j]>>) <=>
               (\E g \in Range(lists[i].signatures) : x = <<lists[i].type, g>>)
    <3>1. PICK s, t : s = lists[i].signatures /\ t = lists[i].type
      OBVIOUS
    <3>2. \A g : g \in Range(s) <=> \E j \in 1 .. Len(s) : s[j] = g
      BY <1>2, <3>1
    <3>3. (\E j \in 1 .. Len(s) : x = <<t, s[j]>>) <=> (\E g \in Range(s) : x = <<t, g>>)
      BY <3>2
    <3> QED
      BY <3>1, <3>3
  <2> QED
    BY <2>1, <2>2
<1> QED
  BY <1>1, <1>3

LEMMA SignaturesMeant ==
    ASSUME NEW lists \in Seq(SignatureList)
    PROVE  SignaturesIn(lists) \in SUBSET (SignatureTypes \X Signatures)
<1>1. ASSUME NEW x \in SignaturesIn(lists) PROVE x \in SignatureTypes \X Signatures
  <2>1. PICK i \in 1 .. Len(lists) : \E g : g \in Range(lists[i].signatures) /\ x = <<lists[i].type, g>>
    BY SignaturesAre
  <2>2. PICK g : g \in Range(lists[i].signatures) /\ x = <<lists[i].type, g>>
    BY <2>1
  <2>3. lists[i].type \in SignatureTypes /\ lists[i].signatures \in Seq(Signatures)
    BY SignaturesAre
  <2>4. g \in Signatures
    BY <2>2, <2>3, Elements
  <2> QED
    BY <2>2, <2>3, <2>4
<1> QED
  BY <1>1

LEMMA SignaturesOf ==
    ASSUME NEW lists \in Seq(SignatureList), NEW x
    PROVE  x \in SignaturesIn(lists) <=>
              \E l \in Range(lists) : \E g \in Range(l.signatures) : x = <<l.type, g>>
<1>1. \A l : l \in Range(lists) <=> \E i \in 1 .. Len(lists) : lists[i] = l
  BY Elements
<1>2. x \in SignaturesIn(lists) <=>
         \E i \in 1 .. Len(lists) : \E g \in Range(lists[i].signatures) : x = <<lists[i].type, g>>
  BY SignaturesAre
<1>3. ASSUME NEW i \in 1 .. Len(lists), \E g \in Range(lists[i].signatures) : x = <<lists[i].type, g>>
      PROVE  \E l \in Range(lists) : \E g \in Range(l.signatures) : x = <<l.type, g>>
  <2>1. PICK l : l = lists[i]
    OBVIOUS
  <2> QED
    BY <1>1, <1>3, <2>1
<1>4. ASSUME NEW l \in Range(lists), \E g \in Range(l.signatures) : x = <<l.type, g>>
      PROVE  \E i \in 1 .. Len(lists) : \E g \in Range(lists[i].signatures) : x = <<lists[i].type, g>>
  <2>1. PICK i \in 1 .. Len(lists) : lists[i] = l
    BY <1>1
  <2> QED
    BY <1>4, <2>1
<1> QED
  BY <1>2, <1>3, <1>4

LEMMA HasSignatureIs ==
    ASSUME NEW lists \in Seq(SignatureList), NEW t, NEW g
    PROVE  HasSignature(lists, t, g) <=> <<t, g>> \in SignaturesIn(lists)
<1>1. HasSignature(lists, t, g) <=>
         \E i \in 1 .. Len(lists) : lists[i].type = t /\ \E j \in 1 .. Len(lists[i].signatures) : lists[i].signatures[j] = g
  BY DEF HasSignature
<1>2. \A i \in 1 .. Len(lists) :
         g \in Range(lists[i].signatures) <=> \E j \in 1 .. Len(lists[i].signatures) : lists[i].signatures[j] = g
  BY SignaturesAre, Elements
<1>3. <<t, g>> \in SignaturesIn(lists) <=>
         \E i \in 1 .. Len(lists) : \E h \in Range(lists[i].signatures) : <<t, g>> = <<lists[i].type, h>>
  BY SignaturesAre
<1>4. ASSUME NEW i \in 1 .. Len(lists)
      PROVE  (\E h \in Range(lists[i].signatures) : <<t, g>> = <<lists[i].type, h>>) <=>
             lists[i].type = t /\ g \in Range(lists[i].signatures)
  <2>1. \A h : <<t, g>> = <<lists[i].type, h>> <=> t = lists[i].type /\ g = h
    OBVIOUS
  <2> QED
    BY <2>1
<1> QED
  BY <1>1, <1>2, <1>3, <1>4

(* The filtered append is a union.                                         *)
LEMMA FilterMeans ==
    ASSUME NEW lists \in Seq(SignatureList), NEW new \in Seq(SignatureList)
    PROVE  /\ FilterSignatureList(lists, new) \in Seq(SignatureList)
           /\ SignaturesIn(FilterSignatureList(lists, new)) = SignaturesIn(lists) \cup SignaturesIn(new)
<1> DEFINE known(i) == {signature \in Signatures : HasSignature(lists, new[i].type, signature)}
           left(i) == [type |-> new[i].type, signatures |-> Without(new[i].signatures, known(i))]
<1>1. PICK kept : kept = [i \in 1 .. Len(new) |-> left(i)]
  OBVIOUS
<1>2. PICK empty : empty = [type : SignatureTypes, signatures : {<<>>}]
  OBVIOUS
<1>3. PICK rest : rest = Without(kept, empty)
  OBVIOUS
<1>4. FilterSignatureList(lists, new) = lists \o rest
  BY <1>1, <1>2, <1>3 DEF FilterSignatureList
<1>5. ASSUME NEW i \in 1 .. Len(new)
      PROVE  /\ new[i].type \in SignatureTypes /\ new[i].signatures \in Seq(Signatures)
             /\ left(i).type = new[i].type /\ left(i).signatures \in Seq(Signatures)
             /\ Range(left(i).signatures) = Range(new[i].signatures) \ known(i)
             /\ left(i) \in SignatureList
  <2>1. new[i].type \in SignatureTypes /\ new[i].signatures \in Seq(Signatures)
    BY SignaturesAre
  <2>2. PICK s, es, t : s = new[i].signatures /\ es = known(i) /\ t = new[i].type
    OBVIOUS
  <2>3. Without(s, es) \in Seq(Signatures) /\ Range(Without(s, es)) = Range(s) \ es
    BY <2>1, <2>2, WithoutElements
  <2>4. left(i) = [type |-> t, signatures |-> Without(s, es)]
    BY <2>2
  <2> HIDE DEF left, known
  <2>5. left(i).type = t /\ left(i).signatures = Without(s, es)
    BY <2>4
  <2>6. left(i) \in SignatureList
    BY <2>1, <2>2, <2>3, <2>4 DEF SignatureList
  <2> QED
    BY <2>1, <2>2, <2>3, <2>5, <2>6
<1>6. \A i \in 1 .. Len(new) : \A g \in Signatures : g \in known(i) <=> <<new[i].type, g>> \in SignaturesIn(lists)
  BY HasSignatureIs
<1> HIDE DEF left, known
<1>7. Len(new) \in Nat
  BY LenProperties
<1>8. kept \in Seq(SignatureList) /\ Len(kept) = Len(new)
  <2>1. kept \in Seq(SignatureList)
    BY <1>1, <1>5, <1>7
  <2>2. DOMAIN kept = 1 .. Len(new)
    BY <1>1
  <2> QED
    BY ONLY <1>7, <2>1, <2>2, LenProperties
<1>9. rest \in Seq(SignatureList) /\ Range(rest) = Range(kept) \ empty
  BY <1>3, <1>8, WithoutElements
<1>10. lists \o rest \in Seq(SignatureList) /\ Range(lists \o rest) = Range(lists) \cup Range(rest)
  BY <1>9, ConcatElements
<1>11. \A l : l \in Range(kept) <=> \E i \in 1 .. Len(new) : l = left(i)
  <2>1. \A l : l \in Range(kept) <=> \E i \in 1 .. Len(kept) : kept[i] = l
    BY <1>8, Elements
  <2> QED
    BY <1>1, <1>8, <2>1
<1>12. ASSUME NEW l \in Range(kept), NEW g \in Range(l.signatures) PROVE l \in Range(rest)
  <2>1. l \notin empty
    <3> SUFFICES ASSUME l \in empty PROVE FALSE
      OBVIOUS
    <3>1. l.signatures = <<>>
      BY <1>2
    <3>2. PICK none : none = <<>>
      OBVIOUS
    <3>3. Range(none) = {}
      BY <3>2 DEF Range
    <3> QED
      BY <1>12, <3>1, <3>2, <3>3
  <2> QED
    BY <1>9, <2>1
<1>13. ASSUME NEW x
       PROVE  x \in SignaturesIn(rest) <=>
                 \E i \in 1 .. Len(new) : \E g \in Range(new[i].signatures) : x = <<new[i].type, g>> /\ g \notin known(i)
  <2>1. x \in SignaturesIn(rest) <=> \E l \in Range(rest) : \E g \in Range(l.signatures) : x = <<l.type, g>>
    BY <1>9, SignaturesOf
  <2>2. ASSUME NEW l \in Range(rest), NEW g \in Range(l.signatures), x = <<l.type, g>>
        PROVE  \E i \in 1 .. Len(new) : \E h \in Range(new[i].signatures) : x = <<new[i].type, h>> /\ h \notin known(i)
    <3>1. PICK i \in 1 .. Len(new) : l = left(i)
      BY <1>9, <1>11
    <3> QED
      BY <1>5, <2>2, <3>1
  <2>3. ASSUME NEW i \in 1 .. Len(new), NEW g \in Range(new[i].signatures), x = <<new[i].type, g>>, g \notin known(i)
        PROVE  \E l \in Range(rest) : \E h \in Range(l.signatures) : x = <<l.type, h>>
    <3>1. PICK l : l = left(i)
      OBVIOUS
    <3>2. l \in Range(kept) /\ l.type = new[i].type /\ g \in Range(l.signatures)
      BY <1>5, <1>11, <2>3, <3>1
    <3>3. l \in Range(rest)
      BY <1>12, <3>2
    <3> QED
      BY <2>3, <3>2, <3>3
  <2> QED
    BY <2>1, <2>2, <2>3
<1>14. ASSUME NEW x
       PROVE  x \in SignaturesIn(lists \o rest) <=> x \in SignaturesIn(lists) \/ x \in SignaturesIn(rest)
  <2>1. x \in SignaturesIn(lists \o rest) <=>
           \E l \in Range(lists \o rest) : \E g \in Range(l.signatures) : x = <<l.type, g>>
    <3>1. PICK all : all = lists \o rest
      OBVIOUS
    <3>2. all \in Seq(SignatureList)
      BY <1>10, <3>1
    <3>3. x \in SignaturesIn(all) <=> \E l \in Range(all) : \E g \in Range(l.signatures) : x = <<l.type, g>>
      BY ONLY <3>2, SignaturesOf
    <3> QED
      BY <3>1, <3>3
  <2>2. x \in SignaturesIn(lists) <=> \E l \in Range(lists) : \E g \in Range(l.signatures) : x = <<l.type, g>>
    BY SignaturesOf
  <2>3. x \in SignaturesIn(rest) <=> \E l \in Range(rest) : \E g \in Range(l.signatures) : x = <<l.type, g>>
    BY <1>9, SignaturesOf
  <2> QED
    BY <1>10, <2>1, <2>2, <2>3
<1>15. ASSUME NEW x
       PROVE  x \in SignaturesIn(new) <=>
                 \E i \in 1 .. Len(new) : \E g \in Range(new[i].signatures) : x = <<new[i].type, g>>
  BY SignaturesAre
<1>16. ASSUME NEW x
       PROVE  x \in SignaturesIn(lists \o rest) <=> x \in SignaturesIn(lists) \/ x \in SignaturesIn(new)
  <2>1. ASSUME x \in SignaturesIn(new), x \notin SignaturesIn(lists) PROVE x \in SignaturesIn(rest)
    <3>1. PICK i \in 1 .. Len(new) : \E g \in Range(new[i].signatures) : x = <<new[i].type, g>>
      BY <1>15, <2>1
    <3>2. PICK g \in Range(new[i].signatures) : x = <<new[i].type, g>>
      BY <3>1
    <3>3. g \in Signatures
      BY <1>5, Elements
    <3>4. g \notin known(i)
      BY <1>6, <2>1, <3>2, <3>3
    <3> QED
      BY <1>13, <3>2, <3>4
  <2>2. x \in SignaturesIn(rest) => x \in SignaturesIn(new)
    BY <1>13, <1>15
  <2> QED
    BY <1>14, <2>1, <2>2
<1> QED
  BY <1>4, <1>10, <1>16

-----------------------------------------------------------------------------
(* Calls of SetVariable. *)

(* A step gives one name a value that the abstract services allow.         *)
Allowed(key, before, after) ==
    IF after = Absent THEN before # Absent
    ELSE \E attributes \in AttributeSets, stamp \in Times, contents \in Abstract!Contents(key) :
             \/ Abstract!Put(before, after, attributes, stamp, contents)
             \/ Abstract!Extend(key, before, after, attributes, stamp, contents)

Gives(key, list, others) ==
    /\ Named(others)
    /\ \A k \in Keys : k # key => Meaning(others, k) = Meaning(list, k)
    /\ Allowed(key, Meaning(list, key), Meaning(others, key))

(* What callers pass.                                                      *)
LEMMA PassedIs ==
    ASSUME NEW key \in Keys, NEW attributes, NEW data \in Data(key, attributes)
    PROVE  /\ data.payload \in Stores(key)
           /\ Meant(key, data.payload) \in Abstract!Contents(key)
           /\ TIME_BASED \in attributes => data.stamp \in Times
<1>1. data.payload \in Payloads(key) /\ (TIME_BASED \in attributes => data.stamp \in Times)
  BY DEF Data
<1>2. CASE key \in Databases
  <2>1. data.payload \in SignatureLists
    BY <1>1, <1>2, VariableAssumption
  <2>2. data.payload \in Seq(SignatureList)
    BY <2>1 DEF SignatureLists, SignatureList
  <2>3. SignaturesIn(data.payload) \in SUBSET (SignatureTypes \X Signatures)
    BY <2>2, SignaturesMeant
  <2> QED
    BY <1>1, <1>2, <2>1, <2>3 DEF Stores, Meant, Abstract!Contents
<1>3. CASE key \notin Databases
  <2>1. data.payload \in Blobs
    BY <1>1, <1>3, VariableAssumption
  <2>2. PICK n \in 0 .. MaxBytes : data.payload \in [1 .. n -> Bytes]
    BY <2>1 DEF Blobs
  <2>3. data.payload \in Seq(Bytes)
    BY <2>2
  <2> QED
    BY <1>1, <1>3, <2>1, <2>3 DEF Stores, Meant, Abstract!Contents, Blobs
<1> QED
  BY <1>2, <1>3

(* A value is not the mark for none.                                       *)
LEMMA ValuePresent ==
    ASSUME NEW key \in Keys, NEW attributes \in AttributeSets, NEW stamp \in Times \cup {NULL},
           NEW contents \in Stores(key)
    PROVE  [attributes |-> attributes, stamp |-> stamp, contents |-> Meant(key, contents)] # Absent
<1>1. Meant(key, contents) \in (SUBSET (SignatureTypes \X Signatures)) \cup Seq(Bytes)
  <2>1. CASE key \in Databases
    <3>1. contents \in Seq(SignatureList)
      BY <2>1 DEF Stores, SignatureLists, SignatureList
    <3> QED
      BY <2>1, <3>1, SignaturesMeant DEF Meant
  <2>2. CASE key \notin Databases
    BY <2>2 DEF Stores, Meant
  <2> QED
    BY <2>1, <2>2
<1>2. PICK meant, all : meant = Meant(key, contents) /\ all = (SUBSET (SignatureTypes \X Signatures)) \cup Seq(Bytes)
  OBVIOUS
<1>3. [attributes |-> attributes, stamp |-> stamp, contents |-> meant] \in
         [attributes : AttributeSets, stamp : Times \cup {NULL}, contents : all]
  BY <1>1, <1>2
<1> QED
  BY <1>2, <1>3, VariableAssumption

(* One variable of a list is replaced by another of the same name.         *)
LEMMA Replacing ==
    ASSUME NEW list, Named(list), NEW i \in 1 .. Len(list), NEW key, key = list[i].key,
           NEW new \in Records, new.key = key, new.contents \in Stores(key),
           NEW others \in Seq(Records), Len(others) = Len(list), others[i] = new,
           \A j \in 1 .. Len(list) : j # i => others[j] = list[j]
    PROVE  /\ Named(others)
           /\ \A k : k # key => Meaning(others, k) = Meaning(list, k)
           /\ Meaning(others, key) = [attributes |-> new.attributes, stamp |-> new.stamp,
                                      contents |-> Meant(key, new.contents)]
<1>1. list \in Seq(Records)
  BY DEF Named
<1>2. /\ others \in Seq(Records) /\ Len(others) = Len(list) /\ others[i] = new
      /\ \A j \in 1 .. Len(list) : j # i => others[j] = list[j]
  OBVIOUS
<1>3. \A j \in 1 .. Len(list) : others[j].key = list[j].key
  BY <1>2
<1>4. Named(others)
  <2>1. \A j, k \in 1 .. Len(others) : others[j].key = others[k].key => j = k
    BY <1>2, <1>3 DEF Named
  <2>2. ASSUME NEW j \in 1 .. Len(others) PROVE others[j].contents \in Stores(others[j].key)
    BY <1>2, <2>2 DEF Named
  <2> QED
    BY <1>2, <2>1, <2>2 DEF Named
<1>5. ASSUME NEW k, k # key PROVE Meaning(others, k) = Meaning(list, k)
  <2>1. /\ \A v : v \in Range(list) <=> \E j \in 1 .. Len(list) : list[j] = v
        /\ \A v : v \in Range(others) <=> \E j \in 1 .. Len(list) : others[j] = v
    <3>1. \A v : v \in Range(list) <=> \E j \in 1 .. Len(list) : list[j] = v
      BY ONLY <1>1, Elements
    <3>2. others \in Seq(Records) /\ Len(others) = Len(list)
      BY <1>2
    <3>3. \A v : v \in Range(others) <=> \E j \in 1 .. Len(others) : others[j] = v
      BY ONLY <3>2, Elements
    <3> QED
      BY <3>1, <3>2, <3>3
  <2>2. ASSUME NEW v, v.key = k PROVE v \in Range(list) <=> v \in Range(others)
    <3>1. list[i] # v /\ others[i] # v
      BY <1>2, <1>5, <2>2
    <3>2. \A j \in 1 .. Len(list) : list[j] = v <=> others[j] = v
      BY <1>2, <3>1
    <3> QED
      BY <2>1, <3>2
  <2> QED
    BY <1>4, <2>2, MeaningSame
<1>6. Meaning(others, others[i].key) = [attributes |-> others[i].attributes, stamp |-> others[i].stamp,
                                        contents |-> Meant(others[i].key, others[i].contents)]
  <2>1. i \in 1 .. Len(others)
    BY <1>2
  <2> QED
    BY <1>4, <2>1, MeaningOf
<1> QED
  BY <1>2, <1>4, <1>5, <1>6

LEMMA Updated ==
    ASSUME NEW old \in Records, NEW attributes, NEW stamp, NEW contents
    PROVE  [old EXCEPT !.attributes = attributes, !.stamp = stamp, !.contents = contents] =
              [key |-> old.key, attributes |-> attributes, stamp |-> stamp, contents |-> contents]
<1>1. old = [key |-> old.key, attributes |-> old.attributes, stamp |-> old.stamp, contents |-> old.contents]
  BY DEF Records
<1>2. PICK k, a, s, c : old = [key |-> k, attributes |-> a, stamp |-> s, contents |-> c]
  BY ONLY <1>1
<1>3. PICK first : first = [old EXCEPT !.attributes = attributes]
  OBVIOUS
<1>4. first = [key |-> k, attributes |-> attributes, stamp |-> s, contents |-> c]
  BY ONLY <1>2, <1>3
<1>5. PICK second : second = [first EXCEPT !.stamp = stamp]
  OBVIOUS
<1>6. second = [key |-> k, attributes |-> attributes, stamp |-> stamp, contents |-> c]
  BY ONLY <1>4, <1>5
<1>7. [second EXCEPT !.contents = contents] =
         [key |-> k, attributes |-> attributes, stamp |-> stamp, contents |-> contents]
  BY ONLY <1>6
<1>8. old.key = k
  BY ONLY <1>2
<1> QED
  BY ONLY <1>3, <1>5, <1>7, <1>8

(* UpdateVariableList: what an update puts in, or appends.                 *)
LEMMA UpdateStep ==
    ASSUME Named(mVarListEntry), NEW key \in Keys, NEW attributes \in AttributeSets,
           NEW data \in Data(key, attributes), NEW i \in FindVariableList(key),
           UpdateVariableList(i, attributes, data.stamp, data.payload, APPEND_WRITE \in attributes)
    PROVE  Gives(key, mVarListEntry, mVarListEntry')
<1>1. PICK list : list = mVarListEntry
  OBVIOUS
<1>2. i \in 1 .. Len(list) /\ list[i].key = key /\ Named(list)
  BY <1>1 DEF FindVariableList
<1>3. PICK old : old = list[i]
  OBVIOUS
<1>4. /\ old \in Records /\ old.key = key /\ old.contents \in Stores(key) /\ old # Absent
      /\ old.stamp \in Times \cup {NULL} /\ old.attributes \in AttributeSets
  BY <1>2, <1>3, Listed, RecordIs
<1>5. /\ data.payload \in Stores(key)
      /\ Meant(key, data.payload) \in Abstract!Contents(key)
      /\ TIME_BASED \in attributes => data.stamp \in Times
  BY PassedIs
<1>6. PICK stamp \in Restamped(old.stamp, attributes, data.stamp, APPEND_WRITE \in attributes) :
         mVarListEntry' = [mVarListEntry EXCEPT
            ![i].attributes = attributes,
            ![i].stamp = stamp,
            ![i].contents =
                IF ~(APPEND_WRITE \in attributes) THEN data.payload
                ELSE IF mVarListEntry[i].key \in Databases THEN FilterSignatureList(@, data.payload)
                ELSE @ \o data.payload]
  BY <1>1, <1>3 DEF UpdateVariableList
<1>7. PICK contents : contents = IF APPEND_WRITE \notin attributes THEN data.payload
                                 ELSE IF key \in Databases THEN FilterSignatureList(old.contents, data.payload)
                                 ELSE old.contents \o data.payload
  OBVIOUS
<1>8. PICK new : new = [key |-> key, attributes |-> attributes, stamp |-> stamp, contents |-> contents]
  OBVIOUS
<1>9. mVarListEntry' = [list EXCEPT ![i] = new]
  <2>1. list \in Seq(Records) /\ i \in DOMAIN list
    <3>1. list \in Seq(Records)
      BY <1>2 DEF Named
    <3> QED
      BY <1>2, <3>1, LenProperties
  <2>2. new = [old EXCEPT !.attributes = attributes, !.stamp = stamp, !.contents = contents]
    BY <1>4, <1>8, Updated
  <2> QED
    BY <1>1, <1>2, <1>3, <1>6, <1>7, <2>1, <2>2
<1>10. stamp \in Times \cup {NULL}
  BY <1>4, <1>5, <1>6 DEF Restamped
<1>11. contents \in Stores(key) /\
       Meant(key, contents) = IF APPEND_WRITE \notin attributes THEN Meant(key, data.payload)
                              ELSE Abstract!Combined(key, Meant(key, old.contents), Meant(key, data.payload))
  <2>1. CASE APPEND_WRITE \notin attributes
    BY <1>5, <1>7, <2>1
  <2>2. CASE APPEND_WRITE \in attributes /\ key \in Databases
    <3>1. old.contents \in Seq(SignatureList) /\ data.payload \in Seq(SignatureList)
      BY <1>4, <1>5, <2>2 DEF Stores, SignatureLists, SignatureList
    <3>2. contents = FilterSignatureList(old.contents, data.payload)
      BY <1>7, <2>2
    <3>3. contents \in Seq(SignatureList) /\ SignaturesIn(contents) = SignaturesIn(old.contents) \cup SignaturesIn(data.payload)
      BY <3>1, <3>2, FilterMeans
    <3> QED
      BY <2>2, <3>3 DEF Stores, SignatureLists, SignatureList, Meant, Abstract!Combined
  <2>3. CASE APPEND_WRITE \in attributes /\ key \notin Databases
    <3>1. old.contents \in Seq(Bytes) /\ data.payload \in Seq(Bytes) /\ contents = old.contents \o data.payload
      BY <1>4, <1>5, <1>7, <2>3 DEF Stores
    <3>2. contents \in Seq(Bytes)
      BY <3>1, ConcatProperties
    <3> QED
      BY <2>3, <3>1, <3>2 DEF Stores, Meant, Abstract!Combined
  <2> QED
    BY <2>1, <2>2, <2>3
<1>12. new \in Records /\ new.key = key /\ new.contents = contents /\ new.attributes = attributes /\ new.stamp = stamp
  BY <1>8, <1>10, <1>11, NewRecord
<1>13. PICK others : others = mVarListEntry'
  OBVIOUS
<1>14. /\ Named(others)
       /\ \A k : k # key => Meaning(others, k) = Meaning(list, k)
       /\ Meaning(others, key) = [attributes |-> attributes, stamp |-> stamp, contents |-> Meant(key, contents)]
  <2>1. others = [list EXCEPT ![i] = new]
    BY <1>9, <1>13
  <2>2. /\ Named(others)
        /\ \A k : k # key => Meaning(others, k) = Meaning(list, k)
        /\ Meaning(others, key) = [attributes |-> new.attributes, stamp |-> new.stamp,
                                   contents |-> Meant(key, new.contents)]
    <3>1. new.contents \in Stores(key) /\ key = list[i].key
      BY <1>2, <1>11, <1>12
    <3>2. Named(list) /\ i \in 1 .. Len(list) /\ new \in Records /\ new.key = key
      BY <1>2, <1>12
    <3>3. /\ others \in Seq(Records) /\ Len(others) = Len(list) /\ others[i] = new
          /\ \A j \in 1 .. Len(list) : j # i => others[j] = list[j]
      BY <2>1, <3>2, ExceptSeq DEF Named
    <3> QED
      BY ONLY <3>1, <3>2, <3>3, Replacing
  <2> QED
    BY <1>12, <2>2
<1>15. PICK before, after : /\ before = Meaning(list, key) /\ after = Meaning(others, key)
  OBVIOUS
<1>16. /\ before = [attributes |-> old.attributes, stamp |-> old.stamp, contents |-> Meant(key, old.contents)]
       /\ before # Absent
  <2>1. Meaning(list, list[i].key) = [attributes |-> list[i].attributes, stamp |-> list[i].stamp,
                                      contents |-> Meant(list[i].key, list[i].contents)]
    BY <1>2, MeaningOf
  <2>2. before = [attributes |-> old.attributes, stamp |-> old.stamp, contents |-> Meant(key, old.contents)]
    BY <1>2, <1>3, <1>15, <2>1
  <2> QED
    BY <1>4, <2>2, ValuePresent
<1>17. after = [attributes |-> attributes, stamp |-> stamp, contents |-> Meant(key, contents)] /\ after # Absent
  BY <1>10, <1>11, <1>14, <1>15, ValuePresent
<1>18. Allowed(key, before, after)
  <2>1. PICK time \in Times : TIME_BASED \in attributes => time = data.stamp
    BY <1>5, VariableAssumption
  <2>2. Abstract!Old(before) = old.stamp
    BY <1>16 DEF Abstract!Old
  <2>3. CASE APPEND_WRITE \notin attributes
    <3>1. stamp = IF TIME_BASED \in attributes THEN time ELSE Abstract!Old(before)
      BY <1>6, <2>1, <2>2, <2>3 DEF Restamped
    <3>2. Abstract!Put(before, after, attributes, time, Meant(key, data.payload))
      BY <1>11, <1>17, <2>3, <3>1 DEF Abstract!Put
    <3> QED
      BY <1>5, <1>17, <3>2 DEF Allowed
  <2>4. CASE APPEND_WRITE \in attributes
    <3>1. after.attributes = attributes /\ after.stamp = stamp /\ after.contents = Meant(key, contents)
          /\ before.contents = Meant(key, old.contents)
      BY <1>16, <1>17
    <3>2. IF TIME_BASED \in attributes
          THEN /\ stamp \in {time, old.stamp}
               /\ old.stamp # NULL => stamp >= time /\ stamp >= old.stamp
          ELSE stamp = old.stamp
      <4>1. time \in Nat /\ (old.stamp # NULL => old.stamp \in Nat)
        BY <1>4, VariableAssumption
      <4>2. CASE TIME_BASED \notin attributes
        BY <1>6, <4>2 DEF Restamped
      <4>3. CASE TIME_BASED \in attributes /\ old.stamp = NULL
        BY <1>6, <2>1, <2>4, <4>3 DEF Restamped
      <4>4. CASE TIME_BASED \in attributes /\ old.stamp # NULL
        <5>1. stamp = IF old.stamp <= time THEN time ELSE old.stamp
          BY <1>6, <2>1, <2>4, <4>4 DEF Restamped, CompareTimeStamp
        <5> QED
          BY <4>1, <4>4, <5>1
      <4> QED
        BY <4>2, <4>3, <4>4
    <3>3. Abstract!Extend(key, before, after, attributes, time, Meant(key, data.payload))
      BY <1>11, <1>16, <2>2, <2>4, <3>1, <3>2 DEF Abstract!Extend
    <3> QED
      BY <1>5, <1>17, <3>3 DEF Allowed
  <2> QED
    BY <2>3, <2>4
<1> QED
  BY <1>1, <1>13, <1>14, <1>15, <1>18 DEF Gives

(* CreateVariableList: a new variable, at the end.                         *)
LEMMA CreateStep ==
    ASSUME Named(mVarListEntry), NEW key \in Keys, NEW attributes \in AttributeSets,
           NEW data \in Data(key, attributes), FindVariableList(key) = {},
           CreateVariableList(key, attributes, data.stamp, data.payload)
    PROVE  Gives(key, mVarListEntry, mVarListEntry')
<1>1. PICK list, others : list = mVarListEntry /\ others = mVarListEntry'
  OBVIOUS
<1>2. Named(list) /\ \A i \in 1 .. Len(list) : list[i].key # key
  BY <1>1 DEF FindVariableList
<1>3. /\ data.payload \in Stores(key)
      /\ Meant(key, data.payload) \in Abstract!Contents(key)
      /\ TIME_BASED \in attributes => data.stamp \in Times
  BY PassedIs
<1>4. PICK stamp : stamp = IF TIME_BASED \in attributes THEN data.stamp ELSE NULL
  OBVIOUS
<1>5. PICK payload : payload = data.payload
  OBVIOUS
<1>6. PICK new : new = [key |-> key, attributes |-> attributes, stamp |-> stamp, contents |-> payload]
  OBVIOUS
<1>7. others = Append(list, new)
  BY <1>1, <1>4, <1>5, <1>6 DEF CreateVariableList
<1>8. new \in Records /\ new.key = key /\ new.contents = payload /\ new.attributes = attributes /\ new.stamp = stamp
  BY <1>3, <1>4, <1>5, <1>6, NewRecord
<1>9. list \in Seq(Records)
  BY <1>2 DEF Named
<1>10. /\ others \in Seq(Records) /\ Len(others) = Len(list) + 1 /\ others[Len(list) + 1] = new
       /\ \A i \in 1 .. Len(list) : others[i] = list[i]
       /\ Len(list) \in Nat
  <2>1. new \in Records
    BY <1>8
  <2> QED
    BY ONLY <1>7, <1>9, <2>1, AppendProperties, LenProperties
<1>11. \A i \in 1 .. Len(others) : i \in 1 .. Len(list) \/ i = Len(list) + 1
  BY <1>10
<1>12. Named(others)
  <2>1. \A i, j \in 1 .. Len(others) : others[i].key = others[j].key => i = j
    BY <1>2, <1>8, <1>10, <1>11 DEF Named
  <2>2. \A i \in 1 .. Len(others) : others[i].contents \in Stores(others[i].key)
    BY <1>2, <1>3, <1>5, <1>8, <1>10, <1>11 DEF Named
  <2> QED
    BY <1>10, <2>1, <2>2 DEF Named
<1>13. ASSUME NEW k, k # key PROVE Meaning(others, k) = Meaning(list, k)
  <2>1. Range(others) = Range(list) \cup {new}
    <3>1. new \in Records
      BY <1>8
    <3> QED
      BY ONLY <1>7, <1>9, <3>1, AppendElements
  <2>2. \A v : v.key = k => (v \in Range(list) <=> v \in Range(others))
    BY <1>8, <1>13, <2>1
  <2> QED
    BY <1>2, <1>12, <2>2, MeaningSame
<1>14. PICK before, after : before = Meaning(list, key) /\ after = Meaning(others, key)
  OBVIOUS
<1>15. before = Absent
  BY <1>2, <1>14, MeaningNone
<1>16. after = [attributes |-> attributes, stamp |-> stamp, contents |-> Meant(key, payload)] /\ after # Absent
  <2>1. PICK i : i = Len(list) + 1
    OBVIOUS
  <2>2. i \in 1 .. Len(others) /\ others[i] = new
    BY <1>10, <2>1
  <2>3. Meaning(others, others[i].key) = [attributes |-> others[i].attributes, stamp |-> others[i].stamp,
                                          contents |-> Meant(others[i].key, others[i].contents)]
    BY <1>12, <2>2, MeaningOf
  <2>4. after = [attributes |-> attributes, stamp |-> stamp, contents |-> Meant(key, payload)]
    BY <1>8, <1>14, <2>2, <2>3
  <2>5. stamp \in Times \cup {NULL} /\ payload \in Stores(key)
    BY <1>3, <1>4, <1>5
  <2> QED
    BY <2>4, <2>5, ValuePresent
<1>17. Allowed(key, before, after)
  <2>1. PICK time \in Times : TIME_BASED \in attributes => time = data.stamp
    BY <1>3, VariableAssumption
  <2>2. stamp = IF TIME_BASED \in attributes THEN time ELSE Abstract!Old(before)
    BY <1>4, <1>15, <2>1 DEF Abstract!Old
  <2>3. Abstract!Put(before, after, attributes, time, Meant(key, payload))
    BY <1>15, <1>16, <2>2 DEF Abstract!Put
  <2> QED
    BY <1>3, <1>5, <1>16, <2>3 DEF Allowed
<1> QED
  BY <1>1, <1>12, <1>13, <1>14, <1>17 DEF Gives

(* DeleteVar: the variable of the name, if there is one, is unlinked.      *)
LEMMA DeleteStep ==
    ASSUME Named(mVarListEntry), NEW key \in Keys, DeleteVar(key)
    PROVE  /\ Named(mVarListEntry')
           /\ \/ Gives(key, mVarListEntry, mVarListEntry')
              \/ \A k \in Keys : Meaning(mVarListEntry', k) = Meaning(mVarListEntry, k)
<1>1. PICK list, others : list = mVarListEntry /\ others = mVarListEntry'
  OBVIOUS
<1>2. PICK gone : gone = {list[i] : i \in {i \in 1 .. Len(list) : list[i].key = key}}
  OBVIOUS
<1>3. others = Without(list, gone)
  BY <1>1, <1>2 DEF DeleteVar, FindVariableList
<1>4. Named(list) /\ list \in Seq(Records)
  BY <1>1 DEF Named
<1>5. others \in Seq(Records) /\ LeavesOut(list, gone, others) /\ Range(others) = Range(list) \ gone
  BY ONLY <1>3, <1>4, WithoutProperties, WithoutElements
<1>6. Len(others) \in Nat
  BY <1>5, LenProperties
<1>7. ASSUME NEW i \in 1 .. Len(others)
      PROVE  others[i] \notin gone /\ \E a \in 1 .. Len(list) : others[i] = list[a]
  BY <1>5 DEF LeavesOut
<1>8. Named(others)
  <2>1. ASSUME NEW i \in 1 .. Len(others), NEW j \in 1 .. Len(others), i < j, others[i].key = others[j].key
        PROVE  FALSE
    <3>1. PICK a, b \in 1 .. Len(list) : a < b /\ others[i] = list[a] /\ others[j] = list[b]
      BY <1>5, <2>1 DEF LeavesOut
    <3>2. a = b
      BY <1>4, <2>1, <3>1 DEF Named
    <3> QED
      BY <3>1, <3>2
  <2>2. ASSUME NEW i \in 1 .. Len(others), NEW j \in 1 .. Len(others), others[i].key = others[j].key
        PROVE  i = j
    <3>1. i < j \/ j < i \/ i = j
      BY <1>6
    <3> QED
      BY <2>1, <2>2, <3>1
  <2>3. ASSUME NEW i \in 1 .. Len(others) PROVE others[i].contents \in Stores(others[i].key)
    BY <1>4, <1>7 DEF Named
  <2> QED
    BY <1>5, <2>2, <2>3 DEF Named
<1>9. ASSUME NEW k, k # key PROVE Meaning(others, k) = Meaning(list, k)
  <2>1. \A v : v.key = k => v \notin gone
    BY <1>2, <1>9
  <2>2. \A v : v.key = k => (v \in Range(list) <=> v \in Range(others))
    BY <1>5, <2>1
  <2> QED
    BY <1>4, <1>8, <2>2, MeaningSame
<1>10. Meaning(others, key) = Absent
  <2>1. ASSUME NEW i \in 1 .. Len(others), others[i].key = key PROVE FALSE
    <3>1. PICK a \in 1 .. Len(list) : others[i] = list[a]
      BY <1>7
    <3>2. others[i] \in gone
      BY <1>2, <2>1, <3>1
    <3> QED
      BY <1>7, <3>2
  <2> QED
    BY <2>1, MeaningNone
<1>11. CASE Meaning(list, key) = Absent
  BY <1>1, <1>8, <1>9, <1>10, <1>11
<1>12. CASE Meaning(list, key) # Absent
  <2>1. Gives(key, list, others)
    BY <1>8, <1>9, <1>10, <1>12 DEF Gives, Allowed
  <2> QED
    BY <1>1, <1>8, <2>1
<1> QED
  BY <1>11, <1>12

(* What a step does to the values of the names.                            *)
LEMMA VariableStep ==
    ASSUME StoreInv, [VariableNext]_variableVars
    PROVE  /\ StoreInv'
           /\ \/ /\ running /\ running' = running
                 /\ \E key \in Keys : Gives(key, mVarListEntry, mVarListEntry')
              \/ /\ running' = running \/ (running /\ running' = FALSE)
                 /\ \A k \in Keys : Meaning(mVarListEntry', k) = Meaning(mVarListEntry, k)
<1>1. Named(mVarListEntry) /\ running \in BOOLEAN
  BY DEF StoreInv
<1>2. ASSUME NEW key \in Keys, NEW attributes \in AttributeSets \cup {{}},
             NEW data \in Data(key, attributes) \cup {NULL}, CoreSetVariable(key, attributes, data)
      PROVE  /\ StoreInv'
             /\ \/ /\ running /\ running' = running
                   /\ \E k \in Keys : Gives(k, mVarListEntry, mVarListEntry')
                \/ /\ running' = running \/ (running /\ running' = FALSE)
                   /\ \A k \in Keys : Meaning(mVarListEntry', k) = Meaning(mVarListEntry, k)
  <2>1. running /\ ProcessVar(key, attributes, data)
    BY <1>2 DEF CoreSetVariable
  <2>2. CASE attributes = {} \/ data = NULL
    <3>1. DeleteVar(key)
      BY <2>1, <2>2 DEF ProcessVar
    <3>2. running' = running
      BY <3>1 DEF DeleteVar
    <3> QED
      BY <1>1, <2>1, <3>1, <3>2, DeleteStep DEF StoreInv
  <2>3. CASE ~(attributes = {} \/ data = NULL)
    <3>1. attributes \in AttributeSets /\ data \in Data(key, attributes)
      BY <1>2, <2>3
    <3>2. EnrollVar(key, attributes, data, APPEND_WRITE \in attributes)
      BY <2>1, <2>3 DEF ProcessVar
    <3>3. CASE FindVariableList(key) # {}
      <4>1. running' = running /\ \E i \in FindVariableList(key) :
               UpdateVariableList(i, attributes, data.stamp, data.payload, APPEND_WRITE \in attributes)
        BY <3>2, <3>3 DEF EnrollVar
      <4>2. Gives(key, mVarListEntry, mVarListEntry')
        BY <1>1, <3>1, <4>1, UpdateStep
      <4> QED
        BY <1>1, <2>1, <4>1, <4>2 DEF StoreInv, Gives
    <3>4. CASE FindVariableList(key) = {} /\ data.payload = <<>>
      <4>1. running' = FALSE /\ mVarListEntry' = mVarListEntry
        BY <3>2, <3>4 DEF EnrollVar
      <4> QED
        BY <1>1, <2>1, <4>1 DEF StoreInv
    <3>5. CASE FindVariableList(key) = {} /\ data.payload # <<>>
      <4>1. running' = running /\ CreateVariableList(key, attributes, data.stamp, data.payload)
        BY <3>2, <3>5 DEF EnrollVar
      <4>2. Gives(key, mVarListEntry, mVarListEntry')
        BY <1>1, <3>1, <3>5, <4>1, CreateStep
      <4> QED
        BY <1>1, <2>1, <4>1, <4>2 DEF StoreInv, Gives
    <3> QED
      BY <3>3, <3>4, <3>5
  <2> QED
    BY <2>2, <2>3
<1>3. CASE CoreGetNextVariableName \/ Restart \/ UNCHANGED variableVars
  <2>1. mVarListEntry' = mVarListEntry /\ running' = running
    BY <1>3 DEF CoreGetNextVariableName, Restart, variableVars
  <2> QED
    BY <1>1, <2>1 DEF StoreInv
<1> QED
  BY <1>2, <1>3 DEF VariableNext

LEMMA StoreInit == VariableInit => StoreInv
<1> SUFFICES ASSUME VariableInit PROVE StoreInv
  OBVIOUS
<1>1. PICK list : list = mVarListEntry
  OBVIOUS
<1>2. list = <<>>
  BY <1>1 DEF VariableInit
<1>3. list \in Seq(Records) /\ Len(list) = 0
  BY ONLY <1>2
<1>4. \A i \in 1 .. Len(list) : FALSE
  BY ONLY <1>3
<1> QED
  BY <1>1, <1>3, <1>4 DEF VariableInit, StoreInv, Named

(* The list of variables implements a value for each name, which appends   *)
(* extend.                                                                 *)
THEOREM VariablesImplemented == VariableSpec => ImplementsVariables
<1>1. VariableInit => Abstract!Init
  <2> SUFFICES ASSUME VariableInit PROVE Abstract!Init
    OBVIOUS
  <2>1. \A i \in 1 .. Len(mVarListEntry) : FALSE
    BY DEF VariableInit
  <2>2. \A key \in Keys : Value(key) = Absent
    BY <2>1, MeaningNone, ValueIs
  <2> QED
    BY <2>2 DEF VariableInit, Abstract!Init
<1>2. ASSUME StoreInv, [VariableNext]_variableVars
      PROVE  StoreInv' /\ [Abstract!Next]_<<[key \in Keys |-> Value(key)], running>>
  <2>1. /\ StoreInv'
        /\ \/ /\ running /\ running' = running
              /\ \E key \in Keys : Gives(key, mVarListEntry, mVarListEntry')
           \/ /\ running' = running \/ (running /\ running' = FALSE)
              /\ \A k \in Keys : Meaning(mVarListEntry', k) = Meaning(mVarListEntry, k)
    BY <1>2, VariableStep
  <2>2. CASE running /\ running' = running /\ \E key \in Keys : Gives(key, mVarListEntry, mVarListEntry')
    <3>1. PICK key \in Keys : Gives(key, mVarListEntry, mVarListEntry')
      BY <2>2
    <3>2. /\ \A k \in Keys : k # key => Value(k)' = Value(k)
          /\ Allowed(key, Value(key), Value(key)')
      BY <3>1, ValueIs DEF Gives
    <3>3. [k \in Keys |-> Value(k)]' = [[k \in Keys |-> Value(k)] EXCEPT ![key] = Value(key)']
      BY <3>2
    <3>4. Abstract!Change(key, [k \in Keys |-> Value(k)][key], [k \in Keys |-> Value(k)]'[key])
      BY <3>2, <3>3 DEF Abstract!Change, Allowed
    <3> QED
      BY <2>1, <2>2, <3>4 DEF Abstract!Next
  <2>3. CASE /\ running' = running \/ (running /\ running' = FALSE)
             /\ \A k \in Keys : Meaning(mVarListEntry', k) = Meaning(mVarListEntry, k)
    <3>1. [k \in Keys |-> Value(k)]' = [k \in Keys |-> Value(k)]
      BY <2>3, ValueIs
    <3> QED
      BY <2>1, <2>3, <3>1 DEF Abstract!Next
  <2> QED
    BY <2>1, <2>2, <2>3
<1> QED
  BY <1>1, <1>2, StoreInit, PTL DEF VariableSpec, ImplementsVariables, Abstract!Spec

-----------------------------------------------------------------------------
(***************************************************************************)
(* The enumeration.  The caller's name stands in the list, and of the      *)
(* names that are owed to it, it has those up to there and no other.       *)
(***************************************************************************)
Walked(list, at, had, due) ==
    /\ at \in Keys \cup {"Start", "Done", "Lost"}
    /\ \A key \in due : \E i \in 1 .. Len(list) : list[i].key = key
    /\ at \in Keys /\ due # {} =>
          \E k \in 1 .. Len(list) :
             /\ list[k].key = at
             /\ \A j \in 1 .. Len(list) : list[j].key \in due => (list[j].key \in had <=> j <= k)
    /\ at = "Start" => due = {} /\ had = {}
    /\ at = "Done" => due \subseteq had

EnumerationInv == StoreInv /\ Walked(mVarListEntry, name, returned, owed)

(* What a change of the list leaves as it was: the names in a set, and     *)
(* their order.                                                            *)
Keeps(list, others, names) ==
    /\ \A i \in 1 .. Len(list) : list[i].key \in names =>
          \E j \in 1 .. Len(others) : others[j].key = list[i].key
    /\ \A i, j \in 1 .. Len(list) : \A a, b \in 1 .. Len(others) :
          /\ list[i].key \in names /\ others[a].key = list[i].key
          /\ list[j].key \in names /\ others[b].key = list[j].key
          => (i <= j <=> a <= b)

LEMMA WalkKept ==
    ASSUME NEW list, NEW others, NEW at, NEW had, NEW due, Walked(list, at, had, due),
           NEW left \in SUBSET due, Keeps(list, others, left \cup {at})
    PROVE  Walked(others, at, had, left)
<1>1. ASSUME NEW key \in left PROVE \E i \in 1 .. Len(others) : others[i].key = key
  BY DEF Walked, Keeps
<1>2. ASSUME at \in Keys, left # {}
      PROVE  \E k \in 1 .. Len(others) :
                /\ others[k].key = at
                /\ \A j \in 1 .. Len(others) : others[j].key \in left => (others[j].key \in had <=> j <= k)
  <2>1. PICK k \in 1 .. Len(list) :
           /\ list[k].key = at
           /\ \A j \in 1 .. Len(list) : list[j].key \in due => (list[j].key \in had <=> j <= k)
    BY <1>2 DEF Walked
  <2>2. PICK m \in 1 .. Len(others) : others[m].key = at
    BY <2>1 DEF Keeps
  <2>3. ASSUME NEW j \in 1 .. Len(others), others[j].key \in left
        PROVE  others[j].key \in had <=> j <= m
    <3>1. PICK i \in 1 .. Len(list) : list[i].key = others[j].key
      BY <2>3 DEF Walked
    <3>2. i <= k <=> j <= m
      BY <2>1, <2>2, <2>3, <3>1 DEF Keeps
    <3> QED
      BY <2>1, <2>3, <3>1, <3>2
  <2> QED
    BY <2>2, <2>3
<1> QED
  BY <1>1, <1>2 DEF Walked

LEMMA UpdateKeeps ==
    ASSUME Named(mVarListEntry), Named(mVarListEntry'), NEW i \in 1 .. Len(mVarListEntry), NEW attributes, NEW stamp,
           NEW payload, NEW append, UpdateVariableList(i, attributes, stamp, payload, append), NEW names
    PROVE  Keeps(mVarListEntry, mVarListEntry', names)
<1>1. PICK list, others : list = mVarListEntry /\ others = mVarListEntry'
  OBVIOUS
<1>2. Named(list) /\ Named(others) /\ Len(list) \in Nat /\ list \in Seq(Records) /\ others \in Seq(Records)
  BY <1>1, LenProperties DEF Named
<1>3. PICK new : /\ new.key = list[i].key
                 /\ others = [list EXCEPT ![i] = new]
  <2>1. PICK time : mVarListEntry' = [mVarListEntry EXCEPT
            ![i].attributes = attributes,
            ![i].stamp = time,
            ![i].contents =
                IF ~append THEN payload
                ELSE IF mVarListEntry[i].key \in Databases THEN FilterSignatureList(@, payload)
                ELSE @ \o payload]
    BY DEF UpdateVariableList
  <2>2. PICK contents : contents = IF ~append THEN payload
                ELSE IF list[i].key \in Databases THEN FilterSignatureList(list[i].contents, payload)
                ELSE list[i].contents \o payload
    OBVIOUS
  <2>3. PICK old : old = list[i]
    OBVIOUS
  <2>4. PICK new : new = [old EXCEPT !.attributes = attributes, !.stamp = time, !.contents = contents]
    OBVIOUS
  <2>5. old \in Records
    BY <1>2, <2>3, ElementOfSeq, <1>1
  <2>6. new.key = old.key
    <3>1. new = [key |-> old.key, attributes |-> attributes, stamp |-> time, contents |-> contents]
      BY <2>4, <2>5, Updated
    <3> QED
      BY <3>1
  <2>7. others = [list EXCEPT ![i] = new]
    BY <1>1, <1>2, <2>1, <2>2, <2>3, <2>4
  <2> QED
    BY <2>3, <2>6, <2>7
<1>4. Len(others) = Len(list) /\ \A j \in 1 .. Len(list) : others[j].key = list[j].key
  <2>1. i \in 1 .. Len(list)
    BY <1>1
  <2>2. DOMAIN others = DOMAIN list
    BY <1>3
  <2>3. Len(others) = Len(list)
    BY ONLY <1>2, <2>2, LenProperties
  <2>4. \A j \in 1 .. Len(list) : others[j] = IF j = i THEN new ELSE list[j]
    BY <1>2, <1>3
  <2> QED
    BY <1>3, <2>3, <2>4
<1>5. \A k, j \in 1 .. Len(list) : \A a, b \in 1 .. Len(others) :
          others[a].key = list[k].key /\ others[b].key = list[j].key => k = a /\ j = b
  BY <1>2, <1>4 DEF Named
<1> QED
  BY <1>1, <1>4, <1>5 DEF Keeps

LEMMA CreateKeeps ==
    ASSUME Named(mVarListEntry), Named(mVarListEntry'), NEW key, NEW attributes, NEW stamp, NEW payload,
           CreateVariableList(key, attributes, stamp, payload), NEW names
    PROVE  Keeps(mVarListEntry, mVarListEntry', names)
<1>1. PICK list, others : list = mVarListEntry /\ others = mVarListEntry'
  OBVIOUS
<1>2. Named(list) /\ Named(others) /\ Len(list) \in Nat /\ list \in Seq(Records)
  BY <1>1, LenProperties DEF Named
<1>3. PICK new : others = Append(list, new)
  BY <1>1 DEF CreateVariableList
<1>4. Len(others) = Len(list) + 1 /\ \A j \in 1 .. Len(list) : j \in 1 .. Len(others) /\ others[j] = list[j]
  BY <1>2, <1>3
<1>5. \A i, j \in 1 .. Len(list) : \A a, b \in 1 .. Len(others) :
          others[a].key = list[i].key /\ others[b].key = list[j].key => i = a /\ j = b
  BY <1>2, <1>4 DEF Named
<1> QED
  BY <1>1, <1>4, <1>5 DEF Keeps

LEMMA DeleteKeeps ==
    ASSUME Named(mVarListEntry), Named(mVarListEntry'), NEW key, DeleteVar(key), NEW names, key \notin names
    PROVE  Keeps(mVarListEntry, mVarListEntry', names)
<1>1. PICK list, others : list = mVarListEntry /\ others = mVarListEntry'
  OBVIOUS
<1>2. PICK gone : gone = {list[i] : i \in {i \in 1 .. Len(list) : list[i].key = key}}
  OBVIOUS
<1>3. others = Without(list, gone)
  BY <1>1, <1>2 DEF DeleteVar, FindVariableList
<1>4. Named(list) /\ list \in Seq(Records) /\ Named(others)
  BY <1>1 DEF Named
<1>5. LeavesOut(list, gone, others)
  BY ONLY <1>3, <1>4, WithoutProperties
<1>6. Len(others) \in Nat /\ Len(list) \in Nat
  BY <1>4, LenProperties DEF Named
<1>7. ASSUME NEW i \in 1 .. Len(list), list[i].key \in names
      PROVE  \E j \in 1 .. Len(others) : others[j].key = list[i].key
  <2>1. list[i] \notin gone
    BY <1>2, <1>7
  <2>2. PICK j \in 1 .. Len(others) : others[j] = list[i]
    BY <1>5, <2>1 DEF LeavesOut
  <2> QED
    BY <2>2
<1>8. ASSUME NEW i \in 1 .. Len(list), NEW j \in 1 .. Len(list),
             NEW a \in 1 .. Len(others), NEW b \in 1 .. Len(others),
             others[a].key = list[i].key, others[b].key = list[j].key, a < b
      PROVE  i < j
  <2>1. PICK c, d \in 1 .. Len(list) : c < d /\ others[a] = list[c] /\ others[b] = list[d]
    BY <1>5, <1>8 DEF LeavesOut
  <2>2. c = i /\ d = j
    BY <1>4, <1>8, <2>1 DEF Named
  <2> QED
    BY <2>1, <2>2
<1>9. ASSUME NEW i \in 1 .. Len(list), NEW j \in 1 .. Len(list),
             NEW a \in 1 .. Len(others), NEW b \in 1 .. Len(others),
             others[a].key = list[i].key, others[b].key = list[j].key
      PROVE  i <= j <=> a <= b
  <2>1. CASE a < b
    BY <1>8, <1>9, <2>1
  <2>2. CASE b < a
    BY <1>8, <1>9, <2>2
  <2>3. CASE a = b
    <3>1. i = j
      BY <1>4, <1>9, <2>3 DEF Named
    <3> QED
      BY <2>3, <3>1
  <2> QED
    BY <1>6, <2>1, <2>2, <2>3
<1> QED
  BY <1>1, <1>7, <1>9 DEF Keeps

LEMMA SetVariableWalk ==
    ASSUME EnumerationInv, StoreInv', NEW key \in Keys, NEW attributes, NEW data,
           CoreSetVariable(key, attributes, data)
    PROVE  EnumerationInv'
<1>1. /\ ProcessVar(key, attributes, data) /\ name' = name /\ returned' = returned
      /\ Named(mVarListEntry) /\ Named(mVarListEntry') /\ Walked(mVarListEntry, name, returned, owed)
  BY DEF CoreSetVariable, EnumerationInv, StoreInv
<1>2. CASE EnrollVar(key, attributes, data, APPEND_WRITE \in attributes)
  <2>1. CASE \E i \in FindVariableList(key) :
               UpdateVariableList(i, attributes, data.stamp, data.payload, APPEND_WRITE \in attributes)
    <3>1. PICK i \in 1 .. Len(mVarListEntry) :
               UpdateVariableList(i, attributes, data.stamp, data.payload, APPEND_WRITE \in attributes)
      BY <2>1 DEF FindVariableList
    <3>2. Keeps(mVarListEntry, mVarListEntry', owed \cup {name})
      BY <1>1, <3>1, UpdateKeeps
    <3> QED
      BY <1>1, <1>2, <3>2, WalkKept DEF EnrollVar, EnumerationInv
  <2>2. CASE CreateVariableList(key, attributes, data.stamp, data.payload)
    <3>1. Keeps(mVarListEntry, mVarListEntry', owed \cup {name})
      BY <1>1, <2>2, CreateKeeps
    <3> QED
      BY <1>1, <1>2, <3>1, WalkKept DEF EnrollVar, EnumerationInv
  <2>3. CASE UNCHANGED mVarListEntry
    BY <1>1, <1>2, <2>3 DEF EnrollVar, EnumerationInv
  <2> QED
    BY <1>2, <2>1, <2>2, <2>3 DEF EnrollVar
<1>3. CASE DeleteVar(key)
  <2>1. CASE key = name
    BY <1>1, <1>3, <2>1 DEF DeleteVar, EnumerationInv, Walked
  <2>2. CASE key # name
    <3>1. owed' = owed \ {key}
      BY <1>3, <2>2 DEF DeleteVar
    <3>2. Keeps(mVarListEntry, mVarListEntry', owed' \cup {name})
      BY <1>1, <1>3, <2>2, <3>1, DeleteKeeps
    <3>3. Walked(mVarListEntry', name, returned, owed')
      BY <1>1, <3>1, <3>2, WalkKept
    <3> QED
      BY <1>1, <3>3 DEF EnumerationInv
  <2> QED
    BY <2>1, <2>2
<1> QED
  BY <1>1, <1>2, <1>3 DEF ProcessVar

LEMMA NextNameWalk ==
    ASSUME EnumerationInv, CoreGetNextVariableName
    PROVE  /\ Walked(mVarListEntry, name', returned', owed')
           /\ name' \in owed => name' \notin returned
<1>1. /\ Named(mVarListEntry) /\ Walked(mVarListEntry, name, returned, owed)
      /\ Len(mVarListEntry) \in Nat /\ name \in Keys \cup {"Start"}
      /\ owed' = IF name = "Start" THEN Set ELSE owed
      /\ \A i \in 1 .. Len(mVarListEntry) : mVarListEntry[i].key \in Keys
      /\ \A i, j \in 1 .. Len(mVarListEntry) : mVarListEntry[i].key = mVarListEntry[j].key => i = j
  BY Listed, LenProperties DEF EnumerationInv, StoreInv, Named, CoreGetNextVariableName
<1>2. "Start" \notin Keys /\ "Done" \notin Keys /\ "Lost" \notin Keys
  BY VariableAssumption
<1>3. CASE Len(mVarListEntry) = 0
  <2>1. FindVariableList(name) = {} /\ ~(Len(mVarListEntry) > 0)
    BY <1>1, <1>3 DEF FindVariableList
  <2>2. name' = "Done"
    BY <1>3, <2>1 DEF CoreGetNextVariableName
  <2>3. owed' = {}
    BY <1>1, <1>2, <1>3 DEF Set, Walked
  <2>4. owed = {}
    BY <1>1, <1>3 DEF Walked
  <2> QED
    BY <2>2, <2>3, <2>4 DEF Walked
<1>4. CASE Len(mVarListEntry) > 0 /\ name = "Start"
  <2>1. FindVariableList(name) = {} /\ ~(Len(mVarListEntry) = 0)
    BY <1>1, <1>2, <1>4 DEF FindVariableList
  <2>2. name' = mVarListEntry[1].key /\ returned' = returned \cup {name'}
    BY <1>4, <2>1 DEF CoreGetNextVariableName, ReturnName
  <2>3. returned = {} /\ owed = {} /\ owed' = Set
    BY <1>1, <1>4 DEF Walked
  <2>4. 1 \in 1 .. Len(mVarListEntry)
    BY <1>1, <1>4
  <2>5. \A j \in 1 .. Len(mVarListEntry) : mVarListEntry[j].key \in returned' <=> j <= 1
    BY <1>1, <2>2, <2>3, <2>4
  <2>6. name' \in Keys
    BY <1>1, <2>2, <2>4
  <2>7. \E k \in 1 .. Len(mVarListEntry) :
          /\ mVarListEntry[k].key = name'
          /\ \A j \in 1 .. Len(mVarListEntry) :
                mVarListEntry[j].key \in owed' => (mVarListEntry[j].key \in returned' <=> j <= k)
    BY <2>2, <2>4, <2>5
  <2> QED
    BY <1>2, <2>3, <2>6, <2>7 DEF Walked, Set
<1>5. CASE Len(mVarListEntry) > 0 /\ name # "Start" /\ FindVariableList(name) = {}
  <2>1. name' = "Lost"
    BY <1>5 DEF CoreGetNextVariableName
  <2>2. owed = {} /\ owed' = {}
    BY <1>1, <1>5 DEF Walked, FindVariableList
  <2> QED
    BY <2>1, <2>2 DEF Walked
<1>6. CASE Len(mVarListEntry) > 0 /\ name # "Start" /\ FindVariableList(name) # {}
  <2>1. PICK i \in FindVariableList(name) :
           IF i = Len(mVarListEntry) THEN name' = "Done" /\ UNCHANGED returned
           ELSE ReturnName(mVarListEntry[i + 1].key)
    <3>1. ~(Len(mVarListEntry) = 0)
      BY <1>1, <1>6
    <3> QED
      BY <1>6, <3>1 DEF CoreGetNextVariableName
  <2>2. i \in 1 .. Len(mVarListEntry) /\ mVarListEntry[i].key = name /\ owed' = owed
    BY <1>1, <1>6, <2>1 DEF FindVariableList
  <2>3. name \in Keys
    BY <1>1, <1>6
  <2>4. ASSUME NEW j \in 1 .. Len(mVarListEntry), mVarListEntry[j].key \in owed
        PROVE  mVarListEntry[j].key \in returned <=> j <= i
    BY <1>1, <2>2, <2>3, <2>4 DEF Walked
  <2>5. CASE i = Len(mVarListEntry)
    <3>1. name' = "Done" /\ returned' = returned
      BY <2>1, <2>5
    <3>2. \A key \in owed : key \in returned
      <4>1. \A key \in owed : \E j \in 1 .. Len(mVarListEntry) : mVarListEntry[j].key = key
        BY <1>1 DEF Walked
      <4> QED
        BY <1>1, <2>4, <2>5, <4>1
    <3>3. "Done" \notin owed
      BY <1>1, <1>2 DEF Walked
    <3> QED
      BY <1>1, <1>2, <2>2, <3>1, <3>2, <3>3 DEF Walked
  <2>6. CASE i # Len(mVarListEntry)
    <3>1. i + 1 \in 1 .. Len(mVarListEntry) /\ name' = mVarListEntry[i + 1].key /\ returned' = returned \cup {name'}
      BY <1>1, <2>1, <2>2, <2>6 DEF ReturnName
    <3>2. name' \in Keys
      BY <1>1, <3>1
    <3>3. ASSUME NEW j \in 1 .. Len(mVarListEntry), mVarListEntry[j].key \in owed
          PROVE  mVarListEntry[j].key \in returned' <=> j <= i + 1
      <4>1. mVarListEntry[j].key = name' <=> j = i + 1
        BY <1>1, <3>1
      <4>2. mVarListEntry[j].key \in returned <=> j <= i
        BY <2>4, <3>3
      <4> QED
        BY <2>2, <3>1, <4>1, <4>2
    <3>4. name' \in owed => name' \notin returned
      BY <2>2, <2>4, <3>1
    <3>5. \E k \in 1 .. Len(mVarListEntry) :
            /\ mVarListEntry[k].key = name'
            /\ \A j \in 1 .. Len(mVarListEntry) :
                  mVarListEntry[j].key \in owed' => (mVarListEntry[j].key \in returned' <=> j <= k)
      BY <2>2, <3>1, <3>3
    <3> QED
      BY <1>1, <1>2, <2>2, <3>2, <3>4, <3>5 DEF Walked
  <2> QED
    BY <2>5, <2>6
<1> QED
  BY <1>1, <1>3, <1>4, <1>5, <1>6

LEMMA EnumerationStep ==
    ASSUME EnumerationInv, [VariableNext]_variableVars
    PROVE  /\ EnumerationInv'
           /\ name' # name /\ name' \in owed => name' \notin returned
<1>1. StoreInv'
  BY VariableStep DEF EnumerationInv
<1>2. ASSUME NEW key \in Keys, NEW attributes \in AttributeSets \cup {{}},
             NEW data \in Data(key, attributes) \cup {NULL}, CoreSetVariable(key, attributes, data)
      PROVE  EnumerationInv' /\ name' = name
  BY <1>1, <1>2, SetVariableWalk DEF CoreSetVariable
<1>3. CASE CoreGetNextVariableName
  <2>1. mVarListEntry' = mVarListEntry
    BY <1>3 DEF CoreGetNextVariableName
  <2> QED
    BY <1>1, <1>3, <2>1, NextNameWalk DEF EnumerationInv
<1>4. CASE Restart
  <2>1. owed' = {} /\ returned' = {} /\ name' = "Start" /\ owed' = {} /\ mVarListEntry' = mVarListEntry
    BY <1>4 DEF Restart
  <2>2. "Start" \notin owed /\ "Start" \notin Keys
    BY Listed, VariableAssumption DEF EnumerationInv, StoreInv, Walked
  <2> QED
    BY <1>1, <2>1, <2>2 DEF EnumerationInv, Walked
<1>5. CASE UNCHANGED variableVars
  BY <1>1, <1>5 DEF variableVars, EnumerationInv
<1> QED
  BY <1>2, <1>3, <1>4, <1>5 DEF VariableNext

(* An enumeration returns what was there all the time, and that once: the  *)
(* safety of EnumerationServes.                                            *)
THEOREM EnumerationSafe == VariableSpec => [][EnumerationComplete']_variableVars /\ NoNameTwice
<1>1. VariableInit => EnumerationInv
  BY StoreInit DEF VariableInit, EnumerationInv, Walked
<1>2. ASSUME EnumerationInv, [VariableNext]_variableVars
      PROVE  /\ EnumerationInv' /\ EnumerationComplete'
             /\ name' # name /\ name' \in owed => name' \notin returned
  BY <1>2, EnumerationStep DEF EnumerationComplete, EnumerationInv, Walked
<1> QED
  BY <1>1, <1>2, PTL DEF VariableSpec, NoNameTwice
=============================================================================
