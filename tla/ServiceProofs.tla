---------------------------- MODULE ServiceProofs ----------------------------
(***************************************************************************)
(* Proofs about services and mocks that stand beside the event services:   *)
(* the buffers of the simple network mock, the SMM protocol database, the  *)
(* dispatch of SMIs, the tables of the configuration services, and the     *)
(* datagrams of the IPv6 and UDPv6 mocks.                                  *)
(***************************************************************************)
EXTENDS MCServices, ListLemmas, FiniteSetTheorems

-----------------------------------------------------------------------------
(* The simple network mock. *)

(* What the mock remembers is what the driver waits for: every way to give *)
(* up a buffer forgets it, or ends at Initialize, which does.              *)
LEMMA BuffersStep ==
    ASSUME BuffersAwaited, [SnpNext]_snpVars
    PROVE  BuffersAwaited'
<1> USE DEF BuffersAwaited, Recycled
<1>1. CASE MockSnpStart
  BY <1>1 DEF MockSnpStart
<1>2. CASE MockSnpStop
  BY <1>2 DEF MockSnpStop
<1>3. CASE MockSnpInitialize
  BY <1>3 DEF MockSnpInitialize, ForgetBuffer
<1>4. CASE MockSnpReset
  BY <1>4 DEF MockSnpReset, ForgetBuffer
<1>5. CASE MockSnpShutdown
  BY <1>5 DEF MockSnpShutdown, ForgetBuffer
<1>6. CASE MockSnpReceiveFilters
  BY <1>6 DEF MockSnpReceiveFilters, txBuffer
<1>7. CASE MockSnpStationAddress
  BY <1>7 DEF MockSnpStationAddress, txBuffer
<1>8. CASE MockSnpStatistics
  BY <1>8 DEF MockSnpStatistics, txBuffer
<1>9. CASE MockSnpGetStatus
  BY <1>9 DEF MockSnpGetStatus
<1>10. CASE MockSnpTransmit
  BY <1>10 DEF MockSnpTransmit
<1>11. CASE MockSnpReceive
  BY <1>11 DEF MockSnpReceive, txBuffer
<1>12. CASE ResetNetwork
  BY <1>12 DEF ResetNetwork, ForgetBuffer
<1>13. CASE UNCHANGED snpVars
  BY <1>13 DEF snpVars
<1> QED
  BY <1>1, <1>2, <1>3, <1>4, <1>5, <1>6, <1>7, <1>8, <1>9, <1>10, <1>11, <1>12, <1>13 DEF SnpNext

(* GetStatus hands back only buffers that the driver waits for.            *)
THEOREM BuffersHold == SnpSpec => []BuffersAwaited
<1>1. SnpInit => BuffersAwaited
  BY DEF SnpInit, BuffersAwaited
<1> QED
  BY <1>1, BuffersStep, PTL DEF SnpSpec

-----------------------------------------------------------------------------
(***************************************************************************)
(* The SMM protocol database.  The lists of handles, interfaces and        *)
(* registrations agree; and what a notify function has not heard of yet is *)
(* announced to one before it in its list, so that it will hear of it.     *)
(***************************************************************************)
SmmTypes ==
    /\ smmInterfaces \in Seq([handle : Nat, protocol : SmmProtocolIds])
    /\ gSmmHandleList \in Seq(Nat) /\ byHandle \in Seq(Seq(Nat))
    /\ byProtocol \in [SmmProtocolIds -> Seq(Nat)]
    /\ notifyList \in [SmmProtocolIds -> Seq(Nat)]
    /\ registrations \in Seq([function : SmmFunctions, Position : Nat \cup {ListHead}])
    /\ announcing \in Seq([interface : Nat, at : Nat])
    /\ heard \in Seq(Seq(Nat)) /\ Len(heard) = Len(registrations)
    /\ unseen \in Seq(Seq(Nat)) /\ Len(unseen) = Len(registrations)

(* The interfaces that are on a handle.                                    *)
Installed == {i \in DOMAIN smmInterfaces : i \in Range(byHandle[smmInterfaces[i].handle])}

HandlesLinked ==
    /\ \A i \in DOMAIN smmInterfaces : smmInterfaces[i].handle \in DOMAIN byHandle
    /\ \A h \in DOMAIN byHandle : IsInjective(byHandle[h]) /\ Range(byHandle[h]) \subseteq
          {i \in DOMAIN smmInterfaces : smmInterfaces[i].handle = h}
    /\ IsInjective(gSmmHandleList)
    /\ Range(gSmmHandleList) = {h \in DOMAIN byHandle : byHandle[h] # <<>>}

ProtocolsLinked ==
    /\ \A p \in SmmProtocolIds :
          /\ IsInjective(byProtocol[p])
          /\ Range(byProtocol[p]) = {i \in Installed : smmInterfaces[i].protocol = p}
    /\ \A i, j \in Installed : smmInterfaces[i] = smmInterfaces[j] => i = j

RegistrationsLinked ==
    /\ \A p \in SmmProtocolIds :
          IsInjective(notifyList[p]) /\ Range(notifyList[p]) \subseteq DOMAIN registrations
    /\ \A p, q \in SmmProtocolIds : p # q => Range(notifyList[p]) \cap Range(notifyList[q]) = {}
    /\ \A p \in SmmProtocolIds : \A r \in Range(notifyList[p]) :
          LET at == registrations[r].Position IN
          /\ at = ListHead \/ at \in Range(byProtocol[p])
          /\ unseen[r] = Behind(byProtocol[p], at)

(* Function r has yet to hear of what function at was called for.          *)
Follows(list, at, r) ==
    IF at = 0 THEN r \in Range(list)
    ELSE \E m, n \in 1 .. Len(list) : m < n /\ list[m] = at /\ list[n] = r

Awaits(announcements, interfaces, lists, i, r) ==
    \E a \in announcements : a.interface = i /\ Follows(lists[interfaces[i].protocol], a.at, r)

AnnouncementsFit ==
    /\ \A k, l \in DOMAIN announcing : announcing[k].interface = announcing[l].interface => k = l
    /\ \A a \in Range(announcing) :
          a.interface \in Installed /\ a.at \in Range(notifyList[smmInterfaces[a.interface].protocol])

AllHear(announcements, interfaces, lists, installations, calls) ==
    \A p \in SmmProtocolIds : \A r \in Range(lists[p]) :
        /\ IsInjective(calls[r]) /\ Range(calls[r]) \subseteq DOMAIN interfaces
        /\ \A i \in Range(installations[r]) :
              i \in Range(calls[r]) \/ Awaits(announcements, interfaces, lists, i, r)
        /\ \A i \in Range(calls[r]) : ~Awaits(announcements, interfaces, lists, i, r)

SmmInv ==
    /\ SmmTypes /\ HandlesLinked /\ ProtocolsLinked /\ RegistrationsLinked /\ AnnouncementsFit
    /\ AllHear(Range(announcing), smmInterfaces, notifyList, unseen, heard)

-----------------------------------------------------------------------------
(* The lists of notify functions. *)

(* Where an element is.                                                    *)
LEMMA SelectKnown ==
    ASSUME NEW S, NEW s \in Seq(S), IsInjective(s), NEW k \in 1 .. Len(s)
    PROVE  {i \in 1 .. Len(s) : s[i] = s[k]} = {k} /\ Min({i \in 1 .. Len(s) : s[i] = s[k]}) = k
<1>1. Distinct(s) /\ Len(s) \in Nat
  BY Elements, LenProperties
<1>2. {i \in 1 .. Len(s) : s[i] = s[k]} = {k}
  BY <1>1 DEF Distinct
<1>3. k \in Nat
  BY <1>1
<1>4. Min({k}) = k
  <2>1. Min({k}) \in {k}
    BY <1>3, Minimum
  <2> QED
    BY <2>1
<1> QED
  BY <1>2, <1>4

LEMMA FollowsAppend ==
    ASSUME NEW list \in Seq(Nat), NEW e \in Nat, e \notin Range(list), NEW at, NEW r, r # e
    PROVE  Follows(Append(list, e), at, r) <=> Follows(list, at, r)
<1> PICK t : t = Append(list, e)
  OBVIOUS
<1>1. /\ t \in Seq(Nat) /\ Len(t) = Len(list) + 1 /\ t[Len(list) + 1] = e
      /\ \A i \in 1 .. Len(list) : t[i] = list[i]
  BY AppendProperties
<1>2. Range(t) = Range(list) \cup {e} /\ Len(list) \in Nat
  BY AppendElements, LenProperties
<1>3. CASE at = 0
  BY <1>2, <1>3 DEF Follows
<1>4. CASE at # 0
  <2>1. ASSUME NEW m \in 1 .. Len(t), NEW n \in 1 .. Len(t), m < n, t[m] = at, t[n] = r
        PROVE  m \in 1 .. Len(list) /\ n \in 1 .. Len(list) /\ list[m] = at /\ list[n] = r
    <3>1. n # Len(list) + 1
      BY <1>1, <2>1
    <3>2. m \in 1 .. Len(list) /\ n \in 1 .. Len(list)
      BY <1>1, <1>2, <2>1, <3>1
    <3> QED
      BY <1>1, <2>1, <3>2
  <2>2. ASSUME NEW m \in 1 .. Len(list), NEW n \in 1 .. Len(list), m < n, list[m] = at, list[n] = r
        PROVE  m \in 1 .. Len(t) /\ n \in 1 .. Len(t) /\ t[m] = at /\ t[n] = r
    BY <1>1, <1>2, <2>2
  <2>3. (\E m, n \in 1 .. Len(t) : m < n /\ t[m] = at /\ t[n] = r) <=>
        (\E m, n \in 1 .. Len(list) : m < n /\ list[m] = at /\ list[n] = r)
    BY <2>1, <2>2
  <2> QED
    BY <1>4, <2>3 DEF Follows
<1> QED
  BY <1>3, <1>4

LEMMA FollowsRemove ==
    ASSUME NEW list \in Seq(Nat), IsInjective(list), NEW x, NEW at, NEW r, at # x, r # x
    PROVE  Follows(RemoveFirst(list, x), at, r) <=> Follows(list, at, r)
<1>0. PICK t : t = RemoveFirst(list, x)
  OBVIOUS
<1>1. t \in Seq(Nat) /\ Range(t) = Range(list) \ {x}
  BY <1>0, RemoveElements
<1>2. /\ \A i \in 1 .. Len(list) : list[i] # x => \E j \in 1 .. Len(t) : t[j] = list[i]
      /\ \A i, j \in 1 .. Len(t) : i < j =>
            \E a, b \in 1 .. Len(list) : a < b /\ t[i] = list[a] /\ t[j] = list[b]
  <2>1. /\ \A i \in 1 .. Len(list) : list[i] # x =>
              \E j \in 1 .. Len(RemoveFirst(list, x)) : RemoveFirst(list, x)[j] = list[i]
        /\ \A i, j \in 1 .. Len(RemoveFirst(list, x)) : i < j =>
              \E a, b \in 1 .. Len(list) :
                 a < b /\ RemoveFirst(list, x)[i] = list[a] /\ RemoveFirst(list, x)[j] = list[b]
    BY ONLY RemoveFirstKeeps, list \in Seq(Nat)
  <2> QED
    BY ONLY <1>0, <2>1
<1>3. Distinct(list) /\ Len(list) \in Nat /\ Len(t) \in Nat
  BY <1>1, Elements, LenProperties
<1>4. CASE at = 0
  BY <1>0, <1>1, <1>4 DEF Follows
<1>5. CASE at # 0
  <2>1. ASSUME NEW m \in 1 .. Len(t), NEW n \in 1 .. Len(t), m < n, t[m] = at, t[n] = r
        PROVE  \E a, b \in 1 .. Len(list) : a < b /\ list[a] = at /\ list[b] = r
    BY <1>2, <2>1
  <2>2. ASSUME NEW a \in 1 .. Len(list), NEW b \in 1 .. Len(list), a < b, list[a] = at, list[b] = r
        PROVE  \E m, n \in 1 .. Len(t) : m < n /\ t[m] = at /\ t[n] = r
    <3>1. PICK m \in 1 .. Len(t) : t[m] = at
      BY <1>2, <2>2
    <3>2. PICK n \in 1 .. Len(t) : t[n] = r
      BY <1>2, <2>2
    <3>3. m # n
      BY <1>3, <2>2, <3>1, <3>2 DEF Distinct
    <3>4. ~ (n < m)
      <4> SUFFICES ASSUME n < m PROVE FALSE
        OBVIOUS
      <4>1. PICK c, d \in 1 .. Len(list) : c < d /\ t[n] = list[c] /\ t[m] = list[d]
        BY <1>2
      <4>2. c = b /\ d = a
        BY <1>3, <2>2, <3>1, <3>2, <4>1 DEF Distinct
      <4> QED
        BY <1>3, <2>2, <4>1, <4>2
    <3>5. m < n
      BY <1>3, <3>3, <3>4
    <3> QED
      BY <3>1, <3>2, <3>5
  <2> QED
    BY <1>0, <1>5, <2>1, <2>2 DEF Follows
<1> QED
  BY <1>4, <1>5

(* SmmNotifyProtocol calls the functions in the order of their list.       *)
LEMMA NextFunction ==
    ASSUME NEW list \in Seq(Nat), IsInjective(list), 0 \notin Range(list),
           NEW at, at = 0 \/ at \in Range(list), NEW next, next = FunctionAfter(list, at)
    PROVE  /\ next = 0 => \A r : ~Follows(list, at, r)
           /\ next # 0 =>
                 /\ next \in Range(list)
                 /\ \A r : Follows(list, at, r) <=> r = next \/ Follows(list, next, r)
                 /\ ~Follows(list, next, next)
<1>1. Distinct(list) /\ Len(list) \in Nat /\ (\A x : x \in Range(list) <=> \E i \in 1 .. Len(list) : list[i] = x)
  BY Elements, LenProperties
<1>2. PICK k \in 0 .. Len(list) :
          /\ k = 0 <=> at = 0
          /\ k # 0 => list[k] = at
          /\ next = IF k = Len(list) THEN 0 ELSE list[k + 1]
  <2>1. CASE at = 0
    <3>1. next = IF 0 = Len(list) THEN 0 ELSE list[0 + 1]
      BY <2>1 DEF FunctionAfter
    <3> QED
      BY <1>1, <2>1, <3>1
  <2>2. CASE at # 0
    <3>1. PICK k \in 1 .. Len(list) : list[k] = at
      BY <1>1, <2>2
    <3>2. {i \in 1 .. Len(list) : list[i] = at} # {} /\ Min({i \in 1 .. Len(list) : list[i] = at}) = k
      BY <3>1, SelectKnown
    <3>3. SelectInSeq(list, LAMBDA x : x = at) = k
      BY <3>2 DEF SelectInSeq
    <3>4. next = IF k = Len(list) THEN 0 ELSE list[k + 1]
      BY <2>2, <3>2 DEF FunctionAfter, SelectInSeq
    <3> QED
      BY <1>1, <2>2, <3>1, <3>4
  <2> QED
    BY <2>1, <2>2
<1>3. \A r : Follows(list, at, r) <=> \E n \in 1 .. Len(list) : k < n /\ list[n] = r
  <2>1. CASE at = 0
    BY <1>1, <1>2, <2>1 DEF Follows
  <2>2. CASE at # 0
    <3>1. k \in 1 .. Len(list) /\ list[k] = at
      BY <1>1, <1>2, <2>2
    <3>2. \A m \in 1 .. Len(list) : list[m] = at => m = k
      BY <1>1, <3>1 DEF Distinct
    <3> QED
      BY <2>2, <3>1, <3>2 DEF Follows
  <2> QED
    BY <2>1, <2>2
<1>4. CASE k = Len(list)
  <2>1. next = 0
    BY <1>2, <1>4
  <2> QED
    BY <1>1, <1>3, <1>4, <2>1
<1>5. CASE k # Len(list)
  <2>1. k + 1 \in 1 .. Len(list) /\ next = list[k + 1]
    BY <1>1, <1>2, <1>5
  <2>2. next \in Range(list) /\ next # 0
    BY <1>1, <2>1
  <2>3. \A m \in 1 .. Len(list) : list[m] = next => m = k + 1
    BY <1>1, <2>1 DEF Distinct
  <2>4. \A r : Follows(list, next, r) <=> \E n \in 1 .. Len(list) : k + 1 < n /\ list[n] = r
    BY <2>1, <2>2, <2>3 DEF Follows
  <2>5. ASSUME NEW r
        PROVE  Follows(list, at, r) <=> r = next \/ Follows(list, next, r)
    <3>1. \A n \in 1 .. Len(list) : k < n <=> n = k + 1 \/ k + 1 < n
      BY <1>1
    <3> QED
      BY <1>3, <2>1, <2>4, <3>1
  <2>6. ~Follows(list, next, next)
    BY <1>1, <2>1, <2>3, <2>4
  <2> QED
    BY <2>2, <2>5, <2>6
<1> QED
  BY <1>4, <1>5

-----------------------------------------------------------------------------
(* Announcements. *)

LEMMA AwaitsOne ==
    ASSUME NEW a, NEW S, NEW interfaces, NEW lists, NEW i, NEW r
    PROVE  Awaits({a} \cup S, interfaces, lists, i, r) <=>
              \/ a.interface = i /\ Follows(lists[interfaces[i].protocol], a.at, r)
              \/ Awaits(S, interfaces, lists, i, r)
BY DEF Awaits

LEMMA UniqueOnTop ==
    ASSUME NEW T, NEW under \in Seq(T), NEW new \in T,
           \A a \in Range(under) : a.interface # new.interface,
           \A k, l \in DOMAIN under : under[k].interface = under[l].interface => k = l
    PROVE  \A k, l \in DOMAIN (<<new>> \o under) :
              (<<new>> \o under)[k].interface = (<<new>> \o under)[l].interface => k = l
<1> PICK s : s = <<new>> \o under
  OBVIOUS
<1>1. Len(under) \in Nat /\ DOMAIN under = 1 .. Len(under)
  BY LenProperties
<1>2. /\ s \in Seq(T) /\ Len(s) = Len(under) + 1 /\ DOMAIN s = 1 .. Len(under) + 1
      /\ s[1] = new /\ \A k \in 2 .. Len(under) + 1 : s[k] = under[k - 1]
  <2> PICK h : h = <<new>>
    OBVIOUS
  <2>1. h \in Seq(T) /\ Len(h) = 1 /\ h[1] = new
    OBVIOUS
  <2>2. /\ h \o under \in Seq(T) /\ Len(h \o under) = Len(h) + Len(under)
        /\ \A k \in 1 .. Len(h) + Len(under) :
              (h \o under)[k] = IF k <= Len(h) THEN h[k] ELSE under[k - Len(h)]
    BY <2>1, ConcatProperties
  <2>3. Len(s) = Len(under) + 1 /\ s \in Seq(T)
    BY <1>1, <2>1, <2>2
  <2> QED
    BY <1>1, <2>1, <2>2, <2>3, LenProperties
<1>3. \A k \in 2 .. Len(s) : s[k].interface # new.interface
  <2>1. ASSUME NEW k \in 2 .. Len(s) PROVE s[k].interface # new.interface
    <3>1. k - 1 \in 1 .. Len(under) /\ s[k] = under[k - 1]
      BY <1>1, <1>2
    <3>2. s[k] \in Range(under)
      BY <3>1, Elements
    <3> QED
      BY <3>2
  <2> QED
    BY <2>1
<1>4. ASSUME NEW k \in 1 .. Len(s), NEW l \in 1 .. Len(s), s[k].interface = s[l].interface
      PROVE  k = l
  <2>1. CASE k = 1 \/ l = 1
    BY <1>1, <1>2, <1>3, <1>4, <2>1
  <2>2. CASE k # 1 /\ l # 1
    <3>1. k - 1 \in DOMAIN under /\ l - 1 \in DOMAIN under /\ s[k] = under[k - 1] /\ s[l] = under[l - 1]
      BY <1>1, <1>2, <2>2
    <3>2. k - 1 = l - 1
      BY <1>4, <3>1
    <3> QED
      BY <1>1, <1>2, <3>2
  <2> QED
    BY <2>1, <2>2
<1> QED
  BY <1>2, <1>4

(* The announcement of interface i goes on behind function at, if it has   *)
(* not ended: the next function hears of it, and no other is passed over.  *)
LEMMA AnnounceStep ==
    ASSUME SmmTypes, RegistrationsLinked,
           NEW i \in Nat, NEW at \in Nat, NEW under \in Seq([interface : Nat, at : Nat]),
           Announce(i, at, under), i \in DOMAIN smmInterfaces',
           NEW p \in SmmProtocolIds, smmInterfaces'[i].protocol = p,
           at = 0 \/ at \in Range(notifyList[p]),
           \A a \in Range(under) : a.interface # i,
           \A k, l \in DOMAIN under : under[k].interface = under[l].interface => k = l,
           NEW un,
           AllHear({[interface |-> i, at |-> at]} \cup Range(under), smmInterfaces', notifyList, un, heard)
    PROVE  /\ heard' \in Seq(Seq(Nat)) /\ Len(heard') = Len(heard)
           /\ announcing' \in Seq([interface : Nat, at : Nat])
           /\ AllHear(Range(announcing'), smmInterfaces', notifyList, un, heard')
           /\ \A a \in Range(announcing') :
                 a \in Range(under) \/ (a.interface = i /\ a.at \in Range(notifyList[p]))
           /\ \A k, l \in DOMAIN announcing' : announcing'[k].interface = announcing'[l].interface => k = l
<1> PICK list : list = notifyList[p]
  OBVIOUS
<1> PICK next : next = FunctionAfter(list, at)
  OBVIOUS
<1> PICK old, new : old = [interface |-> i, at |-> at] /\ new = [interface |-> i, at |-> next]
  OBVIOUS
<1>1. /\ list \in Seq(Nat) /\ IsInjective(list) /\ Range(list) \subseteq DOMAIN registrations
      /\ DOMAIN registrations = 1 .. Len(heard) /\ DOMAIN heard = 1 .. Len(heard)
      /\ heard \in Seq(Seq(Nat)) /\ Len(heard) \in Nat
  BY LenProperties DEF SmmTypes, RegistrationsLinked
<1>2. 0 \notin Range(list)
  BY <1>1
<1>3. /\ next = 0 => \A r : ~Follows(list, at, r)
      /\ next # 0 =>
            /\ next \in Range(list)
            /\ \A r : Follows(list, at, r) <=> r = next \/ Follows(list, next, r)
            /\ ~Follows(list, next, next)
  BY <1>1, <1>2, NextFunction
<1>4. \A j, r : Awaits({old} \cup Range(under), smmInterfaces', notifyList, j, r) <=>
          \/ j = i /\ Follows(list, at, r)
          \/ Awaits(Range(under), smmInterfaces', notifyList, j, r)
  <2>1. old.interface = i /\ old.at = at
    OBVIOUS
  <2>2. ASSUME NEW j, NEW r
        PROVE  Awaits({old} \cup Range(under), smmInterfaces', notifyList, j, r) <=>
                  \/ j = i /\ Follows(list, at, r)
                  \/ Awaits(Range(under), smmInterfaces', notifyList, j, r)
    <3>1. Awaits({old} \cup Range(under), smmInterfaces', notifyList, j, r) <=>
             \/ old.interface = j /\ Follows(notifyList[smmInterfaces'[j].protocol], old.at, r)
             \/ Awaits(Range(under), smmInterfaces', notifyList, j, r)
      BY AwaitsOne
    <3>2. j = i => notifyList[smmInterfaces'[j].protocol] = list
      OBVIOUS
    <3> QED
      BY <2>1, <3>1, <3>2
  <2> QED
    BY <2>2
<1>5. \A r : ~Awaits(Range(under), smmInterfaces', notifyList, i, r)
  BY DEF Awaits
<1>6. \A q \in SmmProtocolIds : \A r \in Range(notifyList[q]) :
          /\ IsInjective(heard[r]) /\ Range(heard[r]) \subseteq DOMAIN smmInterfaces'
          /\ \A j \in Range(un[r]) :
                j \in Range(heard[r]) \/ Awaits({old} \cup Range(under), smmInterfaces', notifyList, j, r)
          /\ \A j \in Range(heard[r]) : ~Awaits({old} \cup Range(under), smmInterfaces', notifyList, j, r)
  BY DEF AllHear
<1>7. CASE next = 0
  <2>1. announcing' = under /\ heard' = heard
    BY <1>7 DEF Announce
  <2>2. \A j, r : Awaits({old} \cup Range(under), smmInterfaces', notifyList, j, r) <=>
            Awaits(Range(under), smmInterfaces', notifyList, j, r)
    BY <1>3, <1>4, <1>7
  <2>3. AllHear(Range(announcing'), smmInterfaces', notifyList, un, heard')
    BY <1>6, <2>1, <2>2 DEF AllHear
  <2> QED
    BY <1>1, <2>1, <2>3
<1>8. CASE next # 0
  <2>1. announcing' = <<new>> \o under /\ heard' = [heard EXCEPT ![next] = Append(@, i)]
    BY <1>8 DEF Announce
  <2>2. next \in Range(list) /\ next \in 1 .. Len(heard) /\ next \in Nat
    BY <1>1, <1>3, <1>8
  <2>3. new \in [interface : Nat, at : Nat] /\ new.interface = i /\ new.at = next
    BY <2>2
  <2> PICK T : T = [interface : Nat, at : Nat]
    OBVIOUS
  <2>4. under \in Seq(T) /\ new \in T
    BY <2>3
  <2>5. /\ announcing' \in Seq([interface : Nat, at : Nat])
        /\ Range(announcing') = {new} \cup Range(under)
    <3>1. <<new>> \o under \in Seq(T) /\ Range(<<new>> \o under) = Range(under) \cup {new}
      BY ONLY <2>4, PrependElements
    <3> QED
      BY <2>1, <3>1
  <2>6. Append(heard[next], i) \in Seq(Nat)
    BY <1>1, <2>2
  <2>7. /\ heard' \in Seq(Seq(Nat)) /\ Len(heard') = Len(heard)
        /\ heard'[next] = Append(heard[next], i)
        /\ \A r \in 1 .. Len(heard) : r # next => heard'[r] = heard[r]
    BY <1>1, <2>1, <2>2, <2>6, ExceptSeq
  <2>8. \A j, r : Awaits(Range(announcing'), smmInterfaces', notifyList, j, r) <=>
            \/ j = i /\ Follows(list, next, r)
            \/ Awaits(Range(under), smmInterfaces', notifyList, j, r)
    <3>1. ASSUME NEW j, NEW r
          PROVE  Awaits({new} \cup Range(under), smmInterfaces', notifyList, j, r) <=>
                    \/ j = i /\ Follows(list, next, r)
                    \/ Awaits(Range(under), smmInterfaces', notifyList, j, r)
      <4>1. Awaits({new} \cup Range(under), smmInterfaces', notifyList, j, r) <=>
               \/ new.interface = j /\ Follows(notifyList[smmInterfaces'[j].protocol], new.at, r)
               \/ Awaits(Range(under), smmInterfaces', notifyList, j, r)
        BY AwaitsOne
      <4>2. j = i => notifyList[smmInterfaces'[j].protocol] = list
        OBVIOUS
      <4> QED
        BY <2>3, <4>1, <4>2
    <3> QED
      BY <2>5, <3>1
  <2>9. ASSUME NEW q \in SmmProtocolIds, NEW r \in Range(notifyList[q])
        PROVE  /\ IsInjective(heard'[r]) /\ Range(heard'[r]) \subseteq DOMAIN smmInterfaces'
               /\ \A j \in Range(un[r]) :
                     j \in Range(heard'[r]) \/ Awaits(Range(announcing'), smmInterfaces', notifyList, j, r)
               /\ \A j \in Range(heard'[r]) :
                     ~Awaits(Range(announcing'), smmInterfaces', notifyList, j, r)
    <3>1. r \in 1 .. Len(heard)
      BY <1>1 DEF RegistrationsLinked
    <3>2. CASE r # next
      <4>1. heard'[r] = heard[r]
        BY <2>7, <3>1, <3>2
      <4>2. Follows(list, at, r) <=> Follows(list, next, r)
        BY <1>3, <1>8, <3>2
      <4> QED
        BY <1>4, <1>6, <2>8, <4>1, <4>2
    <3>3. CASE r = next
      <4>1. Follows(list, at, r) /\ ~Follows(list, next, r)
        BY <1>3, <1>8, <3>3
      <4>2. Awaits({old} \cup Range(under), smmInterfaces', notifyList, i, r)
        BY <1>4, <4>1
      <4>3. i \notin Range(heard[r])
        BY <1>6, <4>2
      <4>4. heard[r] \in Seq(Nat) /\ IsInjective(heard[r])
        BY <1>1, <1>6, <3>1
      <4>5. IsInjective(heard'[r]) /\ Range(heard'[r]) = Range(heard[r]) \cup {i}
        <5>1. i \in Nat
          OBVIOUS
        <5>2. /\ Range(Append(heard[r], i)) = Range(heard[r]) \cup {i}
              /\ IsInjective(Append(heard[r], i))
          BY <4>3, <4>4, <5>1, AppendElements
        <5> QED
          BY <2>7, <3>3, <5>2
      <4>6. Range(heard'[r]) \subseteq DOMAIN smmInterfaces'
        BY <1>6, <4>5
      <4>7. ASSUME NEW j \in Range(un[r])
            PROVE  j \in Range(heard'[r]) \/ Awaits(Range(announcing'), smmInterfaces', notifyList, j, r)
        BY <1>4, <1>6, <2>8, <4>5
      <4>8. ASSUME NEW j \in Range(heard'[r])
            PROVE  ~Awaits(Range(announcing'), smmInterfaces', notifyList, j, r)
        <5>1. CASE j = i
          BY <1>5, <2>8, <4>1, <5>1
        <5>2. CASE j # i
          <6>1. j \in Range(heard[r])
            BY <4>5, <4>8, <5>2
          <6>2. ~Awaits({old} \cup Range(under), smmInterfaces', notifyList, j, r)
            BY <1>6, <6>1
          <6> QED
            BY <1>4, <2>8, <5>2, <6>2
        <5> QED
          BY <5>1, <5>2
      <4> QED
        BY <4>5, <4>6, <4>7, <4>8
    <3> QED
      BY <3>2, <3>3
  <2>10. AllHear(Range(announcing'), smmInterfaces', notifyList, un, heard')
    BY <2>9 DEF AllHear
  <2>11. \A k, l \in DOMAIN announcing' : announcing'[k].interface = announcing'[l].interface => k = l
    <3>1. \A a \in Range(under) : a.interface # new.interface
      BY <2>3
    <3>2. \A k, l \in DOMAIN (<<new>> \o under) :
             (<<new>> \o under)[k].interface = (<<new>> \o under)[l].interface => k = l
      <4>1. \A k, l \in DOMAIN under : under[k].interface = under[l].interface => k = l
        OBVIOUS
      <4> QED
        BY ONLY <2>4, <3>1, <4>1, UniqueOnTop
    <3> QED
      BY <2>1, <3>2
  <2> QED
    BY <2>2, <2>3, <2>5, <2>7, <2>10, <2>11
<1> QED
  BY <1>7, <1>8

LEMMA InterfaceIs ==
    ASSUME SmmTypes, NEW i \in DOMAIN smmInterfaces
    PROVE  /\ i \in Nat /\ smmInterfaces[i].handle \in Nat
           /\ smmInterfaces[i].protocol \in SmmProtocolIds
<1>1. PICK R : R = [handle : Nat, protocol : SmmProtocolIds]
  OBVIOUS
<1>2. smmInterfaces \in Seq(R)
  BY <1>1 DEF SmmTypes
<1>3. i \in 1 .. Len(smmInterfaces) /\ Len(smmInterfaces) \in Nat
  BY ONLY <1>2, i \in DOMAIN smmInterfaces, LenProperties
<1>4. smmInterfaces[i] \in R
  BY ONLY <1>2, <1>3, ElementOfSeq
<1> QED
  BY <1>1, <1>3, <1>4

(* A notify function returns to the announcement it was called from.       *)
LEMMA ReturnStep ==
    ASSUME SmmInv, NotifyFunctionReturns
    PROVE  SmmInv'
<1> USE DEF SmmInv
<1>1. PICK T : T = [interface : Nat, at : Nat]
  OBVIOUS
<1>2. PICK top, under : top = Head(announcing) /\ under = Tail(announcing)
  OBVIOUS
<1>3. PICK i, at : i = top.interface /\ at = top.at
  OBVIOUS
<1>4. /\ announcing # <<>> /\ announcing \in Seq(T)
      /\ UNCHANGED <<gSmmHandleList, smmInterfaces, byHandle, byProtocol, notifyList, registrations, unseen>>
      /\ Announce(i, at, under)
  <2>1. announcing \in Seq(T)
    BY <1>1 DEF SmmTypes
  <2> QED
    BY <1>2, <1>3, <2>1 DEF NotifyFunctionReturns, handleVars
<1>5. Len(announcing) \in Nat /\ DOMAIN announcing = 1 .. Len(announcing) /\ 1 \in 1 .. Len(announcing)
  BY <1>4, EmptySeq, LenProperties
<1>6. /\ top \in T /\ top = announcing[1] /\ under \in Seq(T) /\ Len(under) = Len(announcing) - 1
      /\ \A k \in 1 .. Len(announcing) - 1 : under[k] = announcing[k + 1]
  BY ONLY <1>2, <1>4, <1>5, HeadTailProperties
<1>7. \A k, l \in DOMAIN announcing : announcing[k].interface = announcing[l].interface => k = l
  BY DEF AnnouncementsFit
<1>8. /\ \A a : a \in Range(announcing) <=> \E k \in 1 .. Len(announcing) : announcing[k] = a
      /\ \A a : a \in Range(under) <=> \E k \in 1 .. Len(announcing) - 1 : announcing[k + 1] = a
  <2>1. \A a : a \in Range(under) <=> \E k \in 1 .. Len(under) : under[k] = a
    BY ONLY <1>6, Elements
  <2>2. \A a : a \in Range(announcing) <=> \E k \in 1 .. Len(announcing) : announcing[k] = a
    BY <1>4, Elements
  <2> QED
    BY <1>6, <2>1, <2>2
<1>9. Range(announcing) = {top} \cup Range(under)
  <2>1. \A k \in 1 .. Len(announcing) : k = 1 \/ (k - 1 \in 1 .. Len(announcing) - 1 /\ (k - 1) + 1 = k)
    BY <1>5
  <2>2. ASSUME NEW a \in Range(announcing) PROVE a = top \/ a \in Range(under)
    BY <1>6, <1>8, <2>1
  <2>3. top \in Range(announcing) /\ Range(under) \subseteq Range(announcing)
    <3>1. \A k \in 1 .. Len(announcing) - 1 : k + 1 \in 1 .. Len(announcing)
      BY <1>5
    <3> QED
      BY <1>5, <1>6, <1>8, <3>1
  <2> QED
    BY <2>2, <2>3
<1>10. \A a \in Range(under) : a.interface # i
  <2>1. ASSUME NEW k \in 1 .. Len(announcing) - 1 PROVE announcing[k + 1].interface # announcing[1].interface
    <3>1. k + 1 \in DOMAIN announcing /\ 1 \in DOMAIN announcing /\ k + 1 # 1
      BY <1>5
    <3> QED
      BY <1>7, <3>1
  <2> QED
    BY <1>6, <1>8, <1>3, <2>1
<1>11. \A k, l \in DOMAIN under : under[k].interface = under[l].interface => k = l
  <2>1. DOMAIN under = 1 .. Len(announcing) - 1
    BY <1>6, LenProperties
  <2>2. ASSUME NEW k \in DOMAIN under, NEW l \in DOMAIN under, under[k].interface = under[l].interface
        PROVE  k = l
    <3>1. k + 1 \in DOMAIN announcing /\ l + 1 \in DOMAIN announcing
      BY <1>5, <2>1
    <3>2. under[k] = announcing[k + 1] /\ under[l] = announcing[l + 1]
      BY <1>6, <2>1
    <3>3. k + 1 = l + 1
      BY <1>7, <2>2, <3>1, <3>2
    <3> QED
      BY <1>5, <2>1, <3>3
  <2> QED
    BY <2>2
<1>12. PICK p : p = smmInterfaces[i].protocol
  OBVIOUS
<1>13. /\ i \in Nat /\ at \in Nat /\ i \in DOMAIN smmInterfaces' /\ p \in SmmProtocolIds
      /\ smmInterfaces'[i].protocol = p /\ at \in Range(notifyList[p])
      /\ top = [interface |-> i, at |-> at]
  <2>1. i \in Installed /\ at \in Range(notifyList[p])
    BY <1>9, <1>3, <1>12 DEF AnnouncementsFit
  <2>2. i \in DOMAIN smmInterfaces
    BY <2>1 DEF Installed
  <2>3. smmInterfaces[i].protocol \in SmmProtocolIds
    BY <1>12, <2>2, InterfaceIs
  <2> QED
    BY <1>4, <1>6, <1>1, <1>3, <1>12, <2>1, <2>2, <2>3
<1>14. AllHear({[interface |-> i, at |-> at]} \cup Range(under), smmInterfaces', notifyList, unseen, heard)
  BY <1>4, <1>9, <1>13
<1>15. /\ heard' \in Seq(Seq(Nat)) /\ Len(heard') = Len(heard)
       /\ announcing' \in Seq([interface : Nat, at : Nat])
       /\ AllHear(Range(announcing'), smmInterfaces', notifyList, unseen, heard')
       /\ \A a \in Range(announcing') :
             a \in Range(under) \/ (a.interface = i /\ a.at \in Range(notifyList[p]))
       /\ \A k, l \in DOMAIN announcing' : announcing'[k].interface = announcing'[l].interface => k = l
  <2>1. under \in Seq([interface : Nat, at : Nat])
    BY <1>6, <1>1
  <2>2. SmmTypes /\ RegistrationsLinked
    OBVIOUS
  <2> HIDE DEF SmmInv
  <2> QED
    BY ONLY <1>4, <1>10, <1>11, <1>13, <1>14, <2>1, <2>2, AnnounceStep
<1>16. AnnouncementsFit'
  <2>1. ASSUME NEW a \in Range(announcing')
        PROVE  a.interface \in Installed' /\ a.at \in Range(notifyList'[smmInterfaces'[a.interface].protocol])
    <3>1. CASE a \in Range(under)
      BY <1>4, <1>9, <3>1 DEF AnnouncementsFit, Installed
    <3>2. CASE a.interface = i /\ a.at \in Range(notifyList[p])
      <4>1. i \in Installed
        BY <1>9, <1>3 DEF AnnouncementsFit
      <4> QED
        BY <1>4, <1>12, <3>2, <4>1 DEF Installed
    <3> QED
      BY <1>15, <3>1, <3>2
  <2> QED
    BY <1>15, <2>1 DEF AnnouncementsFit
<1>17. SmmTypes'
  BY <1>4, <1>15 DEF SmmTypes
<1>18. HandlesLinked' /\ ProtocolsLinked' /\ RegistrationsLinked'
  BY <1>4 DEF HandlesLinked, ProtocolsLinked, RegistrationsLinked, Installed
<1>19. AllHear(Range(announcing'), smmInterfaces', notifyList', unseen', heard')
  BY <1>4, <1>15
<1> QED
  BY <1>16, <1>17, <1>18, <1>19

(* Lists of names. *)
LEMMA Names ==
    ASSUME SmmTypes
    PROVE  /\ \A h \in DOMAIN byHandle : byHandle[h] \in Seq(Nat) /\ h \in Nat
           /\ \A r \in DOMAIN registrations : heard[r] \in Seq(Nat) /\ unseen[r] \in Seq(Nat) /\ r \in Nat
           /\ Len(byHandle) \in Nat /\ DOMAIN byHandle = 1 .. Len(byHandle)
           /\ Len(registrations) \in Nat /\ DOMAIN registrations = 1 .. Len(registrations)
           /\ DOMAIN heard = 1 .. Len(registrations) /\ DOMAIN unseen = 1 .. Len(registrations)
           /\ Len(smmInterfaces) \in Nat /\ DOMAIN smmInterfaces = 1 .. Len(smmInterfaces)
<1>1. /\ byHandle \in Seq(Seq(Nat)) /\ heard \in Seq(Seq(Nat)) /\ unseen \in Seq(Seq(Nat))
      /\ Len(heard) = Len(registrations) /\ Len(unseen) = Len(registrations)
  BY DEF SmmTypes
<1>2. /\ Len(byHandle) \in Nat /\ DOMAIN byHandle = 1 .. Len(byHandle)
      /\ Len(heard) \in Nat /\ DOMAIN heard = 1 .. Len(heard)
      /\ Len(unseen) \in Nat /\ DOMAIN unseen = 1 .. Len(unseen)
  BY <1>1, LenProperties
<1>3. Len(smmInterfaces) \in Nat /\ DOMAIN smmInterfaces = 1 .. Len(smmInterfaces)
  BY LenProperties DEF SmmTypes
<1>4. Len(registrations) \in Nat /\ DOMAIN registrations = 1 .. Len(registrations)
  BY LenProperties DEF SmmTypes
<1> QED
  BY <1>1, <1>2, <1>3, <1>4, ElementOfSeq

(* What a registration lists and waits for are interfaces of its protocol. *)
LEMMA Registered ==
    ASSUME SmmTypes, ProtocolsLinked, RegistrationsLinked,
           NEW p \in SmmProtocolIds, NEW r \in Range(notifyList[p])
    PROVE  /\ r \in DOMAIN registrations
           /\ byProtocol[p] \in Seq(Nat) /\ Distinct(byProtocol[p])
           /\ unseen[r] = Behind(byProtocol[p], registrations[r].Position)
           /\ unseen[r] \in Seq(Nat) /\ IsInjective(unseen[r])
           /\ Range(unseen[r]) \subseteq Range(byProtocol[p])
           /\ registrations[r].Position = ListHead \/ registrations[r].Position \in Range(byProtocol[p])
           /\ ListHead \notin Range(byProtocol[p])
<1>1. /\ r \in DOMAIN registrations
      /\ unseen[r] = Behind(byProtocol[p], registrations[r].Position)
      /\ registrations[r].Position = ListHead \/ registrations[r].Position \in Range(byProtocol[p])
  BY DEF RegistrationsLinked
<1>2. byProtocol[p] \in Seq(Nat)
  BY DEF SmmTypes
<1>3. IsInjective(byProtocol[p])
  BY DEF ProtocolsLinked
<1>4. Distinct(byProtocol[p]) /\ Range(byProtocol[p]) \subseteq Nat
      /\ \A x : x \in Range(byProtocol[p]) <=> \E i \in 1 .. Len(byProtocol[p]) : byProtocol[p][i] = x
  BY <1>2, <1>3, Elements
<1>5. /\ unseen[r] \in Seq(Nat) /\ Distinct(unseen[r])
      /\ \A i \in 1 .. Len(unseen[r]) : \E j \in 1 .. Len(byProtocol[p]) : unseen[r][i] = byProtocol[p][j]
  <2>1. PICK s, at : s = byProtocol[p] /\ at = registrations[r].Position
    OBVIOUS
  <2>2. s \in Seq(Nat) /\ Distinct(s)
    BY <1>2, <1>4, <2>1
  <2>3. /\ Behind(s, at) \in Seq(Nat) /\ Distinct(Behind(s, at))
        /\ \A i \in 1 .. Len(Behind(s, at)) : \E j \in 1 .. Len(s) : Behind(s, at)[i] = s[j]
    BY ONLY <2>2, BehindElements
  <2> QED
    BY <1>1, <2>1, <2>3
<1>6. IsInjective(unseen[r]) /\ (\A x : x \in Range(unseen[r]) <=> \E i \in 1 .. Len(unseen[r]) : unseen[r][i] = x)
  BY <1>5, Elements
<1>7. Range(unseen[r]) \subseteq Range(byProtocol[p])
  BY <1>4, <1>5, <1>6
<1> QED
  BY <1>1, <1>2, <1>4, <1>5, <1>6, <1>7, SmmAssumption

(* A new announcement, or a new interface, leaves the others as they are.  *)
LEMMA AwaitsSame ==
    ASSUME NEW A, NEW interfaces, NEW others, NEW lists, NEW news, NEW r,
           \A a \in A : Follows(news[others[a.interface].protocol], a.at, r) <=>
                        Follows(lists[interfaces[a.interface].protocol], a.at, r)
    PROVE  \A i : Awaits(A, others, news, i, r) <=> Awaits(A, interfaces, lists, i, r)
BY DEF Awaits

(* The lists that the new interface i of protocol p on handle h is put on. *)
LEMMA InstallLists ==
    ASSUME SmmTypes, HandlesLinked, ProtocolsLinked,
           NEW p \in SmmProtocolIds, NEW h \in 1 .. Len(byHandle) + 1,
           NEW i, i = Len(smmInterfaces) + 1,
           h = Len(byHandle) + 1 \/ (ValidHandle(h) /\ InterfacesOf(h, p) = {}),
           gSmmHandleList' = IF h = Len(byHandle) + 1 THEN Append(gSmmHandleList, h) ELSE gSmmHandleList,
           smmInterfaces' = Append(smmInterfaces, [handle |-> h, protocol |-> p]),
           byHandle' = IF h = Len(byHandle) + 1 THEN Append(byHandle, <<i>>)
                       ELSE [byHandle EXCEPT ![h] = <<i>> \o @],
           byProtocol' = [byProtocol EXCEPT ![p] = Append(@, i)]
    PROVE  /\ smmInterfaces' \in Seq([handle : Nat, protocol : SmmProtocolIds])
           /\ DOMAIN smmInterfaces' = DOMAIN smmInterfaces \cup {i} /\ i \in Nat
           /\ i \notin DOMAIN smmInterfaces /\ smmInterfaces'[i] = [handle |-> h, protocol |-> p]
           /\ \A j \in DOMAIN smmInterfaces : smmInterfaces'[j] = smmInterfaces[j]
           /\ gSmmHandleList' \in Seq(Nat) /\ byHandle' \in Seq(Seq(Nat))
           /\ byProtocol' \in [SmmProtocolIds -> Seq(Nat)]
           /\ Installed' = Installed \cup {i}
           /\ HandlesLinked' /\ ProtocolsLinked'
<1> PICK R, new : R = [handle : Nat, protocol : SmmProtocolIds] /\ new = [handle |-> h, protocol |-> p]
  OBVIOUS
<1>1. /\ \A g \in DOMAIN byHandle : byHandle[g] \in Seq(Nat) /\ g \in Nat
      /\ Len(byHandle) \in Nat /\ DOMAIN byHandle = 1 .. Len(byHandle)
      /\ Len(smmInterfaces) \in Nat /\ DOMAIN smmInterfaces = 1 .. Len(smmInterfaces)
  BY Names
<1>2. new \in R /\ h \in Nat /\ new.handle = h /\ new.protocol = p
  BY <1>1
<1>3. smmInterfaces \in Seq(R) /\ smmInterfaces' = Append(smmInterfaces, new)
  BY DEF SmmTypes
<1>4. /\ smmInterfaces' \in Seq(R) /\ DOMAIN smmInterfaces' = 1 .. Len(smmInterfaces) + 1
      /\ smmInterfaces'[Len(smmInterfaces) + 1] = new
      /\ \A j \in 1 .. Len(smmInterfaces) : smmInterfaces'[j] = smmInterfaces[j]
  <2> PICK s, t : s = smmInterfaces /\ t = Append(s, new)
    OBVIOUS
  <2>1. t \in Seq(R) /\ Len(t) = Len(s) + 1 /\ t[Len(s) + 1] = new /\ \A j \in 1 .. Len(s) : t[j] = s[j]
    BY <1>2, <1>3, AppendProperties
  <2>2. DOMAIN t = 1 .. Len(t)
    BY <2>1, LenProperties
  <2> QED
    BY <1>3, <2>1, <2>2
<1>5. /\ DOMAIN smmInterfaces' = DOMAIN smmInterfaces \cup {i} /\ i \in Nat /\ i \notin DOMAIN smmInterfaces
      /\ smmInterfaces'[i] = new
      /\ \A j \in DOMAIN smmInterfaces : smmInterfaces'[j] = smmInterfaces[j]
  BY <1>1, <1>4
<1>6. /\ byHandle' \in Seq(Seq(Nat)) /\ DOMAIN byHandle' = DOMAIN byHandle \cup {h} /\ h \in DOMAIN byHandle'
      /\ \A g \in DOMAIN byHandle : g # h => byHandle'[g] = byHandle[g]
      /\ IsInjective(byHandle'[h])
      /\ Range(byHandle'[h]) = {i} \cup (IF h \in DOMAIN byHandle THEN Range(byHandle[h]) ELSE {})
  <2>1. byHandle \in Seq(Seq(Nat))
    BY DEF SmmTypes
  <2>2. CASE h = Len(byHandle) + 1
    <3> PICK one : one = <<i>>
      OBVIOUS
    <3>1. one \in Seq(Nat) /\ IsInjective(one) /\ Range(one) = {i}
      BY <1>5 DEF IsInjective, Range
    <3>2. byHandle' = Append(byHandle, one)
      BY <2>2
    <3> PICK s, t : s = byHandle /\ t = Append(s, one)
      OBVIOUS
    <3>3. t \in Seq(Seq(Nat)) /\ Len(t) = Len(s) + 1 /\ t[Len(s) + 1] = one
          /\ \A j \in 1 .. Len(s) : t[j] = s[j]
      BY <2>1, <3>1, AppendProperties
    <3>4. DOMAIN t = 1 .. Len(t)
      BY <3>3, LenProperties
    <3>5. h \notin DOMAIN byHandle
      BY <1>1, <2>2
    <3>6. byHandle' \in Seq(Seq(Nat)) /\ byHandle'[h] = one
      BY <2>2, <3>2, <3>3
    <3>7. DOMAIN byHandle' = DOMAIN byHandle \cup {h} /\ h \in DOMAIN byHandle'
      BY <1>1, <2>2, <3>2, <3>3, <3>4
    <3>8. \A g \in DOMAIN byHandle : byHandle'[g] = byHandle[g]
      BY <1>1, <3>2, <3>3
    <3> QED
      BY <3>1, <3>5, <3>6, <3>7, <3>8
  <2>3. CASE h # Len(byHandle) + 1
    <3>1. h \in 1 .. Len(byHandle) /\ byHandle' = [byHandle EXCEPT ![h] = <<i>> \o byHandle[h]]
      BY <1>1, <2>3
    <3>2. byHandle[h] \in Seq(Nat) /\ IsInjective(byHandle[h]) /\ i \notin Range(byHandle[h])
      BY <1>1, <1>5, <3>1 DEF HandlesLinked
    <3> PICK s : s = byHandle[h]
      OBVIOUS
    <3>3. <<i>> \o s \in Seq(Nat) /\ Range(<<i>> \o s) = Range(s) \cup {i} /\ IsInjective(<<i>> \o s)
      BY <1>5, <3>2, PrependElements
    <3>4. byHandle' \in Seq(Seq(Nat)) /\ DOMAIN byHandle' = DOMAIN byHandle
          /\ byHandle'[h] = <<i>> \o s /\ \A g \in 1 .. Len(byHandle) : g # h => byHandle'[g] = byHandle[g]
      BY <2>1, <3>1, <3>3, ExceptSeq
    <3> QED
      BY <1>1, <3>1, <3>3, <3>4
  <2> QED
    BY <2>2, <2>3
<1>7. Installed' = Installed \cup {i}
  <2>1. i \in Installed'
    BY <1>2, <1>5, <1>6 DEF Installed
  <2>2. ASSUME NEW j \in DOMAIN smmInterfaces
        PROVE  j \in Installed' <=> j \in Installed
    <3>1. smmInterfaces[j].handle \in DOMAIN byHandle /\ j # i
      BY <1>5 DEF HandlesLinked
    <3>2. j \in Range(byHandle'[smmInterfaces[j].handle]) <=> j \in Range(byHandle[smmInterfaces[j].handle])
      BY <1>6, <3>1
    <3> QED
      BY <1>5, <3>2 DEF Installed
  <2>3. Installed \subseteq DOMAIN smmInterfaces /\ Installed' \subseteq DOMAIN smmInterfaces'
    BY DEF Installed
  <2> QED
    BY <1>5, <2>1, <2>2, <2>3
<1>8. gSmmHandleList' \in Seq(Nat) /\ HandlesLinked'
  <2>1. /\ gSmmHandleList \in Seq(Nat) /\ IsInjective(gSmmHandleList)
        /\ Range(gSmmHandleList) = {g \in DOMAIN byHandle : byHandle[g] # <<>>}
    BY DEF SmmTypes, HandlesLinked
  <2>2. byHandle'[h] # <<>>
    <3>1. byHandle'[h] \in Seq(Nat)
      BY <1>6, ElementOfSeq, LenProperties
    <3> QED
      BY <1>6, <3>1, NoElements
  <2>3. /\ gSmmHandleList' \in Seq(Nat) /\ IsInjective(gSmmHandleList')
        /\ Range(gSmmHandleList') = Range(gSmmHandleList) \cup {h}
    <3>1. CASE h = Len(byHandle) + 1
      <4>1. h \notin Range(gSmmHandleList)
        BY <1>1, <2>1, <3>1
      <4> PICK s : s = gSmmHandleList
        OBVIOUS
      <4>2. Append(s, h) \in Seq(Nat) /\ Range(Append(s, h)) = Range(s) \cup {h} /\ IsInjective(Append(s, h))
        BY <1>2, <2>1, <4>1, AppendElements
      <4> QED
        BY <3>1, <4>2
    <3>2. CASE h # Len(byHandle) + 1
      <4>1. Contains(gSmmHandleList, h)
        BY <3>2 DEF ValidHandle
      <4>2. h \in Range(gSmmHandleList)
        BY <2>1, <4>1, Elements DEF Contains
      <4> QED
        BY <2>1, <3>2, <4>2
    <3> QED
      BY <3>1, <3>2
  <2>4. Range(gSmmHandleList') = {g \in DOMAIN byHandle' : byHandle'[g] # <<>>}
    BY <1>6, <2>1, <2>2, <2>3
  <2>5. ASSUME NEW j \in DOMAIN smmInterfaces' PROVE smmInterfaces'[j].handle \in DOMAIN byHandle'
    BY <1>2, <1>5, <1>6, <2>5 DEF HandlesLinked
  <2>6. ASSUME NEW g \in DOMAIN byHandle'
        PROVE  IsInjective(byHandle'[g]) /\ Range(byHandle'[g]) \subseteq
                  {j \in DOMAIN smmInterfaces' : smmInterfaces'[j].handle = g}
    <3>1. CASE g # h
      <4>1. g \in DOMAIN byHandle /\ byHandle'[g] = byHandle[g]
        BY <1>6, <3>1
      <4> QED
        BY <1>5, <4>1 DEF HandlesLinked
    <3>2. CASE g = h
      <4>1. h \in DOMAIN byHandle => Range(byHandle[h]) \subseteq {j \in DOMAIN smmInterfaces : smmInterfaces[j].handle = h}
        BY DEF HandlesLinked
      <4>2. smmInterfaces'[i].handle = h
        BY <1>2, <1>5
      <4>3. ASSUME NEW j \in Range(byHandle'[h])
            PROVE  j \in DOMAIN smmInterfaces' /\ smmInterfaces'[j].handle = h
        <5>1. j = i \/ (j \in DOMAIN smmInterfaces /\ smmInterfaces[j].handle = h)
          BY <1>6, <4>1, <4>3
        <5> QED
          BY <1>5, <4>2, <5>1
      <4> QED
        BY <1>6, <3>2, <4>3
    <3> QED
      BY <3>1, <3>2
  <2> QED
    BY <2>3, <2>4, <2>5, <2>6 DEF HandlesLinked
<1>9. byProtocol' \in [SmmProtocolIds -> Seq(Nat)] /\ ProtocolsLinked'
  <2>1. /\ byProtocol \in [SmmProtocolIds -> Seq(Nat)] /\ byProtocol[p] \in Seq(Nat)
        /\ IsInjective(byProtocol[p]) /\ i \notin Range(byProtocol[p])
    BY <1>5 DEF SmmTypes, ProtocolsLinked, Installed
  <2>2. PICK s : s = byProtocol[p]
    OBVIOUS
  <2>3. Append(s, i) \in Seq(Nat) /\ Range(Append(s, i)) = Range(s) \cup {i} /\ IsInjective(Append(s, i))
    BY <1>5, <2>1, <2>2, AppendElements
  <2>4. /\ byProtocol' \in [SmmProtocolIds -> Seq(Nat)] /\ byProtocol'[p] = Append(s, i)
        /\ \A q \in SmmProtocolIds : q # p => byProtocol'[q] = byProtocol[q]
    BY <2>1, <2>2, <2>3
  <2>5. ASSUME NEW q \in SmmProtocolIds
        PROVE  /\ IsInjective(byProtocol'[q])
               /\ Range(byProtocol'[q]) = {j \in Installed' : smmInterfaces'[j].protocol = q}
    <3>1. /\ IsInjective(byProtocol[q])
          /\ Range(byProtocol[q]) = {j \in Installed : smmInterfaces[j].protocol = q}
          /\ Installed \subseteq DOMAIN smmInterfaces
      BY DEF ProtocolsLinked, Installed
    <3>2. CASE q = p
      BY <1>2, <1>5, <1>7, <2>2, <2>3, <2>4, <3>1, <3>2
    <3>3. CASE q # p
      BY <1>2, <1>5, <1>7, <2>4, <3>1, <3>3
    <3> QED
      BY <3>2, <3>3
  <2>6. ASSUME NEW j \in Installed PROVE smmInterfaces[j] # new
    <3> SUFFICES ASSUME smmInterfaces[j] = new PROVE FALSE
      OBVIOUS
    <3>1. j \in DOMAIN smmInterfaces /\ j \in Range(byHandle[h]) /\ smmInterfaces[j].protocol = p
      BY <1>2 DEF Installed
    <3>2. h \in DOMAIN byHandle
      BY <1>2, <3>1 DEF HandlesLinked
    <3>3. j \in InterfacesOf(h, p)
      BY <3>1 DEF InterfacesOf
    <3> QED
      BY <1>1, <3>2, <3>3
  <2>7. ASSUME NEW j \in Installed', NEW k \in Installed', smmInterfaces'[j] = smmInterfaces'[k] PROVE j = k
    <3>1. Installed \subseteq DOMAIN smmInterfaces
      BY DEF Installed
    <3> QED
      BY <1>5, <1>7, <2>6, <2>7, <3>1 DEF ProtocolsLinked
  <2> QED
    BY <2>4, <2>5, <2>7 DEF ProtocolsLinked
<1> QED
  BY <1>4, <1>5, <1>6, <1>7, <1>8, <1>9

(* A registration is told of the new interface, and finds it last.         *)
LEMMA InstallStep ==
    ASSUME SmmInv, SmmInstallProtocolInterface
    PROVE  SmmInv'
<1>1. PICK p \in SmmProtocolIds, h \in 1 .. Len(byHandle) + 1 :
         LET i == Len(smmInterfaces) + 1
             new == h = Len(byHandle) + 1
         IN  /\ new \/ (ValidHandle(h) /\ InterfacesOf(h, p) = {})
             /\ gSmmHandleList' = IF new THEN Append(gSmmHandleList, h) ELSE gSmmHandleList
             /\ smmInterfaces' = Append(smmInterfaces, [handle |-> h, protocol |-> p])
             /\ byHandle' = IF new THEN Append(byHandle, <<i>>) ELSE [byHandle EXCEPT ![h] = <<i>> \o @]
             /\ byProtocol' = [byProtocol EXCEPT ![p] = Append(@, i)]
             /\ Announce(i, 0, announcing)
             /\ unseen' = [r \in DOMAIN unseen |->
                             IF Contains(notifyList[p], r) THEN Append(unseen[r], i) ELSE unseen[r]]
             /\ UNCHANGED <<notifyList, registrations, locates>>
  BY DEF SmmInstallProtocolInterface
<1>2. PICK i : i = Len(smmInterfaces) + 1
  OBVIOUS
<1>3. /\ SmmTypes /\ HandlesLinked /\ ProtocolsLinked /\ RegistrationsLinked /\ AnnouncementsFit
      /\ AllHear(Range(announcing), smmInterfaces, notifyList, unseen, heard)
  BY DEF SmmInv
<1>4. /\ smmInterfaces' \in Seq([handle : Nat, protocol : SmmProtocolIds])
      /\ DOMAIN smmInterfaces' = DOMAIN smmInterfaces \cup {i} /\ i \in Nat
      /\ i \notin DOMAIN smmInterfaces /\ smmInterfaces'[i] = [handle |-> h, protocol |-> p]
      /\ \A j \in DOMAIN smmInterfaces : smmInterfaces'[j] = smmInterfaces[j]
      /\ gSmmHandleList' \in Seq(Nat) /\ byHandle' \in Seq(Seq(Nat))
      /\ byProtocol' \in [SmmProtocolIds -> Seq(Nat)]
      /\ Installed' = Installed \cup {i}
      /\ HandlesLinked' /\ ProtocolsLinked'
  BY <1>1, <1>2, <1>3, InstallLists
<1>5. /\ notifyList' = notifyList /\ registrations' = registrations /\ Announce(i, 0, announcing)
      /\ unseen' = [r \in DOMAIN unseen |->
                      IF Contains(notifyList[p], r) THEN Append(unseen[r], i) ELSE unseen[r]]
      /\ byProtocol' = [byProtocol EXCEPT ![p] = Append(@, i)]
  BY <1>1, <1>2
<1>6. \A r : Contains(notifyList[p], r) <=> r \in Range(notifyList[p])
  <2>1. notifyList[p] \in Seq(Nat)
    BY <1>3 DEF SmmTypes
  <2> QED
    BY <2>1, Elements DEF Contains
<1>7. /\ \A r \in DOMAIN registrations : heard[r] \in Seq(Nat) /\ unseen[r] \in Seq(Nat) /\ r \in Nat
      /\ Len(registrations) \in Nat /\ DOMAIN registrations = 1 .. Len(registrations)
      /\ DOMAIN unseen = 1 .. Len(registrations)
  BY <1>3, Names
<1>8. /\ DOMAIN unseen' = 1 .. Len(registrations)
      /\ \A r \in 1 .. Len(registrations) : unseen'[r] \in Seq(Nat)
      /\ unseen' \in Seq(Seq(Nat)) /\ Len(unseen') = Len(registrations')
  <2>1. ASSUME NEW r \in 1 .. Len(registrations) PROVE unseen'[r] \in Seq(Nat)
    <3>1. unseen[r] \in Seq(Nat)
      BY <1>7
    <3>2. Append(unseen[r], i) \in Seq(Nat)
      BY <1>4, <3>1, AppendProperties
    <3> QED
      BY <1>5, <1>7, <3>1, <3>2
  <2>2. DOMAIN unseen' = 1 .. Len(registrations)
    BY <1>5, <1>7
  <2>3. unseen' = [r \in 1 .. Len(registrations) |-> unseen'[r]]
    BY <1>5, <1>7
  <2>4. unseen' \in Seq(Seq(Nat))
    BY <1>7, <2>1, <2>3
  <2>5. Len(unseen') = Len(registrations)
    BY <1>7, <2>2, <2>4, LenProperties
  <2> QED
    BY <1>5, <2>1, <2>2, <2>4, <2>5
<1>9. ASSUME NEW q \in SmmProtocolIds, NEW r \in Range(notifyList[q])
      PROVE  /\ r \in DOMAIN registrations /\ unseen[r] \in Seq(Nat)
             /\ q = p <=> r \in Range(notifyList[p])
             /\ q = p => unseen'[r] = Append(unseen[r], i)
             /\ q # p => unseen'[r] = unseen[r]
  <2>1. r \in DOMAIN registrations /\ (q = p <=> r \in Range(notifyList[p]))
    BY <1>3 DEF RegistrationsLinked
  <2>2. unseen[r] \in Seq(Nat) /\ r \in DOMAIN unseen
    BY <1>7, <2>1
  <2> QED
    BY <1>5, <1>6, <2>1, <2>2
<1>10. RegistrationsLinked'
  <2>1. ASSUME NEW q \in SmmProtocolIds, NEW r \in Range(notifyList[q]),
               NEW at, at = registrations[r].Position
        PROVE  /\ at = ListHead \/ at \in Range(byProtocol'[q])
               /\ unseen'[r] = Behind(byProtocol'[q], at)
    <3>1. PICK list : list = byProtocol[q]
      OBVIOUS
    <3>2. /\ list \in Seq(Nat) /\ Distinct(list) /\ unseen[r] = Behind(list, at)
          /\ at = ListHead \/ at \in Range(list)
          /\ ListHead \notin Range(list)
      BY <1>3, <2>1, <3>1, Registered
    <3>3. CASE q # p
      <4>1. byProtocol'[q] = list
        BY <1>5, <3>1, <3>3
      <4> QED
        BY <1>9, <3>2, <3>3, <4>1
    <3>4. CASE q = p
      <4>1. i \in Nat
        BY <1>4
      <4>2. byProtocol'[q] = Append(list, i)
        BY <1>3, <1>5, <3>1, <3>4 DEF SmmTypes
      <4>3. i \notin Range(list)
        BY <1>3, <1>4, <3>1 DEF ProtocolsLinked, Installed
      <4>4. at # i
        BY <1>4, <3>2, <4>3, SmmAssumption
      <4>5. \A k \in 1 .. Len(list) : list[k] # i
        BY <3>2, <4>3, Elements
      <4>6. Behind(Append(list, i), at) = Append(Behind(list, at), i)
        BY ONLY <3>2, <4>1, <4>4, <4>5, BehindAppend
      <4>7. Range(Append(list, i)) = Range(list) \cup {i}
        BY ONLY <3>2, <4>1, AppendElements
      <4> QED
        BY <1>9, <3>2, <3>4, <4>2, <4>6, <4>7
    <3> QED
      BY <3>3, <3>4
  <2>2. notifyList' = notifyList /\ registrations' = registrations
    BY <1>5
  <2>3. /\ \A q \in SmmProtocolIds :
               IsInjective(notifyList'[q]) /\ Range(notifyList'[q]) \subseteq DOMAIN registrations'
        /\ \A q, o \in SmmProtocolIds : q # o => Range(notifyList'[q]) \cap Range(notifyList'[o]) = {}
    BY <1>3, <2>2 DEF RegistrationsLinked
  <2>4. \A q \in SmmProtocolIds : \A r \in Range(notifyList'[q]) :
           LET at == registrations'[r].Position IN
           /\ at = ListHead \/ at \in Range(byProtocol'[q])
           /\ unseen'[r] = Behind(byProtocol'[q], at)
    BY <2>1, <2>2
  <2> QED
    BY <2>3, <2>4 DEF RegistrationsLinked
<1>11. PICK first : first = [interface |-> i, at |-> 0]
  OBVIOUS
<1>12. \A a \in Range(announcing) : a.interface \in DOMAIN smmInterfaces /\ a.interface # i
  BY <1>3, <1>4 DEF AnnouncementsFit, Installed
<1>13. \A j, r : Awaits({first} \cup Range(announcing), smmInterfaces', notifyList, j, r) <=>
           \/ j = i /\ r \in Range(notifyList[p])
           \/ Awaits(Range(announcing), smmInterfaces, notifyList, j, r)
  <2>1. ASSUME NEW j, NEW r
        PROVE  Awaits({first} \cup Range(announcing), smmInterfaces', notifyList, j, r) <=>
                  \/ j = i /\ r \in Range(notifyList[p])
                  \/ Awaits(Range(announcing), smmInterfaces, notifyList, j, r)
    <3>1. Awaits({first} \cup Range(announcing), smmInterfaces', notifyList, j, r) <=>
             \/ first.interface = j /\ Follows(notifyList[smmInterfaces'[j].protocol], first.at, r)
             \/ Awaits(Range(announcing), smmInterfaces', notifyList, j, r)
      BY AwaitsOne
    <3>2. first.interface = i /\ first.at = 0
      BY <1>11
    <3>3. Follows(notifyList[smmInterfaces'[i].protocol], 0, r) <=> r \in Range(notifyList[p])
      BY <1>4 DEF Follows
    <3>4. Awaits(Range(announcing), smmInterfaces', notifyList, j, r) <=>
             Awaits(Range(announcing), smmInterfaces, notifyList, j, r)
      BY <1>4, <1>12, AwaitsSame
    <3> QED
      BY <3>1, <3>2, <3>3, <3>4
  <2> QED
    BY <2>1
<1>14. AllHear({first} \cup Range(announcing), smmInterfaces', notifyList, unseen', heard)
  <2>1. ASSUME NEW q \in SmmProtocolIds, NEW r \in Range(notifyList[q])
        PROVE  /\ IsInjective(heard[r]) /\ Range(heard[r]) \subseteq DOMAIN smmInterfaces'
               /\ \A j \in Range(unseen'[r]) :
                     \/ j \in Range(heard[r])
                     \/ Awaits({first} \cup Range(announcing), smmInterfaces', notifyList, j, r)
               /\ \A j \in Range(heard[r]) :
                     ~Awaits({first} \cup Range(announcing), smmInterfaces', notifyList, j, r)
    <3>1. /\ IsInjective(heard[r]) /\ Range(heard[r]) \subseteq DOMAIN smmInterfaces
          /\ \A j \in Range(unseen[r]) :
                j \in Range(heard[r]) \/ Awaits(Range(announcing), smmInterfaces, notifyList, j, r)
          /\ \A j \in Range(heard[r]) : ~Awaits(Range(announcing), smmInterfaces, notifyList, j, r)
      BY <1>3 DEF AllHear
    <3>2. \A j \in Range(unseen'[r]) : j \in Range(unseen[r]) \/ (j = i /\ r \in Range(notifyList[p]))
      <4>1. CASE q # p
        BY <1>9, <4>1
      <4>2. CASE q = p
        <5>1. i \in Nat
          BY <1>4
        <5>2. PICK s : s = unseen[r]
          OBVIOUS
        <5>3. s \in Seq(Nat) /\ unseen'[r] = Append(s, i)
          BY <1>9, <4>2, <5>2
        <5>4. Range(Append(s, i)) = Range(s) \cup {i}
          BY ONLY <5>1, <5>3, AppendElements
        <5> QED
          BY <4>2, <5>2, <5>3, <5>4
      <4> QED
        BY <4>1, <4>2
    <3>3. ASSUME NEW j \in Range(unseen'[r])
          PROVE  \/ j \in Range(heard[r])
                 \/ Awaits({first} \cup Range(announcing), smmInterfaces', notifyList, j, r)
      BY <1>13, <3>1, <3>2
    <3>4. ASSUME NEW j \in Range(heard[r])
          PROVE  ~Awaits({first} \cup Range(announcing), smmInterfaces', notifyList, j, r)
      BY <1>4, <1>13, <3>1
    <3> QED
      BY <1>4, <3>1, <3>3, <3>4
  <2> QED
    BY <2>1 DEF AllHear
<1>15. /\ heard' \in Seq(Seq(Nat)) /\ Len(heard') = Len(heard)
       /\ announcing' \in Seq([interface : Nat, at : Nat])
       /\ AllHear(Range(announcing'), smmInterfaces', notifyList, unseen', heard')
       /\ \A a \in Range(announcing') :
             a \in Range(announcing) \/ (a.interface = i /\ a.at \in Range(notifyList[p]))
       /\ \A k, l \in DOMAIN announcing' : announcing'[k].interface = announcing'[l].interface => k = l
  <2>1. announcing \in Seq([interface : Nat, at : Nat])
    BY <1>3 DEF SmmTypes
  <2>2. i \in DOMAIN smmInterfaces' /\ smmInterfaces'[i].protocol = p
    BY <1>4
  <2>3. \A k, l \in DOMAIN announcing : announcing[k].interface = announcing[l].interface => k = l
    BY <1>3 DEF AnnouncementsFit
  <2>4. AllHear({[interface |-> i, at |-> 0]} \cup Range(announcing), smmInterfaces', notifyList, unseen', heard)
    BY <1>11, <1>14
  <2>5. 0 \in Nat /\ p \in SmmProtocolIds /\ i \in Nat /\ (0 = 0 \/ 0 \in Range(notifyList[p]))
    BY <1>4
  <2>6. SmmTypes /\ RegistrationsLinked /\ Announce(i, 0, announcing)
    BY <1>3, <1>5
  <2>7. \A a \in Range(announcing) : a.interface # i
    BY <1>12
  <2> QED
    BY ONLY <2>1, <2>2, <2>3, <2>4, <2>5, <2>6, <2>7, AnnounceStep
<1>16. AnnouncementsFit'
  <2>1. ASSUME NEW a \in Range(announcing')
        PROVE  a.interface \in Installed' /\ a.at \in Range(notifyList'[smmInterfaces'[a.interface].protocol])
    <3>1. CASE a \in Range(announcing)
      BY <1>3, <1>4, <1>5, <1>12, <3>1 DEF AnnouncementsFit
    <3>2. CASE a.interface = i /\ a.at \in Range(notifyList[p])
      BY <1>4, <1>5, <3>2
    <3> QED
      BY <1>15, <3>1, <3>2
  <2> QED
    BY <1>15, <2>1 DEF AnnouncementsFit
<1>17. SmmTypes'
  BY <1>3, <1>4, <1>5, <1>8, <1>15 DEF SmmTypes
<1> QED
  BY <1>4, <1>5, <1>10, <1>15, <1>16, <1>17 DEF SmmInv

(* An interface and its registrations leave the list of a protocol.        *)
LEMMA BackLinkIs ==
    ASSUME NEW list \in Seq(Nat), Distinct(list), ListHead \notin Range(list), NEW i \in Range(list),
           NEW x, NEW y, y = IF x = i THEN BackLink(list, i) ELSE x
    PROVE  /\ Backed(list, i, ListHead, x, y)
           /\ x = ListHead \/ x \in Range(list) => y = ListHead \/ y \in Range(RemoveFirst(list, i))
<1>1. /\ Len(list) \in Nat /\ IsInjective(list) /\ Range(list) \subseteq Nat
      /\ \A z : z \in Range(list) <=> \E k \in 1 .. Len(list) : list[k] = z
  BY Elements, LenProperties
<1>2. PICK k \in 1 .. Len(list) : list[k] = i
  BY <1>1
<1>3. BackLink(list, i) = IF k = 1 THEN ListHead ELSE list[k - 1]
  <2>1. {j \in 1 .. Len(list) : list[j] = i} # {} /\ Min({j \in 1 .. Len(list) : list[j] = i}) = k
    BY <1>1, <1>2, SelectKnown
  <2> QED
    BY <2>1 DEF BackLink, SelectInSeq
<1>4. Backed(list, i, ListHead, x, y)
  <2>1. \A j \in 1 .. Len(list) : list[j] # ListHead
    BY <1>1
  <2> QED
    BY <1>2, <1>3, <2>1 DEF Backed
<1>5. Range(RemoveFirst(list, i)) = Range(list) \ {i}
  BY <1>1, RemoveElements
<1>6. ASSUME x = ListHead \/ x \in Range(list)
      PROVE  y = ListHead \/ y \in Range(RemoveFirst(list, i))
  <2>1. CASE x # i
    BY <1>5, <1>6, <2>1
  <2>2. CASE x = i /\ k = 1
    BY <1>3, <2>2
  <2>3. CASE x = i /\ k # 1
    <3>1. k - 1 \in 1 .. Len(list) /\ k - 1 # k /\ y = list[k - 1]
      BY <1>1, <1>2, <1>3, <2>3
    <3>2. list[k - 1] # i
      BY <1>2, <3>1 DEF Distinct
    <3> QED
      BY <1>1, <1>5, <3>1, <3>2
  <2> QED
    BY <2>1, <2>2, <2>3
<1> QED
  BY <1>4, <1>6

(* The lists that interface i of handle h is taken from.                   *)
LEMMA UninstallLists ==
    ASSUME SmmTypes, HandlesLinked, ProtocolsLinked,
           NEW h \in Range(gSmmHandleList), NEW i \in Range(byHandle[h]),
           NEW p, p = smmInterfaces[i].protocol,
           byProtocol' = [byProtocol EXCEPT ![p] = RemoveFirst(@, i)],
           byHandle' = [byHandle EXCEPT ![h] = RemoveFirst(@, i)],
           gSmmHandleList' = IF byHandle[h] = <<i>> THEN RemoveFirst(gSmmHandleList, h) ELSE gSmmHandleList,
           smmInterfaces' = smmInterfaces
    PROVE  /\ i \in DOMAIN smmInterfaces /\ i \in Installed /\ p \in SmmProtocolIds
           /\ gSmmHandleList' \in Seq(Nat) /\ byHandle' \in Seq(Seq(Nat))
           /\ byProtocol' \in [SmmProtocolIds -> Seq(Nat)]
           /\ Installed' = Installed \ {i}
           /\ HandlesLinked' /\ ProtocolsLinked'
<1>1. /\ \A g \in DOMAIN byHandle : byHandle[g] \in Seq(Nat) /\ g \in Nat
      /\ Len(byHandle) \in Nat /\ DOMAIN byHandle = 1 .. Len(byHandle)
      /\ byHandle \in Seq(Seq(Nat)) /\ byProtocol \in [SmmProtocolIds -> Seq(Nat)]
      /\ gSmmHandleList \in Seq(Nat)
  BY Names DEF SmmTypes
<1>2. /\ h \in DOMAIN byHandle /\ byHandle[h] \in Seq(Nat) /\ IsInjective(byHandle[h])
      /\ i \in DOMAIN smmInterfaces /\ smmInterfaces[i].handle = h /\ i \in Installed
  BY <1>1 DEF HandlesLinked, Installed
<1>3. p \in SmmProtocolIds
  BY <1>2, InterfaceIs
<1>4. PICK s : s = RemoveFirst(byHandle[h], i)
  OBVIOUS
<1>5. s \in Seq(Nat) /\ IsInjective(s) /\ Range(s) = Range(byHandle[h]) \ {i}
  BY <1>2, <1>4, RemoveElements
<1>6. /\ byHandle' \in Seq(Seq(Nat)) /\ DOMAIN byHandle' = DOMAIN byHandle /\ byHandle'[h] = s
      /\ \A g \in DOMAIN byHandle : g # h => byHandle'[g] = byHandle[g]
  <2>1. byHandle' = [byHandle EXCEPT ![h] = s]
    BY <1>4
  <2> QED
    BY <1>1, <1>2, <1>5, <2>1, ExceptSeq
<1>7. Installed' = Installed \ {i}
  <2>1. ASSUME NEW j \in DOMAIN smmInterfaces
        PROVE  j \in Range(byHandle'[smmInterfaces[j].handle]) <=>
                  j # i /\ j \in Range(byHandle[smmInterfaces[j].handle])
    <3>1. smmInterfaces[j].handle \in DOMAIN byHandle
      BY DEF HandlesLinked
    <3> QED
      BY <1>2, <1>5, <1>6, <3>1
  <2> QED
    BY <2>1 DEF Installed
<1>8. gSmmHandleList' \in Seq(Nat) /\ HandlesLinked'
  <2>1. /\ IsInjective(gSmmHandleList)
        /\ Range(gSmmHandleList) = {g \in DOMAIN byHandle : byHandle[g] # <<>>}
    BY DEF HandlesLinked
  <2>2. s = <<>> <=> byHandle[h] = <<i>>
    <3>1. byHandle[h] = <<i>> <=> Range(byHandle[h]) = {i}
      BY <1>2, Alone
    <3>2. s = <<>> <=> \A x : x \notin Range(s)
      BY <1>5, NoElements
    <3> QED
      BY <1>5, <3>1, <3>2
  <2>3. /\ gSmmHandleList' \in Seq(Nat) /\ IsInjective(gSmmHandleList')
        /\ Range(gSmmHandleList') = IF s = <<>> THEN Range(gSmmHandleList) \ {h} ELSE Range(gSmmHandleList)
    <3>1. /\ RemoveFirst(gSmmHandleList, h) \in Seq(Nat) /\ IsInjective(RemoveFirst(gSmmHandleList, h))
          /\ Range(RemoveFirst(gSmmHandleList, h)) = Range(gSmmHandleList) \ {h}
      BY <1>1, <2>1, RemoveElements
    <3> QED
      BY <1>1, <2>1, <2>2, <3>1
  <2>4. Range(gSmmHandleList') = {g \in DOMAIN byHandle' : byHandle'[g] # <<>>}
    BY <1>6, <2>1, <2>3
  <2>5. ASSUME NEW g \in DOMAIN byHandle'
        PROVE  IsInjective(byHandle'[g]) /\ Range(byHandle'[g]) \subseteq
                  {j \in DOMAIN smmInterfaces' : smmInterfaces'[j].handle = g}
    <3>1. /\ g \in DOMAIN byHandle /\ IsInjective(byHandle[g])
          /\ Range(byHandle[g]) \subseteq {j \in DOMAIN smmInterfaces : smmInterfaces[j].handle = g}
      BY <1>6 DEF HandlesLinked
    <3>2. CASE g = h
      BY <1>5, <1>6, <3>1, <3>2
    <3>3. CASE g # h
      BY <1>6, <3>1, <3>3
    <3> QED
      BY <3>2, <3>3
  <2>6. \A j \in DOMAIN smmInterfaces' : smmInterfaces'[j].handle \in DOMAIN byHandle'
    BY <1>6 DEF HandlesLinked
  <2> QED
    BY <2>3, <2>4, <2>5, <2>6 DEF HandlesLinked
<1>9. byProtocol' \in [SmmProtocolIds -> Seq(Nat)] /\ ProtocolsLinked'
  <2>1. PICK t : t = byProtocol[p]
    OBVIOUS
  <2>2. t \in Seq(Nat) /\ IsInjective(t)
    BY <1>1, <1>3, <2>1 DEF ProtocolsLinked
  <2>3. /\ RemoveFirst(t, i) \in Seq(Nat) /\ IsInjective(RemoveFirst(t, i))
        /\ Range(RemoveFirst(t, i)) = Range(t) \ {i}
    BY <2>2, RemoveElements
  <2>4. /\ byProtocol' \in [SmmProtocolIds -> Seq(Nat)] /\ byProtocol'[p] = RemoveFirst(t, i)
        /\ \A q \in SmmProtocolIds : q # p => byProtocol'[q] = byProtocol[q]
    BY <1>1, <1>3, <2>1, <2>3
  <2>5. ASSUME NEW q \in SmmProtocolIds
        PROVE  /\ IsInjective(byProtocol'[q])
               /\ Range(byProtocol'[q]) = {j \in Installed' : smmInterfaces'[j].protocol = q}
    <3>1. /\ IsInjective(byProtocol[q])
          /\ Range(byProtocol[q]) = {j \in Installed : smmInterfaces[j].protocol = q}
      BY DEF ProtocolsLinked
    <3>2. CASE q = p
      BY <1>7, <2>1, <2>3, <2>4, <3>1, <3>2
    <3>3. CASE q # p
      BY <1>7, <2>4, <3>1, <3>3
    <3> QED
      BY <3>2, <3>3
  <2>6. \A j, k \in Installed' : smmInterfaces'[j] = smmInterfaces'[k] => j = k
    BY <1>7 DEF ProtocolsLinked
  <2> QED
    BY <2>4, <2>5, <2>6 DEF ProtocolsLinked
<1> QED
  BY <1>2, <1>3, <1>6, <1>7, <1>8, <1>9

(* What is still to be heard of only shrinks.                              *)
LEMMA StillHeard ==
    ASSUME NEW A, NEW un, NEW others,
           AllHear(A, smmInterfaces, notifyList, un, heard),
           \A p \in SmmProtocolIds : \A r \in Range(notifyList[p]) : Range(others[r]) \subseteq Range(un[r])
    PROVE  AllHear(A, smmInterfaces, notifyList, others, heard)
BY DEF AllHear

(* A registration whose Position is taken away falls back to the interface *)
(* before it, so that what it has not located yet is still behind it.      *)
LEMMA UninstallStep ==
    ASSUME SmmInv, SmmUninstallProtocolInterface
    PROVE  SmmInv'
<1>1. PICK h \in Range(gSmmHandleList) : \E i \in Range(byHandle[h]) :
         /\ \A k \in DOMAIN announcing : announcing[k].interface # i
         /\ SmmRemoveInterfaceFromProtocol(i, smmInterfaces[i].protocol)
         /\ byHandle' = [byHandle EXCEPT ![h] = RemoveFirst(@, i)]
         /\ gSmmHandleList' = IF byHandle[h] = <<i>> THEN RemoveFirst(gSmmHandleList, h) ELSE gSmmHandleList
         /\ unseen' = [r \in DOMAIN unseen |-> RemoveFirst(unseen[r], i)]
         /\ UNCHANGED <<smmInterfaces, notifyList, announcing, locates, heard>>
  BY DEF SmmUninstallProtocolInterface
<1>2. PICK i \in Range(byHandle[h]) :
         /\ \A k \in DOMAIN announcing : announcing[k].interface # i
         /\ SmmRemoveInterfaceFromProtocol(i, smmInterfaces[i].protocol)
         /\ byHandle' = [byHandle EXCEPT ![h] = RemoveFirst(@, i)]
         /\ gSmmHandleList' = IF byHandle[h] = <<i>> THEN RemoveFirst(gSmmHandleList, h) ELSE gSmmHandleList
         /\ unseen' = [r \in DOMAIN unseen |-> RemoveFirst(unseen[r], i)]
         /\ UNCHANGED <<smmInterfaces, notifyList, announcing, locates, heard>>
  BY <1>1
<1>3. PICK p : p = smmInterfaces[i].protocol
  OBVIOUS
<1>4. /\ SmmTypes /\ HandlesLinked /\ ProtocolsLinked /\ RegistrationsLinked /\ AnnouncementsFit
      /\ AllHear(Range(announcing), smmInterfaces, notifyList, unseen, heard)
  BY DEF SmmInv
<1>5. /\ byProtocol' = [byProtocol EXCEPT ![p] = RemoveFirst(@, i)]
      /\ registrations' = [r \in DOMAIN registrations |->
                             IF Contains(notifyList[p], r) /\ registrations[r].Position = i
                             THEN [registrations[r] EXCEPT !.Position = BackLink(byProtocol[p], i)]
                             ELSE registrations[r]]
      /\ unseen' = [r \in DOMAIN unseen |-> RemoveFirst(unseen[r], i)]
      /\ UNCHANGED <<smmInterfaces, notifyList, announcing, heard>>
  BY <1>2, <1>3 DEF SmmRemoveInterfaceFromProtocol
<1>6. /\ i \in DOMAIN smmInterfaces /\ i \in Installed /\ p \in SmmProtocolIds
      /\ gSmmHandleList' \in Seq(Nat) /\ byHandle' \in Seq(Seq(Nat))
      /\ byProtocol' \in [SmmProtocolIds -> Seq(Nat)]
      /\ Installed' = Installed \ {i}
      /\ HandlesLinked' /\ ProtocolsLinked'
  BY <1>2, <1>3, <1>4, <1>5, UninstallLists
<1>7. /\ \A r \in DOMAIN registrations : unseen[r] \in Seq(Nat) /\ r \in Nat
      /\ Len(registrations) \in Nat /\ DOMAIN registrations = 1 .. Len(registrations)
      /\ DOMAIN unseen = 1 .. Len(registrations)
  BY <1>4, Names
<1>8. \A r : Contains(notifyList[p], r) <=> r \in Range(notifyList[p])
  <2>1. notifyList[p] \in Seq(Nat)
    BY <1>4, <1>6 DEF SmmTypes
  <2> QED
    BY <2>1, Elements DEF Contains
<1>9. ASSUME NEW r \in 1 .. Len(registrations)
      PROVE  /\ registrations[r].function \in SmmFunctions
             /\ registrations[r].Position \in Nat \cup {ListHead}
             /\ registrations[r] \in [function : SmmFunctions, Position : Nat \cup {ListHead}]
  <2>1. PICK R : R = [function : SmmFunctions, Position : Nat \cup {ListHead}]
    OBVIOUS
  <2>2. registrations \in Seq(R)
    BY <1>4, <2>1 DEF SmmTypes
  <2>3. registrations[r] \in R
    BY ONLY r \in 1 .. Len(registrations), <2>2, ElementOfSeq
  <2> QED
    BY <2>1, <2>3
<1>10. PICK list : list = byProtocol[p]
  OBVIOUS
<1>11. /\ list \in Seq(Nat) /\ Distinct(list) /\ i \in Range(list) /\ i \in Nat /\ Range(list) \subseteq Nat
       /\ ListHead \notin Range(list) /\ byProtocol'[p] = RemoveFirst(list, i)
       /\ \A q \in SmmProtocolIds : q # p => byProtocol'[q] = byProtocol[q]
  <2>1. list \in Seq(Nat) /\ IsInjective(list) /\ i \in Range(list)
    BY <1>3, <1>4, <1>6, <1>10 DEF SmmTypes, ProtocolsLinked
  <2>2. Distinct(list) /\ Range(list) \subseteq Nat
    BY <2>1, Elements
  <2>3. byProtocol \in [SmmProtocolIds -> Seq(Nat)]
    BY <1>4 DEF SmmTypes
  <2> QED
    BY <1>5, <1>6, <1>10, <2>1, <2>2, <2>3, SmmAssumption
<1>12. ASSUME NEW r \in 1 .. Len(registrations)
       PROVE  /\ registrations'[r].Position =
                    IF r \in Range(notifyList[p]) /\ registrations[r].Position = i
                    THEN BackLink(list, i) ELSE registrations[r].Position
              /\ registrations'[r].function = registrations[r].function
              /\ registrations'[r] \in [function : SmmFunctions, Position : Nat \cup {ListHead}]
  <2>1. BackLink(list, i) \in Nat \cup {ListHead}
    <3>1. PICK y : y = BackLink(list, i)
      OBVIOUS
    <3>2. y = IF i = i THEN BackLink(list, i) ELSE i
      BY <3>1
    <3>3. i = ListHead \/ i \in Range(list) => y = ListHead \/ y \in Range(RemoveFirst(list, i))
      BY ONLY <1>11, <3>2, BackLinkIs
    <3>4. IsInjective(list)
      BY <1>11, Elements
    <3>5. Range(RemoveFirst(list, i)) = Range(list) \ {i}
      BY <1>11, <3>4, RemoveElements
    <3> QED
      BY <1>11, <3>1, <3>3, <3>5
  <2>2. CASE r \in Range(notifyList[p]) /\ registrations[r].Position = i
    <3>1. registrations'[r] = [registrations[r] EXCEPT !.Position = BackLink(list, i)]
      BY <1>5, <1>7, <1>8, <1>10, <2>2
    <3> QED
      BY <1>9, <2>1, <2>2, <3>1
  <2>3. CASE ~(r \in Range(notifyList[p]) /\ registrations[r].Position = i)
    <3>1. registrations'[r] = registrations[r]
      BY <1>5, <1>7, <1>8, <2>3
    <3> QED
      BY <1>9, <2>3, <3>1
  <2> QED
    BY <2>2, <2>3
<1>13. /\ registrations' \in Seq([function : SmmFunctions, Position : Nat \cup {ListHead}])
       /\ DOMAIN registrations' = DOMAIN registrations /\ Len(registrations') = Len(registrations)
  <2>1. PICK R : R = [function : SmmFunctions, Position : Nat \cup {ListHead}]
    OBVIOUS
  <2>2. \A r \in 1 .. Len(registrations) : registrations'[r] \in R
    BY <1>12, <2>1
  <2>3. DOMAIN registrations' = 1 .. Len(registrations)
    BY <1>5, <1>7
  <2>4. registrations' = [r \in 1 .. Len(registrations) |-> registrations'[r]]
    BY <1>5, <1>7
  <2>5. registrations' \in Seq(R)
    BY <1>7, <2>2, <2>4
  <2>6. Len(registrations') = Len(registrations)
    BY ONLY <1>7, <2>3, <2>5, LenProperties
  <2> QED
    BY <1>7, <2>1, <2>3, <2>5, <2>6
<1>14. /\ unseen' \in Seq(Seq(Nat)) /\ Len(unseen') = Len(registrations)
       /\ \A r \in 1 .. Len(registrations) : unseen'[r] = RemoveFirst(unseen[r], i)
  <2>1. \A r \in 1 .. Len(registrations) : unseen'[r] = RemoveFirst(unseen[r], i)
    BY <1>5, <1>7
  <2>2. ASSUME NEW r \in 1 .. Len(registrations) PROVE unseen'[r] \in Seq(Nat)
    <3>1. unseen[r] \in Seq(Nat)
      BY <1>7
    <3>2. RemoveFirst(unseen[r], i) \in Seq(Nat)
      BY <3>1, RemoveFirstProperties
    <3> QED
      BY <2>1, <3>2
  <2>3. DOMAIN unseen' = 1 .. Len(registrations)
    BY <1>5, <1>7
  <2>4. unseen' = [r \in 1 .. Len(registrations) |-> unseen'[r]]
    BY <1>5, <1>7
  <2>5. unseen' \in Seq(Seq(Nat))
    BY <1>7, <2>2, <2>4
  <2>6. Len(unseen') = Len(registrations)
    BY ONLY <1>7, <2>3, <2>5, LenProperties
  <2> QED
    BY <2>1, <2>5, <2>6
<1>15. ASSUME NEW q \in SmmProtocolIds, NEW r \in Range(notifyList[q]), NEW y, y = registrations'[r].Position
       PROVE  /\ y = ListHead \/ y \in Range(byProtocol'[q])
              /\ unseen'[r] = Behind(byProtocol'[q], y)
              /\ Range(unseen'[r]) \subseteq Range(unseen[r])
  <2>1. PICK s, x : s = byProtocol[q] /\ x = registrations[r].Position
    OBVIOUS
  <2>2. /\ r \in DOMAIN registrations /\ s \in Seq(Nat) /\ Distinct(s)
        /\ unseen[r] = Behind(s, x) /\ unseen[r] \in Seq(Nat) /\ IsInjective(unseen[r])
        /\ Range(unseen[r]) \subseteq Range(s)
        /\ x = ListHead \/ x \in Range(s)
    BY <1>4, <2>1, Registered
  <2>3. unseen'[r] = RemoveFirst(unseen[r], i)
    BY <1>7, <1>14, <2>2
  <2>4. Range(unseen'[r]) \subseteq Range(unseen[r])
    BY <2>2, <2>3, RemoveElements
  <2>5. CASE q # p
    <3>1. r \notin Range(notifyList[p])
      BY <1>4, <1>6, <2>5 DEF RegistrationsLinked
    <3>2. y = x /\ byProtocol'[q] = s
      BY <1>7, <1>11, <1>12, <1>15, <2>1, <2>2, <2>5, <3>1
    <3>3. i \notin Range(s)
      BY <1>3, <1>4, <2>1, <2>5 DEF ProtocolsLinked
    <3>4. unseen'[r] = unseen[r]
      BY <2>2, <2>3, <3>3, RemoveAbsent
    <3> QED
      BY <2>2, <2>4, <3>2, <3>4
  <2>6. CASE q = p
    <3>1. s = list /\ byProtocol'[q] = RemoveFirst(list, i)
      BY <1>10, <1>11, <2>1, <2>6
    <3>2. y = IF x = i THEN BackLink(list, i) ELSE x
      BY <1>7, <1>12, <1>15, <2>1, <2>2, <2>6
    <3>3. Backed(list, i, ListHead, x, y) /\ (y = ListHead \/ y \in Range(RemoveFirst(list, i)))
      BY <1>11, <2>2, <3>1, <3>2, BackLinkIs
    <3>4. Behind(RemoveFirst(list, i), y) = RemoveFirst(Behind(list, x), i)
      BY <1>11, <3>3, BehindRemove
    <3> QED
      BY <2>2, <2>3, <2>4, <3>1, <3>3, <3>4
  <2> QED
    BY <2>5, <2>6
<1>16. RegistrationsLinked'
  <2>1. \A q \in SmmProtocolIds :
           IsInjective(notifyList'[q]) /\ Range(notifyList'[q]) \subseteq DOMAIN registrations'
    BY <1>4, <1>5, <1>13 DEF RegistrationsLinked
  <2>2. \A q, o \in SmmProtocolIds : q # o => Range(notifyList'[q]) \cap Range(notifyList'[o]) = {}
    BY <1>4, <1>5 DEF RegistrationsLinked
  <2>3. ASSUME NEW q \in SmmProtocolIds, NEW r \in Range(notifyList'[q])
        PROVE  LET at == registrations'[r].Position IN
               /\ at = ListHead \/ at \in Range(byProtocol'[q])
               /\ unseen'[r] = Behind(byProtocol'[q], at)
    <3>1. r \in Range(notifyList[q])
      BY <1>5
    <3>2. PICK y : y = registrations'[r].Position
      OBVIOUS
    <3> QED
      BY <1>15, <3>1, <3>2
  <2> QED
    BY <2>1, <2>2, <2>3 DEF RegistrationsLinked
<1>17. AnnouncementsFit'
  <2>1. \A a \in Range(announcing) : a.interface # i
    BY <1>2 DEF Range
  <2> QED
    BY <1>4, <1>5, <1>6, <2>1 DEF AnnouncementsFit
<1>18. AllHear(Range(announcing'), smmInterfaces', notifyList', unseen', heard')
  <2>1. \A q \in SmmProtocolIds : \A r \in Range(notifyList[q]) : Range(unseen'[r]) \subseteq Range(unseen[r])
    BY <1>15
  <2>2. AllHear(Range(announcing), smmInterfaces, notifyList, unseen', heard)
    BY <1>4, <2>1, StillHeard
  <2> QED
    BY <1>5, <2>2
<1>19. SmmTypes'
  BY <1>4, <1>5, <1>6, <1>13, <1>14 DEF SmmTypes
<1> QED
  BY <1>6, <1>16, <1>17, <1>18, <1>19 DEF SmmInv

(* Nothing is behind the last interface.                                   *)
LEMMA LastStands ==
    ASSUME NEW list \in Seq(Nat), Distinct(list), ListHead \notin Range(list),
           NEW at, at = IF list = <<>> THEN ListHead ELSE Last(list)
    PROVE  /\ Behind(list, at) = <<>>
           /\ at = ListHead \/ at \in Range(list)
           /\ at \in Nat \cup {ListHead}
<1>1. /\ Len(list) \in Nat /\ Range(list) \subseteq Nat /\ (list = <<>> <=> Len(list) = 0)
      /\ \A x : x \in Range(list) <=> \E i \in 1 .. Len(list) : list[i] = x
  BY Elements, LenProperties, EmptySeq
<1>2. Stands(list, Len(list), at) /\ (at = ListHead \/ at \in Range(list))
  <2>1. CASE list = <<>>
    BY <1>1, <2>1 DEF Stands
  <2>2. CASE list # <<>>
    <3>1. Len(list) \in 1 .. Len(list) /\ at = list[Len(list)]
      BY <1>1, <2>2 DEF Last
    <3> QED
      BY <1>1, <3>1 DEF Stands
  <2> QED
    BY <2>1, <2>2
<1>3. Len(list) \in 0 .. Len(list)
  BY <1>1
<1>4. Behind(list, at) \in Seq(Nat) /\ Len(Behind(list, at)) = Len(list) - Len(list)
  BY <1>2, <1>3, BehindIs
<1>5. Len(Behind(list, at)) = 0
  BY <1>1, <1>4
<1>6. Behind(list, at) = <<>>
  BY <1>4, <1>5, EmptySeq
<1> QED
  BY <1>1, <1>2, <1>6

(* A registration starts behind the interfaces of its protocol; one made   *)
(* by a notify function comes after it in the list.                        *)
LEMMA RegisterStep ==
    ASSUME SmmInv, SmmRegisterProtocolNotify
    PROVE  SmmInv'
<1>1. PICK p \in SmmProtocolIds, function \in SmmFunctions :
         LET r == Len(registrations) + 1 IN
         /\ registrations' = Append(registrations,
                               [function |-> function,
                                Position |-> IF byProtocol[p] = <<>> THEN ListHead ELSE Last(byProtocol[p])])
         /\ notifyList' = [notifyList EXCEPT ![p] = Append(@, r)]
         /\ heard' = Append(heard, <<>>) /\ unseen' = Append(unseen, <<>>)
         /\ UNCHANGED <<handleVars, announcing, locates>>
  BY DEF SmmRegisterProtocolNotify
<1>2. PICK r, at : r = Len(registrations) + 1 /\ at = IF byProtocol[p] = <<>> THEN ListHead ELSE Last(byProtocol[p])
  OBVIOUS
<1>3. /\ SmmTypes /\ HandlesLinked /\ ProtocolsLinked /\ RegistrationsLinked /\ AnnouncementsFit
      /\ AllHear(Range(announcing), smmInterfaces, notifyList, unseen, heard)
  BY DEF SmmInv
<1>4. /\ registrations' = Append(registrations, [function |-> function, Position |-> at])
      /\ notifyList' = [notifyList EXCEPT ![p] = Append(@, r)]
      /\ heard' = Append(heard, <<>>) /\ unseen' = Append(unseen, <<>>)
      /\ UNCHANGED <<gSmmHandleList, smmInterfaces, byHandle, byProtocol, announcing>>
  BY <1>1, <1>2 DEF handleVars
<1>5. /\ Len(registrations) \in Nat /\ DOMAIN registrations = 1 .. Len(registrations)
      /\ heard \in Seq(Seq(Nat)) /\ unseen \in Seq(Seq(Nat))
      /\ Len(heard) = Len(registrations) /\ Len(unseen) = Len(registrations)
      /\ notifyList \in [SmmProtocolIds -> Seq(Nat)] /\ byProtocol \in [SmmProtocolIds -> Seq(Nat)]
  BY <1>3, Names DEF SmmTypes
<1>6. r \in Nat /\ r \notin DOMAIN registrations /\ r \in 1 .. Len(registrations) + 1 /\ r > 0
  BY <1>2, <1>5
<1>7. /\ Behind(byProtocol[p], at) = <<>>
      /\ at = ListHead \/ at \in Range(byProtocol[p])
      /\ at \in Nat \cup {ListHead}
  <2>1. PICK list : list = byProtocol[p]
    OBVIOUS
  <2>2. list \in Seq(Nat) /\ IsInjective(list)
    BY <1>3, <1>5, <2>1 DEF ProtocolsLinked
  <2>3. Distinct(list) /\ ListHead \notin Range(list)
    BY <2>2, Elements, SmmAssumption
  <2>4. at = IF list = <<>> THEN ListHead ELSE Last(list)
    BY <1>2, <2>1
  <2> QED
    BY <2>1, <2>2, <2>3, <2>4, LastStands
<1>8. /\ registrations' \in Seq([function : SmmFunctions, Position : Nat \cup {ListHead}])
      /\ Len(registrations') = r /\ DOMAIN registrations' = DOMAIN registrations \cup {r}
      /\ registrations'[r].Position = at
      /\ \A x \in DOMAIN registrations : registrations'[x] = registrations[x]
  <2>1. PICK R, new : R = [function : SmmFunctions, Position : Nat \cup {ListHead}]
                      /\ new = [function |-> function, Position |-> at]
    OBVIOUS
  <2>2. new \in R /\ new.Position = at /\ registrations \in Seq(R) /\ registrations' = Append(registrations, new)
    BY <1>3, <1>4, <1>7, <2>1 DEF SmmTypes
  <2>3. PICK s, t : s = registrations /\ t = Append(s, new)
    OBVIOUS
  <2>4. s \in Seq(R) /\ new \in R
    BY <2>2, <2>3
  <2>5. t \in Seq(R) /\ Len(t) = Len(s) + 1 /\ t[Len(s) + 1] = new /\ \A x \in 1 .. Len(s) : t[x] = s[x]
    BY ONLY <2>3, <2>4, AppendProperties
  <2>6. DOMAIN t = 1 .. Len(t)
    BY ONLY <2>5, LenProperties
  <2>7. registrations' = t
    BY <2>2, <2>3
  <2>8. registrations' \in Seq([function : SmmFunctions, Position : Nat \cup {ListHead}])
    BY <2>1, <2>5, <2>7
  <2>9. Len(registrations') = r /\ DOMAIN registrations' = 1 .. Len(registrations) + 1
    BY <1>2, <2>3, <2>5, <2>6, <2>7
  <2>10. registrations'[r] = new /\ \A x \in DOMAIN registrations : registrations'[x] = registrations[x]
    BY <1>2, <1>5, <2>3, <2>5, <2>7
  <2>11. DOMAIN registrations' = DOMAIN registrations \cup {r}
    BY ONLY <1>2, <1>5, <2>9
  <2>12. registrations'[r].Position = at
    BY <2>2, <2>10
  <2> QED
    BY <2>8, <2>9, <2>10, <2>11, <2>12
<1>9. /\ heard' \in Seq(Seq(Nat)) /\ Len(heard') = r /\ heard'[r] = <<>>
      /\ \A x \in DOMAIN registrations : heard'[x] = heard[x]
  <2>1. PICK none : none = <<>>
    OBVIOUS
  <2>2. none \in Seq(Nat)
    BY <2>1
  <2>3. PICK s, t : s = heard /\ t = Append(s, none)
    OBVIOUS
  <2>4. t \in Seq(Seq(Nat)) /\ Len(t) = Len(s) + 1 /\ t[Len(s) + 1] = none /\ \A x \in 1 .. Len(s) : t[x] = s[x]
    BY <1>5, <2>2, <2>3, AppendProperties
  <2> QED
    BY <1>2, <1>4, <1>5, <2>1, <2>3, <2>4
<1>10. /\ unseen' \in Seq(Seq(Nat)) /\ Len(unseen') = r /\ unseen'[r] = <<>>
       /\ \A x \in DOMAIN registrations : unseen'[x] = unseen[x]
  <2>1. PICK none : none = <<>>
    OBVIOUS
  <2>2. none \in Seq(Nat)
    BY <2>1
  <2>3. PICK s, t : s = unseen /\ t = Append(s, none)
    OBVIOUS
  <2>4. t \in Seq(Seq(Nat)) /\ Len(t) = Len(s) + 1 /\ t[Len(s) + 1] = none /\ \A x \in 1 .. Len(s) : t[x] = s[x]
    BY <1>5, <2>2, <2>3, AppendProperties
  <2> QED
    BY <1>2, <1>4, <1>5, <2>1, <2>3, <2>4
<1>11. /\ notifyList' \in [SmmProtocolIds -> Seq(Nat)]
       /\ notifyList'[p] = Append(notifyList[p], r) /\ IsInjective(notifyList'[p])
       /\ Range(notifyList'[p]) = Range(notifyList[p]) \cup {r}
       /\ \A q \in SmmProtocolIds : q # p => notifyList'[q] = notifyList[q]
       /\ \A q \in SmmProtocolIds : Range(notifyList[q]) \subseteq DOMAIN registrations
  <2>1. PICK list : list = notifyList[p]
    OBVIOUS
  <2>2. \A q \in SmmProtocolIds : Range(notifyList[q]) \subseteq DOMAIN registrations
    BY <1>3 DEF RegistrationsLinked
  <2>3. list \in Seq(Nat) /\ IsInjective(list) /\ r \notin Range(list)
    BY <1>3, <1>5, <1>6, <2>1, <2>2 DEF RegistrationsLinked
  <2>4. Append(list, r) \in Seq(Nat) /\ Range(Append(list, r)) = Range(list) \cup {r} /\ IsInjective(Append(list, r))
    BY <1>6, <2>3, AppendElements
  <2> QED
    BY <1>4, <1>5, <2>1, <2>2, <2>4
<1>12. RegistrationsLinked'
  <2>1. ASSUME NEW q \in SmmProtocolIds
        PROVE  IsInjective(notifyList'[q]) /\ Range(notifyList'[q]) \subseteq DOMAIN registrations'
    BY <1>3, <1>8, <1>11 DEF RegistrationsLinked
  <2>2. ASSUME NEW q \in SmmProtocolIds, NEW o \in SmmProtocolIds, q # o
        PROVE  Range(notifyList'[q]) \cap Range(notifyList'[o]) = {}
    <3>1. Range(notifyList[q]) \cap Range(notifyList[o]) = {}
      BY <1>3, <2>2 DEF RegistrationsLinked
    <3>2. r \notin Range(notifyList[q]) /\ r \notin Range(notifyList[o])
      BY <1>6, <1>11
    <3> QED
      BY <1>11, <2>2, <3>1, <3>2
  <2>3. ASSUME NEW q \in SmmProtocolIds, NEW x \in Range(notifyList'[q])
        PROVE  LET y == registrations'[x].Position IN
               /\ y = ListHead \/ y \in Range(byProtocol'[q])
               /\ unseen'[x] = Behind(byProtocol'[q], y)
    <3>1. CASE x = r
      <4>1. q = p
        BY <1>6, <1>11, <3>1
      <4> QED
        BY <1>4, <1>7, <1>8, <1>10, <3>1, <4>1
    <3>2. CASE x # r
      <4>1. x \in Range(notifyList[q]) /\ x \in DOMAIN registrations
        BY <1>11, <3>2
      <4> QED
        BY <1>3, <1>4, <1>8, <1>10, <4>1 DEF RegistrationsLinked
    <3> QED
      BY <3>1, <3>2
  <2> QED
    BY <2>1, <2>2, <2>3 DEF RegistrationsLinked
<1>13. AnnouncementsFit'
  <2>1. ASSUME NEW a \in Range(announcing)
        PROVE  a.interface \in Installed' /\ a.at \in Range(notifyList'[smmInterfaces[a.interface].protocol])
    <3>1. a.interface \in Installed /\ a.at \in Range(notifyList[smmInterfaces[a.interface].protocol])
      BY <1>3 DEF AnnouncementsFit
    <3>2. smmInterfaces[a.interface].protocol \in SmmProtocolIds
      BY <1>3, <3>1, InterfaceIs DEF Installed
    <3> QED
      BY <1>4, <1>11, <3>1, <3>2 DEF Installed
  <2> QED
    BY <1>3, <1>4, <2>1 DEF AnnouncementsFit
<1>14. AllHear(Range(announcing'), smmInterfaces', notifyList', unseen', heard')
  <2>1. ASSUME NEW q \in SmmProtocolIds, NEW x \in Range(notifyList'[q])
        PROVE  /\ IsInjective(heard'[x]) /\ Range(heard'[x]) \subseteq DOMAIN smmInterfaces
               /\ \A j \in Range(unseen'[x]) :
                     j \in Range(heard'[x]) \/ Awaits(Range(announcing), smmInterfaces, notifyList', j, x)
               /\ \A j \in Range(heard'[x]) : ~Awaits(Range(announcing), smmInterfaces, notifyList', j, x)
    <3>1. CASE x = r
      <4>1. heard'[x] = <<>> /\ unseen'[x] = <<>>
        BY <1>9, <1>10, <3>1
      <4>2. PICK none : none = <<>>
        OBVIOUS
      <4>3. Range(none) = {} /\ IsInjective(none)
        BY <4>2 DEF Range, IsInjective
      <4> QED
        BY <4>1, <4>2, <4>3
    <3>2. CASE x # r
      <4>1. x \in Range(notifyList[q]) /\ x \in DOMAIN registrations
        BY <1>11, <3>2
      <4>2. heard'[x] = heard[x] /\ unseen'[x] = unseen[x]
        BY <1>9, <1>10, <4>1
      <4>3. ASSUME NEW a \in Range(announcing)
            PROVE  Follows(notifyList'[smmInterfaces[a.interface].protocol], a.at, x) <=>
                   Follows(notifyList[smmInterfaces[a.interface].protocol], a.at, x)
        <5>1. PICK o : o = smmInterfaces[a.interface].protocol
          OBVIOUS
        <5>2. o \in SmmProtocolIds
          BY <1>3, <5>1, InterfaceIs DEF AnnouncementsFit, Installed
        <5>3. CASE o = p
          <6>1. PICK list, at0 : list = notifyList[p] /\ at0 = a.at
            OBVIOUS
          <6>2. list \in Seq(Nat) /\ r \notin Range(list)
            BY <1>5, <1>6, <1>11, <6>1
          <6>3. Follows(Append(list, r), at0, x) <=> Follows(list, at0, x)
            BY ONLY <1>6, <3>2, <6>2, FollowsAppend
          <6> QED
            BY <1>11, <5>1, <5>3, <6>1, <6>3
        <5>4. CASE o # p
          BY <1>11, <5>1, <5>2, <5>4
        <5> QED
          BY <5>3, <5>4
      <4>4. \A j : Awaits(Range(announcing), smmInterfaces, notifyList', j, x) <=>
                   Awaits(Range(announcing), smmInterfaces, notifyList, j, x)
        BY <4>3, AwaitsSame
      <4> QED
        BY <1>3, <4>1, <4>2, <4>4 DEF AllHear
    <3> QED
      BY <3>1, <3>2
  <2> QED
    BY <1>4, <2>1 DEF AllHear
<1>15. SmmTypes'
  BY <1>3, <1>4, <1>8, <1>9, <1>10, <1>11 DEF SmmTypes
<1>16. HandlesLinked' /\ ProtocolsLinked'
  BY <1>3, <1>4 DEF HandlesLinked, ProtocolsLinked, Installed
<1> QED
  BY <1>12, <1>13, <1>14, <1>15, <1>16 DEF SmmInv

(* A registration that no announcement has come to leaves the others what  *)
(* they wait for.                                                          *)
LEMMA UnregisterStep ==
    ASSUME SmmInv, SmmUnregisterProtocolNotify
    PROVE  SmmInv'
<1>1. PICK p \in SmmProtocolIds : \E r \in Range(notifyList[p]) :
         /\ \A k \in DOMAIN announcing : announcing[k].at # r
         /\ notifyList' = [notifyList EXCEPT ![p] = RemoveFirst(@, r)]
         /\ UNCHANGED <<handleVars, registrations, announcing, locates, heard, unseen>>
  BY DEF SmmUnregisterProtocolNotify
<1>2. PICK r \in Range(notifyList[p]) :
         /\ \A k \in DOMAIN announcing : announcing[k].at # r
         /\ notifyList' = [notifyList EXCEPT ![p] = RemoveFirst(@, r)]
         /\ UNCHANGED <<gSmmHandleList, smmInterfaces, byHandle, byProtocol,
                        registrations, announcing, heard, unseen>>
  BY <1>1 DEF handleVars
<1>3. /\ SmmTypes /\ HandlesLinked /\ ProtocolsLinked /\ RegistrationsLinked /\ AnnouncementsFit
      /\ AllHear(Range(announcing), smmInterfaces, notifyList, unseen, heard)
  BY DEF SmmInv
<1>4. PICK list : list = notifyList[p]
  OBVIOUS
<1>5. list \in Seq(Nat) /\ IsInjective(list) /\ notifyList \in [SmmProtocolIds -> Seq(Nat)]
  BY <1>3, <1>4 DEF SmmTypes, RegistrationsLinked
<1>6. /\ RemoveFirst(list, r) \in Seq(Nat) /\ IsInjective(RemoveFirst(list, r))
      /\ Range(RemoveFirst(list, r)) = Range(list) \ {r}
  BY <1>5, RemoveElements
<1>7. /\ notifyList' \in [SmmProtocolIds -> Seq(Nat)] /\ notifyList'[p] = RemoveFirst(list, r)
      /\ \A q \in SmmProtocolIds : q # p => notifyList'[q] = notifyList[q]
      /\ \A q \in SmmProtocolIds : Range(notifyList'[q]) = Range(notifyList[q]) \ {r}
  <2>1. notifyList' \in [SmmProtocolIds -> Seq(Nat)] /\ notifyList'[p] = RemoveFirst(list, r)
        /\ \A q \in SmmProtocolIds : q # p => notifyList'[q] = notifyList[q]
    BY <1>2, <1>4, <1>5, <1>6
  <2>2. ASSUME NEW q \in SmmProtocolIds PROVE Range(notifyList'[q]) = Range(notifyList[q]) \ {r}
    <3>1. CASE q = p
      BY <1>4, <1>6, <2>1, <3>1
    <3>2. CASE q # p
      <4>1. r \notin Range(notifyList[q])
        BY <1>3, <3>2 DEF RegistrationsLinked
      <4> QED
        BY <2>1, <3>2, <4>1
    <3> QED
      BY <3>1, <3>2
  <2> QED
    BY <2>1, <2>2
<1>8. \A a \in Range(announcing) : a.at # r
  BY <1>2 DEF Range
<1>9. RegistrationsLinked'
  <2>1. ASSUME NEW q \in SmmProtocolIds
        PROVE  IsInjective(notifyList'[q]) /\ Range(notifyList'[q]) \subseteq DOMAIN registrations'
    BY <1>2, <1>3, <1>6, <1>7 DEF RegistrationsLinked
  <2>2. ASSUME NEW q \in SmmProtocolIds, NEW o \in SmmProtocolIds, q # o
        PROVE  Range(notifyList'[q]) \cap Range(notifyList'[o]) = {}
    BY <1>3, <1>7, <2>2 DEF RegistrationsLinked
  <2>3. ASSUME NEW q \in SmmProtocolIds, NEW x \in Range(notifyList'[q])
        PROVE  LET y == registrations'[x].Position IN
               /\ y = ListHead \/ y \in Range(byProtocol'[q])
               /\ unseen'[x] = Behind(byProtocol'[q], y)
    <3>1. x \in Range(notifyList[q])
      BY <1>7
    <3> QED
      BY <1>2, <1>3, <3>1 DEF RegistrationsLinked
  <2> QED
    BY <2>1, <2>2, <2>3 DEF RegistrationsLinked
<1>10. AnnouncementsFit'
  <2>1. ASSUME NEW a \in Range(announcing)
        PROVE  a.interface \in Installed' /\ a.at \in Range(notifyList'[smmInterfaces[a.interface].protocol])
    <3>1. a.interface \in Installed /\ a.at \in Range(notifyList[smmInterfaces[a.interface].protocol])
      BY <1>3 DEF AnnouncementsFit
    <3>2. smmInterfaces[a.interface].protocol \in SmmProtocolIds
      BY <1>3, <3>1, InterfaceIs DEF Installed
    <3> QED
      BY <1>2, <1>7, <1>8, <3>1, <3>2 DEF Installed
  <2> QED
    BY <1>2, <1>3, <2>1 DEF AnnouncementsFit
<1>11. AllHear(Range(announcing'), smmInterfaces', notifyList', unseen', heard')
  <2>1. ASSUME NEW q \in SmmProtocolIds, NEW x \in Range(notifyList'[q])
        PROVE  /\ x \in Range(notifyList[q])
               /\ \A j : Awaits(Range(announcing), smmInterfaces, notifyList', j, x) <=>
                         Awaits(Range(announcing), smmInterfaces, notifyList, j, x)
    <3>1. x \in Range(notifyList[q]) /\ x # r
      BY <1>7
    <3>2. ASSUME NEW a \in Range(announcing)
          PROVE  Follows(notifyList'[smmInterfaces[a.interface].protocol], a.at, x) <=>
                 Follows(notifyList[smmInterfaces[a.interface].protocol], a.at, x)
      <4>1. PICK o, at : o = smmInterfaces[a.interface].protocol /\ at = a.at
        OBVIOUS
      <4>2. o \in SmmProtocolIds /\ at # r
        BY <1>3, <1>8, <4>1, InterfaceIs DEF AnnouncementsFit, Installed
      <4>3. Follows(RemoveFirst(list, r), at, x) <=> Follows(list, at, x)
        BY ONLY <1>5, <3>1, <4>2, FollowsRemove
      <4> QED
        BY <1>4, <1>7, <4>1, <4>2, <4>3
    <3>3. \A j : Awaits(Range(announcing), smmInterfaces, notifyList', j, x) <=>
                 Awaits(Range(announcing), smmInterfaces, notifyList, j, x)
      BY <3>2, AwaitsSame
    <3> QED
      BY <3>1, <3>3
  <2>2. AllHear(Range(announcing), smmInterfaces, notifyList', unseen, heard)
    BY <1>3, <2>1 DEF AllHear
  <2> QED
    BY <1>2, <2>2
<1>12. SmmTypes'
  BY <1>2, <1>3, <1>7 DEF SmmTypes
<1>13. HandlesLinked' /\ ProtocolsLinked'
  BY <1>2, <1>3 DEF HandlesLinked, ProtocolsLinked, Installed
<1> QED
  BY <1>9, <1>10, <1>11, <1>12, <1>13 DEF SmmInv

(* SmmGetNextLocateByRegisterNotify: the interface behind Position, if any.*)
LEMMA NextLocated ==
    ASSUME SmmTypes, ProtocolsLinked, RegistrationsLinked,
           NEW p \in SmmProtocolIds, NEW r \in Range(notifyList[p]),
           NEW n, n = ByRegisterNotify(p, r), n # 0
    PROVE  /\ n \in Range(byProtocol[p]) /\ n \in Nat
           /\ Behind(byProtocol[p], n) = RemoveFirst(unseen[r], n)
<1>1. PICK list, at : list = byProtocol[p] /\ at = registrations[r].Position
  OBVIOUS
<1>2. /\ list \in Seq(Nat) /\ Distinct(list) /\ unseen[r] = Behind(list, at)
      /\ at = ListHead \/ at \in Range(list)
      /\ ListHead \notin Range(list)
  BY <1>1, Registered
<1>3. /\ Len(list) \in Nat /\ IsInjective(list) /\ Range(list) \subseteq Nat
      /\ \A x : x \in Range(list) <=> \E i \in 1 .. Len(list) : list[i] = x
  BY <1>2, Elements, LenProperties
<1>4. PICK k \in 0 .. Len(list) :
          Stands(list, k, at) /\ n = IF k = Len(list) THEN 0 ELSE list[k + 1]
  <2>1. CASE at = ListHead
    <3>1. Stands(list, 0, at)
      BY <1>2, <1>3, <2>1 DEF Stands
    <3>2. n = IF 0 = Len(list) THEN 0 ELSE list[0 + 1]
      BY <1>1, <2>1 DEF ByRegisterNotify
    <3> QED
      BY <1>3, <3>1, <3>2
  <2>2. CASE at # ListHead
    <3>1. PICK k \in 1 .. Len(list) : list[k] = at
      BY <1>2, <1>3, <2>2
    <3>2. {i \in 1 .. Len(list) : list[i] = at} # {} /\ Min({i \in 1 .. Len(list) : list[i] = at}) = k
      BY <1>2, <1>3, <3>1, SelectKnown
    <3>3. n = IF k = Len(list) THEN 0 ELSE list[k + 1]
      BY <1>1, <2>2, <3>2 DEF ByRegisterNotify, SelectInSeq
    <3>4. Stands(list, k, at) /\ k \in 0 .. Len(list)
      BY <1>3, <3>1 DEF Stands
    <3> QED
      BY <3>3, <3>4
  <2> QED
    BY <2>1, <2>2
<1>5. k + 1 \in 1 .. Len(list) /\ n = list[k + 1]
  BY <1>3, <1>4
<1>6. /\ Behind(list, at) \in Seq(Nat) /\ Len(Behind(list, at)) = Len(list) - k
      /\ \A i \in 1 .. Len(list) - k : Behind(list, at)[i] = list[k + i]
  <2>1. Stands(list, k, at) /\ k \in 0 .. Len(list) /\ list \in Seq(Nat) /\ Distinct(list)
    BY <1>2, <1>4
  <2> QED
    BY ONLY <2>1, BehindIs
<1>7. Behind(list, at) # <<>> /\ Behind(list, at)[1] = n
  <2>1. 1 \in 1 .. Len(list) - k
    BY <1>3, <1>5
  <2>2. Len(Behind(list, at)) # 0
    BY <1>3, <1>6, <2>1
  <2> QED
    BY <1>5, <1>6, <2>1, <2>2, EmptySeq
<1>8. Behind(list, Behind(list, at)[1]) = RemoveFirst(Behind(list, at), Behind(list, at)[1])
  BY <1>2, <1>7, BehindNext
<1> QED
  BY <1>1, <1>2, <1>3, <1>5, <1>7, <1>8

(* What a registration has located is the first it had not located yet.    *)
LEMMA LocateStep ==
    ASSUME SmmInv, SmmLocateByRegistration
    PROVE  SmmInv'
<1>1. PICK p \in SmmProtocolIds : \E r \in Range(notifyList[p]) :
         /\ SmmLocateHandleBuffer("ByRegisterNotify", p, r).status = "EFI_SUCCESS"
         /\ registrations' = [registrations EXCEPT ![r].Position = ByRegisterNotify(p, r)]
         /\ unseen' = [unseen EXCEPT ![r] = RemoveFirst(@, ByRegisterNotify(p, r))]
         /\ UNCHANGED <<handleVars, notifyList, announcing, heard>>
  BY DEF SmmLocateByRegistration
<1>2. PICK r \in Range(notifyList[p]) :
         /\ SmmLocateHandleBuffer("ByRegisterNotify", p, r).status = "EFI_SUCCESS"
         /\ registrations' = [registrations EXCEPT ![r].Position = ByRegisterNotify(p, r)]
         /\ unseen' = [unseen EXCEPT ![r] = RemoveFirst(@, ByRegisterNotify(p, r))]
         /\ UNCHANGED <<gSmmHandleList, smmInterfaces, byHandle, byProtocol, notifyList, announcing, heard>>
  BY <1>1 DEF handleVars
<1>3. /\ SmmTypes /\ HandlesLinked /\ ProtocolsLinked /\ RegistrationsLinked /\ AnnouncementsFit
      /\ AllHear(Range(announcing), smmInterfaces, notifyList, unseen, heard)
  BY DEF SmmInv
<1>4. PICK n : n = ByRegisterNotify(p, r)
  OBVIOUS
<1>5. n # 0
  <2>1. SUFFICES ASSUME n = 0 PROVE FALSE
    OBVIOUS
  <2>2. SmmLocateHandle("ByRegisterNotify", p, r, 0).status = "EFI_NOT_FOUND"
    BY <1>4, <2>1 DEF SmmLocateHandle
  <2> QED
    BY <1>2, <2>2 DEF SmmLocateHandleBuffer
<1>6. /\ n \in Range(byProtocol[p]) /\ n \in Nat
      /\ Behind(byProtocol[p], n) = RemoveFirst(unseen[r], n)
  BY <1>3, <1>4, <1>5, NextLocated
<1>7. /\ r \in DOMAIN registrations /\ unseen[r] \in Seq(Nat) /\ IsInjective(unseen[r])
      /\ Len(registrations) \in Nat /\ DOMAIN registrations = 1 .. Len(registrations)
      /\ unseen \in Seq(Seq(Nat)) /\ Len(unseen) = Len(registrations)
  BY <1>3, Names, Registered DEF SmmTypes
<1>8. /\ RemoveFirst(unseen[r], n) \in Seq(Nat)
      /\ Range(RemoveFirst(unseen[r], n)) = Range(unseen[r]) \ {n}
  BY <1>7, RemoveElements
<1>9. /\ unseen' \in Seq(Seq(Nat)) /\ Len(unseen') = Len(unseen)
      /\ unseen'[r] = RemoveFirst(unseen[r], n)
      /\ \A x \in DOMAIN registrations : x # r => unseen'[x] = unseen[x]
  <2>1. PICK s, new : s = unseen /\ new = RemoveFirst(unseen[r], n)
    OBVIOUS
  <2>2. s \in Seq(Seq(Nat)) /\ r \in 1 .. Len(s) /\ new \in Seq(Nat) /\ unseen' = [s EXCEPT ![r] = new]
    BY <1>2, <1>4, <1>7, <1>8, <2>1
  <2>3. /\ [s EXCEPT ![r] = new] \in Seq(Seq(Nat)) /\ Len([s EXCEPT ![r] = new]) = Len(s)
        /\ [s EXCEPT ![r] = new][r] = new
        /\ \A x \in 1 .. Len(s) : x # r => [s EXCEPT ![r] = new][x] = s[x]
    BY <2>2, ExceptSeq
  <2> QED
    BY <1>7, <2>1, <2>2, <2>3
<1>10. /\ registrations' \in Seq([function : SmmFunctions, Position : Nat \cup {ListHead}])
       /\ Len(registrations') = Len(registrations) /\ DOMAIN registrations' = DOMAIN registrations
       /\ registrations'[r].Position = n
       /\ \A x \in DOMAIN registrations : x # r => registrations'[x] = registrations[x]
  <2>1. PICK R : R = [function : SmmFunctions, Position : Nat \cup {ListHead}]
    OBVIOUS
  <2>2. PICK s, new : s = registrations /\ new = [registrations[r] EXCEPT !.Position = n]
    OBVIOUS
  <2>3. s \in Seq(R) /\ r \in 1 .. Len(s)
    BY <1>3, <1>7, <2>1, <2>2 DEF SmmTypes
  <2>4. s[r] \in R
    BY ONLY <2>3, ElementOfSeq
  <2>5. new \in R /\ new.Position = n
    BY <1>6, <2>1, <2>2, <2>4
  <2>6. registrations' = [s EXCEPT ![r] = new]
    BY <1>2, <1>4, <2>2
  <2>7. /\ [s EXCEPT ![r] = new] \in Seq(R) /\ Len([s EXCEPT ![r] = new]) = Len(s)
        /\ [s EXCEPT ![r] = new][r] = new
        /\ \A x \in 1 .. Len(s) : x # r => [s EXCEPT ![r] = new][x] = s[x]
    BY ONLY <2>3, <2>5, ExceptSeq
  <2>8. DOMAIN [s EXCEPT ![r] = new] = DOMAIN s
    OBVIOUS
  <2>9. registrations' \in Seq([function : SmmFunctions, Position : Nat \cup {ListHead}])
    BY <2>1, <2>6, <2>7
  <2> QED
    BY <1>7, <2>2, <2>5, <2>6, <2>7, <2>8, <2>9
<1>11. RegistrationsLinked'
  <2>1. \A q \in SmmProtocolIds :
           IsInjective(notifyList'[q]) /\ Range(notifyList'[q]) \subseteq DOMAIN registrations'
    BY <1>2, <1>3, <1>10 DEF RegistrationsLinked
  <2>2. \A q, o \in SmmProtocolIds : q # o => Range(notifyList'[q]) \cap Range(notifyList'[o]) = {}
    BY <1>2, <1>3 DEF RegistrationsLinked
  <2>3. ASSUME NEW q \in SmmProtocolIds, NEW x \in Range(notifyList'[q])
        PROVE  LET y == registrations'[x].Position IN
               /\ y = ListHead \/ y \in Range(byProtocol'[q])
               /\ unseen'[x] = Behind(byProtocol'[q], y)
    <3>1. x \in Range(notifyList[q]) /\ x \in DOMAIN registrations
      BY <1>2, <1>3 DEF RegistrationsLinked
    <3>2. CASE x = r
      <4>1. q = p
        BY <1>3, <3>1, <3>2 DEF RegistrationsLinked
      <4> QED
        BY <1>2, <1>6, <1>9, <1>10, <3>2, <4>1
    <3>3. CASE x # r
      BY <1>2, <1>3, <1>9, <1>10, <3>1, <3>3 DEF RegistrationsLinked
    <3> QED
      BY <3>2, <3>3
  <2> QED
    BY <2>1, <2>2, <2>3 DEF RegistrationsLinked
<1>12. AllHear(Range(announcing'), smmInterfaces', notifyList', unseen', heard')
  <2>1. ASSUME NEW q \in SmmProtocolIds, NEW x \in Range(notifyList[q])
        PROVE  Range(unseen'[x]) \subseteq Range(unseen[x])
    <3>1. x \in DOMAIN registrations
      BY <1>3 DEF RegistrationsLinked
    <3> QED
      BY <1>8, <1>9, <3>1
  <2>2. AllHear(Range(announcing), smmInterfaces, notifyList, unseen', heard)
    BY <1>3, <2>1, StillHeard
  <2> QED
    BY <1>2, <2>2
<1>13. SmmTypes'
  BY <1>2, <1>3, <1>9, <1>10 DEF SmmTypes
<1>14. HandlesLinked' /\ ProtocolsLinked' /\ AnnouncementsFit'
  BY <1>2, <1>3 DEF HandlesLinked, ProtocolsLinked, AnnouncementsFit, Installed
<1> QED
  BY <1>11, <1>12, <1>13, <1>14 DEF SmmInv

-----------------------------------------------------------------------------
(* What the services answer. *)

(* The buffer that was asked for holds every handle.                       *)
LEMMA BufferHolds ==
    ASSUME NEW SearchType, NEW p, NEW r, NEW found \in Seq(Nat),
           \A room : SmmLocateHandle(SearchType, p, r, room) =
              [size |-> Len(found),
               handles |-> SubSeq(found, 1, IF room < Len(found) THEN room ELSE Len(found)),
               status |-> IF found = <<>> THEN "EFI_NOT_FOUND"
                          ELSE IF Len(found) > room THEN "EFI_BUFFER_TOO_SMALL" ELSE "EFI_SUCCESS"]
    PROVE  SmmLocateHandleBuffer(SearchType, p, r).handles = found
<1>1. /\ SmmLocateHandle(SearchType, p, r, 0).status =
              IF found = <<>> THEN "EFI_NOT_FOUND"
              ELSE IF Len(found) > 0 THEN "EFI_BUFFER_TOO_SMALL" ELSE "EFI_SUCCESS"
      /\ SmmLocateHandle(SearchType, p, r, 0).size = Len(found)
      /\ SmmLocateHandle(SearchType, p, r, 0).handles =
              SubSeq(found, 1, IF 0 < Len(found) THEN 0 ELSE Len(found))
  OBVIOUS
<1>2. Len(found) \in Nat /\ (found = <<>> <=> Len(found) = 0)
  BY LenProperties, EmptySeq
<1>3. SubSeq(found, 1, Len(found)) = found
  <2>1. PICK t : t = SubSeq(found, 1, Len(found))
    OBVIOUS
  <2>2. t \in Seq(Nat) /\ Len(t) = Len(found) /\ \A i \in 1 .. Len(found) : t[i] = found[i]
    <3>1. Len(found) \in 0 .. Len(found)
      BY <1>2
    <3> QED
      BY <2>1, <3>1, Leading
  <2>3. t = found
    BY <2>2, SeqEqual
  <2> QED
    BY <2>1, <2>3
<1>4. CASE found = <<>>
  <2>1. SmmLocateHandleBuffer(SearchType, p, r) = SmmLocateHandle(SearchType, p, r, 0)
    BY <1>1, <1>4 DEF SmmLocateHandleBuffer
  <2>2. Len(found) = 0
    BY <1>2, <1>4
  <2>3. SmmLocateHandle(SearchType, p, r, 0).handles = SubSeq(found, 1, Len(found))
    BY <1>1, <2>2
  <2> QED
    BY <1>3, <2>1, <2>3
<1>5. CASE found # <<>>
  <2>1. SmmLocateHandle(SearchType, p, r, 0).status = "EFI_BUFFER_TOO_SMALL"
    BY <1>1, <1>2, <1>5
  <2>2. SmmLocateHandleBuffer(SearchType, p, r) = SmmLocateHandle(SearchType, p, r, Len(found))
    BY <1>1, <2>1 DEF SmmLocateHandleBuffer
  <2>3. SmmLocateHandle(SearchType, p, r, Len(found)).handles =
           SubSeq(found, 1, IF Len(found) < Len(found) THEN Len(found) ELSE Len(found))
    OBVIOUS
  <2> QED
    BY <1>3, <2>2, <2>3
<1> QED
  BY <1>4, <1>5

(* No handle carries a protocol twice, so the stamps pass over none.       *)
LEMMA HandlesTaken ==
    ASSUME SmmTypes, ProtocolsLinked, NEW p \in SmmProtocolIds,
           NEW list, list = byProtocol[p]
    PROVE  ByProtocol(p) = [j \in 1 .. Len(list) |-> smmInterfaces[list[j]].handle]
<1> DEFINE handle(j) == smmInterfaces[list[j]].handle
           first(k) == [j \in 1 .. k |-> handle(j)]
           Takes(f) == f = [k \in 0 .. Len(list) |->
                               IF k = 0 THEN <<>>
                               ELSE IF Contains(f[k - 1], handle(k)) THEN f[k - 1] ELSE Append(f[k - 1], handle(k))]
<1>1. list \in Seq(Nat) /\ IsInjective(list) /\ Len(list) \in Nat
  BY LenProperties DEF SmmTypes, ProtocolsLinked
<1>2. ASSUME NEW k \in 1 .. Len(list)
      PROVE  /\ list[k] \in Installed /\ smmInterfaces[list[k]] = [handle |-> handle(k), protocol |-> p]
             /\ handle(k) \in Nat
  <2>1. list[k] \in Range(list)
    BY <1>1, Elements
  <2>2. list[k] \in Installed /\ smmInterfaces[list[k]].protocol = p
    BY <2>1 DEF ProtocolsLinked
  <2>3. PICK i, R : i = list[k] /\ R = [handle : Nat, protocol : SmmProtocolIds]
    OBVIOUS
  <2>4. i \in DOMAIN smmInterfaces /\ smmInterfaces \in Seq(R)
    BY <2>2, <2>3 DEF Installed, SmmTypes
  <2>5. smmInterfaces[i] \in R
    <3>1. DOMAIN smmInterfaces = 1 .. Len(smmInterfaces)
      BY ONLY <2>4, LenProperties
    <3> QED
      BY ONLY <2>4, <3>1, ElementOfSeq
  <2> QED
    BY <2>2, <2>3, <2>5
<1>3. ASSUME NEW k \in 1 .. Len(list) PROVE handle(k) \in Nat
  BY <1>2
<1>4. ASSUME NEW k \in 1 .. Len(list), NEW j \in 1 .. Len(list), handle(k) = handle(j)
      PROVE  k = j
  <2>1. smmInterfaces[list[k]] = smmInterfaces[list[j]]
    BY <1>2, <1>4
  <2>2. list[k] = list[j]
    BY <1>2, <2>1 DEF ProtocolsLinked
  <2>3. Distinct(list)
    BY <1>1, Elements
  <2> QED
    BY <2>2, <2>3 DEF Distinct
<1>5. ASSUME NEW k \in Nat
      PROVE  k <= Len(list) => first(k) \in Seq(Nat) /\ Len(first(k)) = k /\ DOMAIN first(k) = 1 .. k
  <2>1. ASSUME k <= Len(list)
        PROVE  first(k) \in Seq(Nat) /\ Len(first(k)) = k /\ DOMAIN first(k) = 1 .. k
    <3>1. \A j \in 1 .. k : handle(j) \in Nat
      <4>1. ASSUME NEW j \in 1 .. k PROVE j \in 1 .. Len(list)
        BY <1>1, <2>1
      <4> HIDE DEF handle
      <4> QED
        BY <1>3, <4>1
    <3>2. PICK f : f = first(k)
      OBVIOUS
    <3>3. f \in Seq(Nat) /\ DOMAIN f = 1 .. k
      BY <3>1, <3>2
    <3>4. Len(f) = k
      BY ONLY <3>3, k \in Nat, LenProperties
    <3> QED
      BY <3>2, <3>3, <3>4
  <2> QED
    BY <2>1
<1>6. ASSUME NEW k \in 1 .. Len(list)
      PROVE  /\ ~Contains(first(k - 1), handle(k))
             /\ Append(first(k - 1), handle(k)) = first(k)
  <2>1. /\ k - 1 \in Nat /\ k - 1 <= Len(list) /\ k \in Nat /\ k <= Len(list)
    BY <1>1
  <2>2. PICK s, t, e : s = first(k - 1) /\ t = first(k) /\ e = handle(k)
    OBVIOUS
  <2>3. /\ s \in Seq(Nat) /\ Len(s) = k - 1 /\ t \in Seq(Nat) /\ Len(t) = k
    BY <1>5, <2>1, <2>2
  <2>4. \A j \in 1 .. k - 1 : s[j] = handle(j) /\ t[j] = handle(j)
    BY <2>1, <2>2
  <2>5. t[k] = e /\ e \in Nat
    <3>1. handle(k) \in Nat
      BY <1>3
    <3>2. t[k] = handle(k)
      BY <2>1, <2>2
    <3> QED
      BY <2>2, <3>1, <3>2
  <2>6. ~Contains(s, e)
    <3>1. ASSUME NEW j \in 1 .. k - 1 PROVE s[j] # e
      <4>1. j \in 1 .. Len(list) /\ j # k
        BY <1>1
      <4> QED
        BY <1>4, <2>2, <2>4, <4>1
    <3> QED
      BY <2>3, <3>1 DEF Contains
  <2>7. Append(s, e) = t
    <3>1. PICK u : u = Append(s, e)
      OBVIOUS
    <3>2. u \in Seq(Nat) /\ Len(u) = Len(s) + 1 /\ u[Len(s) + 1] = e /\ \A j \in 1 .. Len(s) : u[j] = s[j]
      BY ONLY <2>3, <2>5, <3>1, AppendProperties
    <3>3. Len(u) = Len(t) /\ \A j \in 1 .. Len(u) : u[j] = t[j]
      BY <2>1, <2>3, <2>4, <2>5, <3>2
    <3>4. u = t
      BY ONLY <2>3, <3>2, <3>3, SeqEqual
    <3> QED
      BY <3>1, <3>4
  <2> QED
    BY <2>2, <2>6, <2>7
<1>7. first(0) = <<>>
  OBVIOUS
<1> HIDE DEF handle, first
<1>8. \E f : Takes(f)
  <2>1. PICK g : g = [k \in 0 .. Len(list) |-> first(k)]
    OBVIOUS
  <2>2. ASSUME NEW k \in 0 .. Len(list)
        PROVE  first(k) = IF k = 0 THEN <<>>
                          ELSE IF Contains(g[k - 1], handle(k)) THEN g[k - 1] ELSE Append(g[k - 1], handle(k))
    <3>1. CASE k = 0
      BY <1>7, <3>1
    <3>2. CASE k # 0
      <4>1. k \in 1 .. Len(list) /\ k - 1 \in 0 .. Len(list)
        BY <1>1, <3>2
      <4>2. g[k - 1] = first(k - 1)
        BY <2>1, <4>1
      <4> QED
        BY <1>6, <3>2, <4>1, <4>2
    <3> QED
      BY <3>1, <3>2
  <2>3. Takes(g)
    BY <2>1, <2>2
  <2> QED
    BY <2>3
<1>9. PICK f : Takes(f) /\ ByProtocol(p) = f[Len(list)]
  <2>1. PICK f : f = CHOOSE g : Takes(g)
    OBVIOUS
  <2>2. Takes(f)
    BY <1>8, <2>1
  <2>3. ByProtocol(p) = f[Len(list)]
    BY <2>1 DEF ByProtocol, handle
  <2> QED
    BY <2>2, <2>3
<1> DEFINE P(k) == k <= Len(list) => f[k] = first(k)
           S == {k \in Nat : P(k)}
<1>10. P(0)
  BY <1>1, <1>7, <1>9
<1>11. ASSUME NEW k \in Nat, P(k) PROVE P(k + 1)
  <2>1. ASSUME k + 1 <= Len(list) PROVE f[k + 1] = first(k + 1)
    <3>1. /\ k + 1 \in 1 .. Len(list) /\ k + 1 \in 0 .. Len(list) /\ (k + 1) - 1 = k /\ k + 1 # 0
          /\ k <= Len(list)
      BY <1>1, <2>1
    <3>2. f[k] = first(k)
      BY <1>11, <3>1
    <3>3. f[k + 1] = IF Contains(f[(k + 1) - 1], handle(k + 1)) THEN f[(k + 1) - 1]
                     ELSE Append(f[(k + 1) - 1], handle(k + 1))
      BY <1>9, <3>1
    <3>4. ~Contains(first((k + 1) - 1), handle(k + 1)) /\ Append(first((k + 1) - 1), handle(k + 1)) = first(k + 1)
      BY <1>6, <3>1
    <3> QED
      BY <3>1, <3>2, <3>3, <3>4
  <2> QED
    BY <2>1
<1> HIDE DEF P
<1>12. 0 \in S /\ \A k \in Nat : k \in S => k + 1 \in S
  BY <1>10, <1>11
<1> HIDE DEF S
<1>13. Nat \subseteq S
  BY <1>12, Induction
<1>14. P(Len(list))
  BY <1>1, <1>13 DEF S
<1> QED
  BY <1>1, <1>9, <1>14 DEF P, first, handle

LEMMA LocatesInstalledHolds ==
    ASSUME SmmInv
    PROVE  LocatesInstalled
<1>1. SmmTypes /\ HandlesLinked /\ ProtocolsLinked /\ RegistrationsLinked
  BY DEF SmmInv
<1>2. gSmmHandleList \in Seq(Nat) /\ Range(gSmmHandleList) = {h \in DOMAIN byHandle : byHandle[h] # <<>>}
  BY <1>1 DEF SmmTypes, HandlesLinked
<1>3. ASSUME NEW p \in SmmProtocolIds
      PROVE  LET located == SmmLocateHandleBuffer("ByProtocol", p, 0).handles IN
             /\ Range(located) = {h \in Range(SmmLocateHandleBuffer("AllHandles", p, 0).handles) :
                                     InterfacesOf(h, p) # {}}
             /\ Len(located) = Len(byProtocol[p])
  <2>1. PICK list : list = byProtocol[p]
    OBVIOUS
  <2>2. PICK found : found = [j \in 1 .. Len(list) |-> smmInterfaces[list[j]].handle]
    OBVIOUS
  <2>3. list \in Seq(Nat) /\ Len(list) \in Nat /\ \A x : x \in Range(list) <=> \E j \in 1 .. Len(list) : list[j] = x
    BY <1>1, <2>1, Elements, LenProperties DEF SmmTypes
  <2>4. Range(list) = {i \in Installed : smmInterfaces[i].protocol = p}
    BY <1>1, <2>1 DEF ProtocolsLinked
  <2>5. found \in Seq(Nat) /\ Len(found) = Len(list)
    <3>1. ASSUME NEW j \in 1 .. Len(list) PROVE smmInterfaces[list[j]].handle \in Nat
      <4>1. list[j] \in DOMAIN smmInterfaces
        BY <2>3, <2>4 DEF Installed
      <4> QED
        BY <1>1, <4>1, InterfaceIs
    <3>2. found \in Seq(Nat)
      BY <2>2, <2>3, <3>1
    <3>3. DOMAIN found = 1 .. Len(list)
      BY <2>2
    <3> QED
      BY ONLY <2>3, <3>2, <3>3, LenProperties
  <2>6. SmmLocateHandleBuffer("ByProtocol", p, 0).handles = found
    <3>1. ByProtocol(p) = found
      BY <1>1, <2>1, <2>2, HandlesTaken
    <3>2. ASSUME NEW room
          PROVE  SmmLocateHandle("ByProtocol", p, 0, room) =
                    [size |-> Len(found),
                     handles |-> SubSeq(found, 1, IF room < Len(found) THEN room ELSE Len(found)),
                     status |-> IF found = <<>> THEN "EFI_NOT_FOUND"
                                ELSE IF Len(found) > room THEN "EFI_BUFFER_TOO_SMALL" ELSE "EFI_SUCCESS"]
      BY <3>1 DEF SmmLocateHandle
    <3>3. PICK type : type = "ByProtocol"
      OBVIOUS
    <3> QED
      BY <2>5, <3>2, <3>3, BufferHolds
  <2>7. SmmLocateHandleBuffer("AllHandles", p, 0).handles = gSmmHandleList
    <3>1. PICK all : all = gSmmHandleList
      OBVIOUS
    <3>2. ASSUME NEW room
          PROVE  SmmLocateHandle("AllHandles", p, 0, room) =
                    [size |-> Len(all),
                     handles |-> SubSeq(all, 1, IF room < Len(all) THEN room ELSE Len(all)),
                     status |-> IF all = <<>> THEN "EFI_NOT_FOUND"
                                ELSE IF Len(all) > room THEN "EFI_BUFFER_TOO_SMALL" ELSE "EFI_SUCCESS"]
      BY <3>1 DEF SmmLocateHandle
    <3> QED
      BY <1>2, <3>1, <3>2, BufferHolds
  <2>8. Range(found) = {h \in DOMAIN byHandle : byHandle[h] # <<>> /\ InterfacesOf(h, p) # {}}
    <3>1. \A h : h \in Range(found) <=> \E j \in 1 .. Len(list) : smmInterfaces[list[j]].handle = h
      BY <2>2, <2>3 DEF Range
    <3>2. ASSUME NEW h
          PROVE  (\E i \in Range(list) : smmInterfaces[i].handle = h) <=>
                    h \in DOMAIN byHandle /\ byHandle[h] # <<>> /\ InterfacesOf(h, p) # {}
      <4>1. ASSUME NEW i \in Range(list), smmInterfaces[i].handle = h
            PROVE  h \in DOMAIN byHandle /\ byHandle[h] # <<>> /\ InterfacesOf(h, p) # {}
        <5>1. i \in DOMAIN smmInterfaces /\ i \in Range(byHandle[h]) /\ smmInterfaces[i].protocol = p
          BY <2>4, <4>1 DEF Installed
        <5>2. h \in DOMAIN byHandle
          BY <1>1, <4>1, <5>1 DEF HandlesLinked
        <5>3. byHandle[h] \in Seq(Nat)
          BY <1>1, <5>2, Names
        <5>4. byHandle[h] # <<>>
          BY <5>1, <5>3, NoElements
        <5> QED
          BY <5>1, <5>2, <5>4 DEF InterfacesOf
      <4>2. ASSUME h \in DOMAIN byHandle, NEW i \in InterfacesOf(h, p)
            PROVE  i \in Range(list) /\ smmInterfaces[i].handle = h
        BY <1>1, <2>4, <4>2 DEF InterfacesOf, HandlesLinked, Installed
      <4> QED
        BY <4>1, <4>2
    <3> QED
      BY <2>3, <3>1, <3>2
  <2>9. Range(found) = {h \in Range(gSmmHandleList) : InterfacesOf(h, p) # {}}
    BY <1>2, <2>8
  <2> QED
    BY <2>1, <2>5, <2>6, <2>7, <2>9
<1>4. ASSUME NEW h \in DOMAIN byHandle PROVE ValidHandle(h) <=> byHandle[h] # <<>>
  <2>1. Contains(gSmmHandleList, h) <=> h \in Range(gSmmHandleList)
    BY <1>2, Elements DEF Contains
  <2> QED
    BY <1>2, <2>1 DEF ValidHandle
<1>5. ASSUME NEW p \in SmmProtocolIds, NEW r \in Range(notifyList[p])
      PROVE  LET list == byProtocol[p]
                 at == registrations[r].Position
             IN  /\ at = ListHead \/ Contains(list, at)
                 /\ unseen[r] = SubSeq(list, 1 + (IF at = ListHead THEN 0 ELSE SelectInSeq(list, LAMBDA x : x = at)),
                                       Len(list))
  <2>1. PICK list, at : list = byProtocol[p] /\ at = registrations[r].Position
    OBVIOUS
  <2>2. /\ at = ListHead \/ Contains(list, at)
        /\ \E k :
              /\ unseen[r] = SubSeq(list, 1 + k, Len(list))
              /\ at = ListHead => k = 0
              /\ at # ListHead =>
                    /\ {i \in 1 .. Len(list) : list[i] = at} # {}
                    /\ Min({i \in 1 .. Len(list) : list[i] = at}) = k
    <3>1. /\ list \in Seq(Nat) /\ Distinct(list) /\ unseen[r] = Behind(list, at)
          /\ at = ListHead \/ at \in Range(list)
          /\ ListHead \notin Range(list)
      BY <1>1, <2>1, Registered
    <3>2. /\ Len(list) \in Nat /\ IsInjective(list)
          /\ \A x : x \in Range(list) <=> \E i \in 1 .. Len(list) : list[i] = x
      BY <3>1, Elements, LenProperties
    <3>3. CASE at = ListHead
      <4>1. Stands(list, 0, at) /\ 0 \in 0 .. Len(list)
        BY <3>1, <3>2, <3>3 DEF Stands
      <4>2. Behind(list, at) = SubSeq(list, 0 + 1, Len(list))
        BY ONLY <3>1, <4>1, BehindPlace
      <4> QED
        BY <3>1, <3>3, <4>2
    <3>4. CASE at # ListHead
      <4>1. PICK k \in 1 .. Len(list) : list[k] = at
        BY <3>1, <3>2, <3>4
      <4>2. {i \in 1 .. Len(list) : list[i] = at} # {} /\ Min({i \in 1 .. Len(list) : list[i] = at}) = k
        BY <3>1, <3>2, <4>1, SelectKnown
      <4>3. Stands(list, k, at) /\ k \in 0 .. Len(list)
        BY <3>2, <4>1 DEF Stands
      <4>4. Behind(list, at) = SubSeq(list, k + 1, Len(list))
        BY ONLY <3>1, <4>3, BehindPlace
      <4>5. Contains(list, at)
        BY <4>1 DEF Contains
      <4>6. 1 + k = k + 1
        BY <3>2
      <4> QED
        BY <3>1, <3>4, <4>2, <4>4, <4>5, <4>6
    <3> QED
      BY <3>3, <3>4
  <2>3. PICK k :
           /\ unseen[r] = SubSeq(list, 1 + k, Len(list))
           /\ at = ListHead => k = 0
           /\ at # ListHead =>
                 /\ {i \in 1 .. Len(list) : list[i] = at} # {}
                 /\ Min({i \in 1 .. Len(list) : list[i] = at}) = k
    BY <2>2
  <2>4. at # ListHead => SelectInSeq(byProtocol[p], LAMBDA x : x = registrations[r].Position) = k
    BY <2>1, <2>3 DEF SelectInSeq
  <2> QED
    BY <2>1, <2>2, <2>3, <2>4
<1> QED
  BY <1>3, <1>4, <1>5 DEF LocatesInstalled

LEMMA HearsEachHolds ==
    ASSUME SmmInv
    PROVE  HearsEach
<1>1. SmmTypes /\ RegistrationsLinked /\ AllHear(Range(announcing), smmInterfaces, notifyList, unseen, heard)
  BY DEF SmmInv
<1>2. ASSUME NEW p \in SmmProtocolIds, NEW r \in Range(notifyList[p])
      PROVE  /\ \A k, l \in DOMAIN heard[r] : heard[r][k] = heard[r][l] => k = l
             /\ announcing = <<>> => Range(unseen[r]) \subseteq Range(heard[r])
  <2>1. /\ IsInjective(heard[r])
        /\ \A i \in Range(unseen[r]) :
              i \in Range(heard[r]) \/ Awaits(Range(announcing), smmInterfaces, notifyList, i, r)
    BY <1>1 DEF AllHear
  <2>2. \A k, l \in DOMAIN heard[r] : heard[r][k] = heard[r][l] => k = l
    BY <2>1 DEF IsInjective
  <2>3. ASSUME announcing = <<>> PROVE Range(unseen[r]) \subseteq Range(heard[r])
    <3>1. PICK none : none = <<>>
      OBVIOUS
    <3>2. Range(none) = {}
      BY <3>1 DEF Range
    <3>3. \A i : ~Awaits(Range(announcing), smmInterfaces, notifyList, i, r)
      BY <2>3, <3>1, <3>2 DEF Awaits
    <3> QED
      BY <2>1, <3>3
  <2> QED
    BY <2>2, <2>3
<1> QED
  BY <1>2 DEF HearsEach

LEMMA SmmInvInit ==
    ASSUME SmmInit
    PROVE  SmmInv
<1>1. PICK none : none = <<>>
  OBVIOUS
<1>2. Range(none) = {} /\ DOMAIN none = {} /\ IsInjective(none) /\ Len(none) = 0
  BY <1>1 DEF Range, IsInjective
<1>3. /\ gSmmHandleList = none /\ smmInterfaces = none /\ byHandle = none
      /\ byProtocol = [p \in SmmProtocolIds |-> none] /\ notifyList = [p \in SmmProtocolIds |-> none]
      /\ registrations = none /\ announcing = none /\ heard = none /\ unseen = none
  BY <1>1 DEF SmmInit
<1>4. SmmTypes
  <2>1. none \in Seq([handle : Nat, protocol : SmmProtocolIds]) /\ none \in Seq(Nat) /\ none \in Seq(Seq(Nat))
    BY <1>1
  <2>2. /\ none \in Seq([function : SmmFunctions, Position : Nat \cup {ListHead}])
        /\ none \in Seq([interface : Nat, at : Nat])
    BY <1>1
  <2> QED
    BY <1>3, <2>1, <2>2 DEF SmmTypes
<1>5. Installed = {}
  BY <1>2, <1>3 DEF Installed
<1>6. HandlesLinked /\ ProtocolsLinked
  BY <1>2, <1>3, <1>5 DEF HandlesLinked, ProtocolsLinked
<1>7. RegistrationsLinked
  BY <1>2, <1>3 DEF RegistrationsLinked
<1>8. AnnouncementsFit
  BY <1>2, <1>3 DEF AnnouncementsFit
<1>9. AllHear(Range(announcing), smmInterfaces, notifyList, unseen, heard)
  BY <1>2, <1>3 DEF AllHear
<1> QED
  BY <1>4, <1>6, <1>7, <1>8, <1>9 DEF SmmInv

LEMMA SmmInvStep ==
    ASSUME SmmInv, [SmmNext]_smmVars
    PROVE  SmmInv'
<1>1. CASE SmmInstallProtocolInterface
  BY <1>1, InstallStep
<1>2. CASE NotifyFunctionReturns
  BY <1>2, ReturnStep
<1>3. CASE SmmUninstallProtocolInterface
  BY <1>3, UninstallStep
<1>4. CASE SmmRegisterProtocolNotify
  BY <1>4, RegisterStep
<1>5. CASE SmmUnregisterProtocolNotify
  BY <1>5, UnregisterStep
<1>6. CASE SmmLocateByRegistration
  BY <1>6, LocateStep
<1>7. CASE UNCHANGED smmVars
  BY <1>7 DEF smmVars, SmmInv, SmmTypes, HandlesLinked, ProtocolsLinked, RegistrationsLinked,
              AnnouncementsFit, Installed
<1> QED
  BY <1>1, <1>2, <1>3, <1>4, <1>5, <1>6, <1>7 DEF SmmNext

(* Handles are located by the protocols they carry, registrations yield    *)
(* what was installed after them, and every function hears once of each.   *)
THEOREM InterfacesHold == SmmSpec => []InterfacesTold
<1>1. SmmInit => SmmInv
  BY SmmInvInit
<1>2. SmmInv /\ [SmmNext]_smmVars => SmmInv'
  BY SmmInvStep
<1>3. SmmInv => InterfacesTold
  BY LocatesInstalledHolds, HearsEachHolds DEF InterfacesTold
<1> QED
  BY <1>1, <1>2, <1>3, PTL DEF SmmSpec

-----------------------------------------------------------------------------
(***************************************************************************)
(* The SMI handlers.  Who is not unregistered is linked, who is linked and *)
(* unregistered is marked, and outside SMM nobody is marked; a walk stands *)
(* on a handler of its type.                                               *)
(***************************************************************************)
SmiEntries == [type : HandlerTypes, handlers : Seq(Nat)]

SmiCalls ==
    [type : HandlerTypes \cup {Root}, statuses : SUBSET Statuses, status : Statuses \cup {"EFI_NOT_FOUND"},
     at : Nat]

HandlersLinkedIn(root, entries) ==
    /\ root \in Seq(Nat) /\ entries \in Seq(SmiEntries)
    /\ \A i \in 1 .. Len(entries) : entries[i].handlers # <<>>

(* The handler h is in one of the lists.                                   *)
IsLinked(root, entries, h) ==
    h \in Range(root) \/ \E i \in 1 .. Len(entries) : h \in Range(entries[i].handlers)

HandlersFlagged ==
    /\ registered \in Nat /\ unregistered \subseteq 1 .. registered /\ ToRemove \subseteq unregistered
    /\ Linked \subseteq 1 .. registered
    /\ (1 .. registered) \ unregistered \subseteq Linked
    /\ Linked \cap unregistered \subseteq ToRemove
    /\ smis = <<>> => ToRemove = {}

(* What one call of SmiManage has answered so far.                         *)
Documented(smi) ==
    LET quiet == smi.statuses \cap {"EFI_SUCCESS", "EFI_WARN_INTERRUPT_SOURCE_QUIESCED"} # {}
    IN  /\ smi.status = "EFI_SUCCESS" => quiet
        /\ smi.type = Root /\ quiet => smi.status = "EFI_SUCCESS"
        /\ smi.type # Root /\ "EFI_INTERRUPT_PENDING" \in smi.statuses =>
               smi.at = 0 /\ smi.status = "EFI_INTERRUPT_PENDING"
        /\ smi.status = "EFI_NOT_FOUND" <=> smi.statuses \subseteq {"EFI_DEVICE_ERROR"}

SmisWalk ==
    /\ smis \in Seq(SmiCalls)
    /\ \A smi \in Range(smis) :
          Documented(smi) /\ (smi.at # 0 => smi.at \in Range(HandlersOf(smi.type)))

SmiInv == HandlersLinkedIn(mRootSmiEntry, mSmiEntryList) /\ HandlersFlagged /\ SmisWalk

LEMMA EntryIs ==
    ASSUME NEW entries \in Seq(SmiEntries), NEW i \in 1 .. Len(entries)
    PROVE  entries[i].type \in HandlerTypes /\ entries[i].handlers \in Seq(Nat)
<1>1. entries[i] \in SmiEntries
  BY ElementOfSeq
<1> QED
  BY <1>1 DEF SmiEntries

LEMMA LinkedIs ==
    ASSUME mSmiEntryList \in Seq(SmiEntries)
    PROVE  \A h : h \in Linked <=> IsLinked(mRootSmiEntry, mSmiEntryList, h)
<1>1. DOMAIN mSmiEntryList = 1 .. Len(mSmiEntryList)
  BY LenProperties
<1> QED
  BY <1>1 DEF Linked, IsLinked

(* The handlers of a type, after a change of the entries, too.             *)
TypeHandlers(root, entries, type) ==
    IF type = Root THEN root
    ELSE LET found == {i \in 1 .. Len(entries) : entries[i].type = type}
         IN  IF found = {} THEN <<>> ELSE entries[CHOOSE i \in found : TRUE].handlers

LEMMA HandlersAre ==
    /\ mSmiEntryList \in Seq(SmiEntries) =>
          \A type : HandlersOf(type) = TypeHandlers(mRootSmiEntry, mSmiEntryList, type)
    /\ mSmiEntryList' \in Seq(SmiEntries) =>
          \A type : HandlersOf(type)' = TypeHandlers(mRootSmiEntry', mSmiEntryList', type)
<1>1. ASSUME mSmiEntryList \in Seq(SmiEntries), NEW type
      PROVE  HandlersOf(type) = TypeHandlers(mRootSmiEntry, mSmiEntryList, type)
  <2>1. DOMAIN mSmiEntryList = 1 .. Len(mSmiEntryList)
    BY <1>1, LenProperties
  <2> QED
    BY <2>1 DEF HandlersOf, TypeHandlers, SmmCoreFindSmiEntry
<1>2. ASSUME mSmiEntryList' \in Seq(SmiEntries), NEW type
      PROVE  HandlersOf(type)' = TypeHandlers(mRootSmiEntry', mSmiEntryList', type)
  <2>1. DOMAIN mSmiEntryList' = 1 .. Len(mSmiEntryList')
    BY <1>2, LenProperties
  <2> QED
    BY <2>1 DEF HandlersOf, TypeHandlers, SmmCoreFindSmiEntry
<1> QED
  BY <1>1, <1>2

LEMMA HandlersTyped ==
    ASSUME NEW root, NEW entries, HandlersLinkedIn(root, entries), NEW type
    PROVE  /\ TypeHandlers(root, entries, type) \in Seq(Nat)
           /\ \A h \in Range(TypeHandlers(root, entries, type)) : IsLinked(root, entries, h)
<1>1. CASE type = Root
  BY <1>1 DEF TypeHandlers, HandlersLinkedIn, IsLinked
<1>2. CASE type # Root
  <2>1. PICK found : found = {i \in 1 .. Len(entries) : entries[i].type = type}
    OBVIOUS
  <2>2. CASE found = {}
    BY <1>2, <2>1, <2>2 DEF TypeHandlers, Range
  <2>3. CASE found # {}
    <3>1. PICK i \in found : i = CHOOSE j \in found : TRUE
      BY <2>3
    <3>2. i \in 1 .. Len(entries) /\ TypeHandlers(root, entries, type) = entries[i].handlers
      BY <1>2, <2>1, <2>3, <3>1 DEF TypeHandlers
    <3> QED
      BY <3>2, EntryIs DEF HandlersLinkedIn, IsLinked
  <2> QED
    BY <2>2, <2>3
<1> QED
  BY <1>1, <1>2

(* RemoveSmiHandler. *)
LEMMA RemovedHandlers ==
    ASSUME HandlersLinkedIn(mRootSmiEntry, mSmiEntryList), NEW gone, RemoveSmiHandlers(gone)
    PROVE  /\ HandlersLinkedIn(mRootSmiEntry', mSmiEntryList')
           /\ Linked' = Linked \ gone
<1>1. PICK root, entries : root = mRootSmiEntry /\ entries = mSmiEntryList
  OBVIOUS
<1>2. root \in Seq(Nat) /\ entries \in Seq(SmiEntries)
  BY <1>1 DEF HandlersLinkedIn
<1> DEFINE left(i) == [entries[i] EXCEPT !.handlers = Without(@, gone)]
<1>3. PICK kept : kept = [i \in 1 .. Len(entries) |-> left(i)]
  OBVIOUS
<1>4. PICK empty : empty = [type : HandlerTypes, handlers : {<<>>}]
  OBVIOUS
<1>5. mRootSmiEntry' = Without(root, gone) /\ mSmiEntryList' = Without(kept, empty)
  <2>1. DOMAIN entries = 1 .. Len(entries)
    BY <1>2, LenProperties
  <2> QED
    BY <1>1, <1>3, <1>4, <2>1 DEF RemoveSmiHandlers
<1>6. mRootSmiEntry' \in Seq(Nat) /\ Range(mRootSmiEntry') = Range(root) \ gone
  <2>1. PICK w : w = Without(root, gone)
    OBVIOUS
  <2>2. w \in Seq(Nat) /\ Range(w) = Range(root) \ gone
    BY ONLY <1>2, <2>1, WithoutElements
  <2> QED
    BY <1>5, <2>1, <2>2
<1>7. ASSUME NEW i \in 1 .. Len(entries)
      PROVE  /\ left(i) \in SmiEntries /\ left(i).type = entries[i].type
             /\ left(i).handlers \in Seq(Nat)
             /\ Range(left(i).handlers) = Range(entries[i].handlers) \ gone
             /\ left(i).handlers = <<>> => left(i) \in empty
  <2>1. PICK t, s : t = entries[i].type /\ s = entries[i].handlers
    OBVIOUS
  <2>2. t \in HandlerTypes /\ s \in Seq(Nat)
    BY <1>2, <2>1, EntryIs
  <2>3. PICK w : w = Without(s, gone)
    OBVIOUS
  <2>4. w \in Seq(Nat) /\ Range(w) = Range(s) \ gone
    BY ONLY <2>2, <2>3, WithoutElements
  <2>5. left(i) = [type |-> t, handlers |-> w]
    <3>1. entries[i] \in SmiEntries
      BY <1>2, ElementOfSeq
    <3>2. entries[i] = [type |-> t, handlers |-> s]
      BY <2>1, <3>1 DEF SmiEntries
    <3>3. left(i) = [[type |-> t, handlers |-> s] EXCEPT !.handlers = Without(s, gone)]
      BY <3>2
    <3> HIDE DEF left
    <3> QED
      BY <2>3, <3>3
  <2> HIDE DEF left
  <2>6. left(i).type = t /\ left(i).handlers = w
    BY <2>5
  <2>7. left(i) \in SmiEntries
    BY <2>2, <2>4, <2>5 DEF SmiEntries
  <2>8. w = <<>> => left(i) \in empty
    BY <1>4, <2>2, <2>5
  <2> QED
    BY <2>1, <2>4, <2>6, <2>7, <2>8
<1> HIDE DEF left
<1>8. kept \in Seq(SmiEntries) /\ Len(kept) = Len(entries) /\ Len(entries) \in Nat
  <2>1. Len(entries) \in Nat
    BY <1>2, LenProperties
  <2>2. kept \in Seq(SmiEntries)
    BY <1>3, <1>7, <2>1
  <2>3. DOMAIN kept = 1 .. Len(entries)
    BY <1>3
  <2> QED
    BY ONLY <2>1, <2>2, <2>3, LenProperties
<1>9. PICK rest : rest = mSmiEntryList'
  OBVIOUS
<1>10. rest \in Seq(SmiEntries) /\ Range(rest) = Range(kept) \ empty
  <2>1. rest = Without(kept, empty)
    BY <1>5, <1>9
  <2> QED
    BY ONLY <1>8, <2>1, WithoutElements
<1>11. \A e : e \in Range(kept) <=> \E i \in 1 .. Len(entries) : e = left(i)
  <2>1. \A e : e \in Range(kept) <=> \E i \in 1 .. Len(kept) : kept[i] = e
    BY ONLY <1>8, Elements
  <2> QED
    BY <1>3, <1>8, <2>1
<1>12. \A e : e \in Range(rest) <=> \E i \in 1 .. Len(rest) : rest[i] = e
  BY ONLY <1>10, Elements
<1>13. ASSUME NEW i \in 1 .. Len(rest) PROVE rest[i].handlers # <<>>
  <2>1. rest[i] \in Range(kept) /\ rest[i] \notin empty
    BY <1>10, <1>12
  <2>2. PICK j \in 1 .. Len(entries) : rest[i] = left(j)
    BY <1>11, <2>1
  <2> QED
    BY <1>7, <2>1, <2>2
<1>14. ASSUME NEW h
       PROVE  (\E i \in 1 .. Len(rest) : h \in Range(rest[i].handlers)) <=>
              h \notin gone /\ \E i \in 1 .. Len(entries) : h \in Range(entries[i].handlers)
  <2>1. ASSUME NEW i \in 1 .. Len(rest), h \in Range(rest[i].handlers)
        PROVE  h \notin gone /\ \E j \in 1 .. Len(entries) : h \in Range(entries[j].handlers)
    <3>1. PICK j \in 1 .. Len(entries) : rest[i] = left(j)
      BY <1>10, <1>11, <1>12
    <3> QED
      BY <1>7, <2>1, <3>1
  <2>2. ASSUME h \notin gone, NEW i \in 1 .. Len(entries), h \in Range(entries[i].handlers)
        PROVE  \E j \in 1 .. Len(rest) : h \in Range(rest[j].handlers)
    <3>1. PICK e : e = left(i)
      OBVIOUS
    <3>2. e \in Range(kept) /\ h \in Range(e.handlers)
      BY <1>7, <1>11, <2>2, <3>1
    <3>3. e \notin empty
      <4> SUFFICES ASSUME e \in empty PROVE FALSE
        OBVIOUS
      <4>1. e.handlers = <<>>
        BY <1>4
      <4>2. PICK none : none = e.handlers
        OBVIOUS
      <4>3. none \in Seq(Nat) /\ none = <<>>
        BY <4>1, <4>2
      <4>4. h \notin Range(none)
        BY ONLY <4>3, NoElements
      <4> QED
        BY <3>2, <4>2, <4>4
    <3>4. PICK j \in 1 .. Len(rest) : rest[j] = e
      BY <1>10, <1>12, <3>2, <3>3
    <3> QED
      BY <3>2, <3>4
  <2> QED
    BY <2>1, <2>2
<1>15. \A h : h \in Linked <=> IsLinked(root, entries, h)
  BY <1>1, <1>2, LinkedIs
<1>16. \A h : h \in Linked' <=> IsLinked(mRootSmiEntry', rest, h)
  <2>1. DOMAIN rest = 1 .. Len(rest)
    BY <1>10, LenProperties
  <2> QED
    BY <1>9, <2>1 DEF Linked, IsLinked
<1>17. Linked' = Linked \ gone
  BY <1>6, <1>14, <1>15, <1>16 DEF IsLinked
<1> QED
  BY <1>6, <1>9, <1>10, <1>13, <1>17 DEF HandlersLinkedIn

(* SmiHandlerRegister: at the end of the list of its type, which is new    *)
(* for a type without handlers.                                            *)
LEMMA RegisteredHandlers ==
    ASSUME HandlersLinkedIn(mRootSmiEntry, mSmiEntryList), NEW type \in HandlerTypes \cup {Root}, NEW handle \in Nat,
           IF type = Root
           THEN mRootSmiEntry' = Append(mRootSmiEntry, handle) /\ mSmiEntryList' = mSmiEntryList
           ELSE /\ mSmiEntryList' =
                     IF SmmCoreFindSmiEntry(type) = {}
                     THEN Append(mSmiEntryList, [type |-> type, handlers |-> <<handle>>])
                     ELSE [mSmiEntryList EXCEPT ![CHOOSE i \in SmmCoreFindSmiEntry(type) : TRUE].handlers =
                               Append(@, handle)]
                /\ mRootSmiEntry' = mRootSmiEntry
    PROVE  /\ HandlersLinkedIn(mRootSmiEntry', mSmiEntryList')
           /\ Linked' = Linked \cup {handle}
           /\ \A t : Range(HandlersOf(t)) \subseteq Range(HandlersOf(t)')
<1>1. PICK root, entries : root = mRootSmiEntry /\ entries = mSmiEntryList
  OBVIOUS
<1>2. root \in Seq(Nat) /\ entries \in Seq(SmiEntries) /\ Len(entries) \in Nat /\ DOMAIN entries = 1 .. Len(entries)
  BY <1>1, LenProperties DEF HandlersLinkedIn
<1>3. PICK more : more = mSmiEntryList'
  OBVIOUS
<1>4. \A h : h \in Linked <=> IsLinked(root, entries, h)
  BY <1>1, <1>2, LinkedIs
<1>5. ASSUME more \in Seq(SmiEntries)
      PROVE  \A h : h \in Linked' <=> IsLinked(mRootSmiEntry', more, h)
  <2>1. DOMAIN more = 1 .. Len(more)
    BY <1>5, LenProperties
  <2> QED
    BY <1>3, <2>1 DEF Linked, IsLinked
<1>6. /\ \A t : HandlersOf(t) = TypeHandlers(root, entries, t)
      /\ more \in Seq(SmiEntries) => \A t : HandlersOf(t)' = TypeHandlers(mRootSmiEntry', more, t)
  BY <1>1, <1>2, <1>3, HandlersAre
<1>7. CASE type = Root
  <2>1. mRootSmiEntry' = Append(root, handle) /\ more = entries
    BY <1>1, <1>3, <1>7
  <2>2. PICK bigger : bigger = Append(root, handle)
    OBVIOUS
  <2>3. bigger \in Seq(Nat) /\ Range(bigger) = Range(root) \cup {handle}
    BY ONLY <1>2, <2>2, handle \in Nat, AppendElements
  <2>4. HandlersLinkedIn(bigger, entries)
    BY <1>1, <1>2, <2>3 DEF HandlersLinkedIn
  <2>5. Linked' = Linked \cup {handle}
    BY <1>2, <1>4, <1>5, <2>1, <2>2, <2>3 DEF IsLinked
  <2>6. \A t : Range(TypeHandlers(root, entries, t)) \subseteq Range(TypeHandlers(bigger, entries, t))
    BY <2>3 DEF TypeHandlers
  <2> QED
    BY <1>2, <1>3, <1>6, <2>1, <2>2, <2>4, <2>5, <2>6
<1>8. CASE type # Root /\ SmmCoreFindSmiEntry(type) = {}
  <2>1. PICK new : new = [type |-> type, handlers |-> <<handle>>]
    OBVIOUS
  <2>2. more = Append(entries, new) /\ mRootSmiEntry' = root
    BY <1>1, <1>3, <1>8, <2>1
  <2>3. PICK one : one = <<handle>>
    OBVIOUS
  <2>4. one \in Seq(Nat) /\ one # <<>> /\ \A h : h \in Range(one) <=> h = handle
    BY <2>3 DEF Range
  <2>5. new \in SmiEntries /\ new.type = type /\ new.handlers = one
    BY <1>8, <2>1, <2>3, <2>4 DEF SmiEntries
  <2>6. /\ more \in Seq(SmiEntries) /\ Len(more) = Len(entries) + 1 /\ more[Len(entries) + 1] = new
        /\ \A i \in 1 .. Len(entries) : more[i] = entries[i]
    <3>1. new \in SmiEntries
      BY <2>5
    <3> QED
      BY ONLY <1>2, <2>2, <3>1, AppendProperties
  <2>7. \A i \in 1 .. Len(more) : i \in 1 .. Len(entries) \/ i = Len(entries) + 1
    BY <1>2, <2>6
  <2>8. Len(entries) + 1 \in 1 .. Len(more) /\ \A i \in 1 .. Len(entries) : i \in 1 .. Len(more)
    BY <1>2, <2>6
  <2>9. HandlersLinkedIn(root, more)
    BY <1>1, <2>4, <2>5, <2>6, <2>7 DEF HandlersLinkedIn
  <2>10. Linked' = Linked \cup {handle}
    <3>1. \A h : (\E i \in 1 .. Len(more) : h \in Range(more[i].handlers)) <=>
                 h = handle \/ \E i \in 1 .. Len(entries) : h \in Range(entries[i].handlers)
      BY <2>4, <2>5, <2>6, <2>7, <2>8
    <3> QED
      BY <1>4, <1>5, <2>2, <2>6, <3>1 DEF IsLinked
  <2>11. ASSUME NEW t PROVE Range(TypeHandlers(root, entries, t)) \subseteq Range(TypeHandlers(root, more, t))
    <3>1. PICK found, others : /\ found = {i \in 1 .. Len(entries) : entries[i].type = t}
                               /\ others = {i \in 1 .. Len(more) : more[i].type = t}
      OBVIOUS
    <3>2. CASE t = Root \/ found = {}
      BY <3>1, <3>2 DEF TypeHandlers, Range
    <3>3. CASE t # Root /\ found # {}
      <4>1. t # type
        BY <1>1, <1>2, <1>8, <3>1, <3>3 DEF SmmCoreFindSmiEntry
      <4>2. found = others
        BY <2>5, <2>6, <2>7, <2>8, <3>1, <4>1
      <4>3. PICK i \in found : i = CHOOSE j \in found : TRUE
        BY <3>3
      <4> QED
        BY <2>6, <3>1, <3>3, <4>2, <4>3 DEF TypeHandlers
    <3> QED
      BY <3>2, <3>3
  <2> QED
    BY <1>3, <1>6, <2>2, <2>6, <2>9, <2>10, <2>11
<1>9. CASE type # Root /\ SmmCoreFindSmiEntry(type) # {}
  <2>1. PICK k \in SmmCoreFindSmiEntry(type) : k = CHOOSE i \in SmmCoreFindSmiEntry(type) : TRUE
    BY <1>9
  <2>2. k \in 1 .. Len(entries) /\ entries[k].type = type
    BY <1>1, <1>2, <2>1 DEF SmmCoreFindSmiEntry
  <2>3. PICK s : s = entries[k].handlers
    OBVIOUS
  <2>4. PICK w : w = Append(s, handle)
    OBVIOUS
  <2>5. s \in Seq(Nat)
    BY <1>2, <2>2, <2>3, EntryIs
  <2>6. w \in Seq(Nat) /\ w # <<>> /\ Range(w) = Range(s) \cup {handle}
    <3>1. w \in Seq(Nat) /\ Range(w) = Range(s) \cup {handle}
      BY ONLY <2>4, <2>5, handle \in Nat, AppendElements
    <3>2. w # <<>>
      BY ONLY <2>4, <2>5, handle \in Nat, AppendProperties
    <3> QED
      BY <3>1, <3>2
  <2>7. PICK new : new = [type |-> type, handlers |-> w]
    OBVIOUS
  <2>8. new \in SmiEntries /\ new.type = type /\ new.handlers = w
    BY <1>9, <2>6, <2>7 DEF SmiEntries
  <2>9. mRootSmiEntry' = root /\ more = [entries EXCEPT ![k] = new]
    <3>1. entries[k] = [type |-> type, handlers |-> s]
      <4>1. entries[k] \in SmiEntries
        BY <1>2, <2>2, ElementOfSeq
      <4> QED
        BY <2>2, <2>3, <4>1 DEF SmiEntries
    <3>2. [entries[k] EXCEPT !.handlers = Append(@, handle)] = new
      <4>1. PICK e : e = entries[k]
        OBVIOUS
      <4>2. Append(e.handlers, handle) = w
        BY ONLY <2>4, <3>1, <4>1
      <4>3. [e EXCEPT !.handlers = w] = [type |-> type, handlers |-> w]
        BY ONLY <3>1, <4>1
      <4> QED
        BY ONLY <2>7, <4>1, <4>2, <4>3
    <3>3. more = [entries EXCEPT ![k].handlers = Append(@, handle)] /\ mRootSmiEntry' = root
      BY <1>1, <1>3, <1>9, <2>1
    <3> QED
      BY <2>2, <3>2, <3>3
  <2>10. /\ more \in Seq(SmiEntries) /\ Len(more) = Len(entries) /\ more[k] = new
         /\ \A i \in 1 .. Len(entries) : i # k => more[i] = entries[i]
    <3>1. new \in SmiEntries
      BY <2>8
    <3> QED
      BY <1>2, <2>2, <2>9, <3>1, ExceptSeq
  <2>11. HandlersLinkedIn(root, more)
    <3>1. \A i \in 1 .. Len(more) : more[i].handlers # <<>>
      BY <1>1, <2>6, <2>8, <2>10 DEF HandlersLinkedIn
    <3> QED
      BY <1>2, <2>10, <3>1 DEF HandlersLinkedIn
  <2>12. Linked' = Linked \cup {handle}
    <3>1. \A h : (\E i \in 1 .. Len(more) : h \in Range(more[i].handlers)) <=>
                 h = handle \/ \E i \in 1 .. Len(entries) : h \in Range(entries[i].handlers)
      BY <2>2, <2>3, <2>6, <2>8, <2>10
    <3> QED
      BY <1>4, <1>5, <2>9, <2>10, <3>1 DEF IsLinked
  <2>13. ASSUME NEW t PROVE Range(TypeHandlers(root, entries, t)) \subseteq Range(TypeHandlers(root, more, t))
    <3>1. PICK found, others : /\ found = {i \in 1 .. Len(entries) : entries[i].type = t}
                               /\ others = {i \in 1 .. Len(more) : more[i].type = t}
      OBVIOUS
    <3>2. found = others
      BY <2>2, <2>8, <2>10, <3>1
    <3>3. CASE t = Root \/ found = {}
      BY <3>1, <3>3 DEF TypeHandlers, Range
    <3>4. CASE t # Root /\ found # {}
      <4>1. PICK i \in found : i = CHOOSE j \in found : TRUE
        BY <3>4
      <4>2. Range(entries[i].handlers) \subseteq Range(more[i].handlers)
        BY <2>3, <2>6, <2>8, <2>10, <3>1
      <4> QED
        BY <3>1, <3>2, <3>4, <4>1, <4>2 DEF TypeHandlers
    <3> QED
      BY <3>3, <3>4
  <2> QED
    BY <1>3, <1>6, <2>9, <2>10, <2>11, <2>12, <2>13
<1> QED
  BY <1>7, <1>8, <1>9

LEMMA NextHandlerIs ==
    ASSUME NEW list \in Seq(Nat), NEW h
    PROVE  NextHandler(list, h) = 0 \/ NextHandler(list, h) \in Range(list)
<1>1. PICK I : I = {i \in 1 .. Len(list) : list[i] = h}
  OBVIOUS
<1>2. PICK k : k = IF I # {} THEN Min(I) ELSE 0
  OBVIOUS
<1>3. SelectInSeq(list, LAMBDA x : x = h) = k
  BY <1>1, <1>2 DEF SelectInSeq
<1>4. k \in 0 .. Len(list) /\ Len(list) \in Nat
  <2>1. Len(list) \in Nat
    BY LenProperties
  <2>2. I # {} => Min(I) \in I
    <3>1. I \subseteq Nat
      BY <1>1, <2>1
    <3> QED
      BY ONLY <3>1, Minimum
  <2> QED
    BY <1>1, <1>2, <2>1, <2>2
<1>5. k # Len(list) => k + 1 \in 1 .. Len(list)
  BY <1>4
<1>6. \A i \in 1 .. Len(list) : list[i] \in Range(list)
  BY Elements
<1> QED
  BY <1>3, <1>5, <1>6 DEF NextHandler

LEMMA SmiInitial == SmiInit => SmiInv
<1> SUFFICES ASSUME SmiInit PROVE SmiInv
  OBVIOUS
<1>1. PICK none : none = <<>>
  OBVIOUS
<1>2. mRootSmiEntry = none /\ mSmiEntryList = none /\ smis = none /\ ToRemove = {} /\ registered = 0 /\ unregistered = {}
  BY <1>1 DEF SmiInit
<1>3. /\ none \in Seq(Nat) /\ none \in Seq(SmiEntries) /\ none \in Seq(SmiCalls)
      /\ Range(none) = {} /\ Len(none) = 0 /\ DOMAIN none = {}
  BY ONLY <1>1 DEF Range
<1>4. Linked = {}
  BY <1>2, <1>3 DEF Linked
<1>5. HandlersLinkedIn(mRootSmiEntry, mSmiEntryList)
  BY <1>2, <1>3 DEF HandlersLinkedIn
<1>6. HandlersFlagged
  BY <1>2, <1>4 DEF HandlersFlagged
<1>7. SmisWalk
  BY <1>2, <1>3 DEF SmisWalk
<1> QED
  BY <1>5, <1>6, <1>7 DEF SmiInv

(* A call that begins, or goes on in place of another.                     *)
LEMMA WalkOn ==
    ASSUME NEW calls \in Seq(SmiCalls), NEW new \in SmiCalls, NEW more, more = <<new>> \o calls
    PROVE  more \in Seq(SmiCalls) /\ more # <<>> /\ Range(more) = Range(calls) \cup {new}
<1>1. more \in Seq(SmiCalls) /\ Range(more) = Range(calls) \cup {new}
  BY PrependElements
<1>2. more # <<>>
  BY <1>1, NoElements
<1> QED
  BY <1>1, <1>2

LEMMA SmiManageStep == ASSUME SmiInv, SmiManage PROVE SmiInv'
<1>1. PICK type \in HandlerTypes \cup {Root} :
         smis' = <<[type |-> type, statuses |-> {}, status |-> "EFI_NOT_FOUND",
                    at |-> IF HandlersOf(type) = <<>> THEN 0 ELSE Head(HandlersOf(type))]>> \o smis
  BY DEF SmiManage
<1>2. UNCHANGED <<mRootSmiEntry, mSmiEntryList, ToRemove, registered, unregistered>>
  BY DEF SmiManage
<1>3. PICK at : at = IF HandlersOf(type) = <<>> THEN 0 ELSE Head(HandlersOf(type))
  OBVIOUS
<1>4. PICK new : new = [type |-> type, statuses |-> {}, status |-> "EFI_NOT_FOUND", at |-> at]
  OBVIOUS
<1>5. smis' = <<new>> \o smis
  BY <1>1, <1>3, <1>4
<1>6. at \in Nat /\ (at # 0 => at \in Range(HandlersOf(type)))
  <2>1. HandlersOf(type) \in Seq(Nat)
    BY HandlersTyped, HandlersAre DEF SmiInv, HandlersLinkedIn
  <2>2. PICK list : list = HandlersOf(type)
    OBVIOUS
  <2>3. list \in Seq(Nat)
    BY <2>1, <2>2
  <2>4. list # <<>> => Head(list) \in Nat /\ Head(list) \in Range(list)
    BY ONLY <2>3, TailElements
  <2> QED
    BY <1>3, <2>2, <2>4
<1>7. new.type = type /\ new.at = at /\ new.statuses = {} /\ new.status = "EFI_NOT_FOUND"
  BY <1>4
<1>8. new \in SmiCalls
  BY <1>4, <1>6 DEF SmiCalls
<1>9. Documented(new)
  BY <1>7 DEF Documented
<1>10. /\ smis \in Seq(SmiCalls)
       /\ \A smi \in Range(smis) : Documented(smi) /\ (smi.at # 0 => smi.at \in Range(HandlersOf(smi.type)))
  BY DEF SmiInv, SmisWalk
<1>11. smis' \in Seq(SmiCalls) /\ smis' # <<>> /\ Range(smis') = Range(smis) \cup {new}
  BY <1>5, <1>8, <1>10, WalkOn
<1>12. \A t : HandlersOf(t)' = HandlersOf(t)
  BY <1>2 DEF HandlersOf, SmmCoreFindSmiEntry
<1>13. SmisWalk'
  BY <1>6, <1>7, <1>9, <1>10, <1>11, <1>12 DEF SmisWalk
<1>14. Linked' = Linked
  BY <1>2 DEF Linked
<1>15. HandlersFlagged'
  BY <1>2, <1>11, <1>14 DEF SmiInv, HandlersFlagged
<1> QED
  BY <1>2, <1>13, <1>15 DEF SmiInv

(* What one answer makes of what is documented.                            *)
LEMMA AnswerDocumented ==
    ASSUME NEW smi \in SmiCalls, Documented(smi), smi.at # 0, NEW status \in Statuses, NEW next,
           NEW new, new.type = smi.type, new.statuses = smi.statuses \cup {status},
           new.status = ReturnStatus(smi.type, smi.status, status),
           new.at = IF WillReturn(smi.type, status) THEN 0 ELSE next
    PROVE  Documented(new) /\ new.status \in Statuses \cup {"EFI_NOT_FOUND"}
<1>1. /\ smi.statuses \subseteq Statuses /\ smi.status \in Statuses \cup {"EFI_NOT_FOUND"}
  BY DEF SmiCalls
<1>2. PICK before, type, old : before = smi.status /\ type = smi.type /\ old = smi.statuses
  OBVIOUS
<1>3. /\ before = "EFI_SUCCESS" => \/ "EFI_SUCCESS" \in old
                                  \/ "EFI_WARN_INTERRUPT_SOURCE_QUIESCED" \in old
      /\ type = Root /\ ("EFI_SUCCESS" \in old \/ "EFI_WARN_INTERRUPT_SOURCE_QUIESCED" \in old)
            => before = "EFI_SUCCESS"
      /\ type # Root => "EFI_INTERRUPT_PENDING" \notin old
      /\ before = "EFI_NOT_FOUND" <=> old \subseteq {"EFI_DEVICE_ERROR"}
  BY <1>2 DEF Documented
<1>4. CASE status = "EFI_SUCCESS" \/ status = "EFI_WARN_INTERRUPT_SOURCE_QUIESCED"
  <2>1. new.status = "EFI_SUCCESS"
    BY <1>4 DEF ReturnStatus
  <2> QED
    BY <1>2, <1>3, <1>4, <2>1 DEF Documented, Statuses
<1>5. CASE status = "EFI_INTERRUPT_PENDING"
  <2>1. new.status = IF type = Root /\ before = "EFI_SUCCESS" THEN before ELSE status
    BY <1>2, <1>5 DEF ReturnStatus
  <2>2. type # Root => new.at = 0
    BY <1>2, <1>5 DEF WillReturn
  <2> QED
    BY <1>2, <1>3, <1>5, <2>1, <2>2 DEF Documented, Statuses
<1>6. CASE status = "EFI_WARN_INTERRUPT_SOURCE_PENDING"
  <2>1. new.status = IF before = "EFI_SUCCESS" THEN before ELSE status
    BY <1>2, <1>6 DEF ReturnStatus
  <2> QED
    BY <1>2, <1>3, <1>6, <2>1 DEF Documented, Statuses
<1>7. CASE status = "EFI_DEVICE_ERROR"
  <2>1. new.status = before
    BY <1>2, <1>7 DEF ReturnStatus
  <2> QED
    BY <1>1, <1>2, <1>3, <1>7, <2>1 DEF Documented
<1> QED
  BY <1>4, <1>5, <1>6, <1>7 DEF Statuses

LEMMA HandlerReturnsStep == ASSUME SmiInv, HandlerReturns PROVE SmiInv'
<1>1. PICK status \in Statuses :
         /\ smis # <<>> /\ Head(smis).at # 0
         /\ LET smi == Head(smis) IN
            smis' = <<[smi EXCEPT
                         !.statuses = @ \cup {status},
                         !.status = ReturnStatus(smi.type, @, status),
                         !.at = IF WillReturn(smi.type, status) THEN 0
                                ELSE NextHandler(HandlersOf(smi.type), @)]>> \o Tail(smis)
  BY DEF HandlerReturns
<1>2. UNCHANGED <<mRootSmiEntry, mSmiEntryList, ToRemove, registered, unregistered>>
  BY DEF HandlerReturns
<1>3. /\ smis \in Seq(SmiCalls)
      /\ \A smi \in Range(smis) : Documented(smi) /\ (smi.at # 0 => smi.at \in Range(HandlersOf(smi.type)))
  BY DEF SmiInv, SmisWalk
<1>4. PICK smi, rest : smi = Head(smis) /\ rest = Tail(smis)
  OBVIOUS
<1>5. smi \in SmiCalls /\ smi \in Range(smis) /\ rest \in Seq(SmiCalls) /\ Range(rest) \subseteq Range(smis) /\ smi.at # 0
  BY <1>1, <1>3, <1>4, TailElements
<1>6. PICK type, statuses, before, at :
         /\ type = smi.type /\ statuses = smi.statuses /\ before = smi.status /\ at = smi.at
         /\ smi = [type |-> type, statuses |-> statuses, status |-> before, at |-> at]
  BY <1>5 DEF SmiCalls
<1>7. type \in HandlerTypes \cup {Root} /\ statuses \in SUBSET Statuses
  BY <1>5, <1>6 DEF SmiCalls
<1>8. PICK next : next = NextHandler(HandlersOf(type), at)
  OBVIOUS
<1>9. next \in Nat /\ (next # 0 => next \in Range(HandlersOf(type)))
  <2>1. HandlersOf(type) \in Seq(Nat)
    BY HandlersTyped, HandlersAre DEF SmiInv, HandlersLinkedIn
  <2>2. PICK list : list = HandlersOf(type)
    OBVIOUS
  <2>3. list \in Seq(Nat)
    BY <2>1, <2>2
  <2>4. NextHandler(list, at) = 0 \/ NextHandler(list, at) \in Range(list)
    BY ONLY <2>3, NextHandlerIs
  <2>5. Range(list) \subseteq Nat
    BY ONLY <2>3, Elements
  <2> QED
    BY <1>8, <2>2, <2>4, <2>5
<1>10. PICK answer, stays : /\ answer = ReturnStatus(type, before, status)
                            /\ stays = IF WillReturn(type, status) THEN 0 ELSE next
  OBVIOUS
<1>11. PICK new : new = [type |-> type, statuses |-> statuses \cup {status}, status |-> answer, at |-> stays]
  OBVIOUS
<1>12. smis' = <<new>> \o rest
  <2>1. PICK first : first = [smi EXCEPT !.statuses = @ \cup {status}]
    OBVIOUS
  <2>2. first = [type |-> type, statuses |-> statuses \cup {status}, status |-> before, at |-> at]
    BY ONLY <1>6, <2>1
  <2>3. PICK second : second = [first EXCEPT !.status = ReturnStatus(type, @, status)]
    OBVIOUS
  <2>4. second = [type |-> type, statuses |-> statuses \cup {status}, status |-> answer, at |-> at]
    BY ONLY <1>10, <2>2, <2>3
  <2>5. PICK third : third = [second EXCEPT !.at = IF WillReturn(type, status) THEN 0
                                                  ELSE NextHandler(HandlersOf(type), @)]
    OBVIOUS
  <2>6. third = new
    BY ONLY <1>8, <1>10, <1>11, <2>4, <2>5
  <2>7. smis' = <<third>> \o rest
    BY ONLY <1>1, <1>4, <1>6, <2>1, <2>3, <2>5
  <2> QED
    BY ONLY <2>6, <2>7
<1>13. new.type = type /\ new.statuses = statuses \cup {status} /\ new.status = answer /\ new.at = stays
  BY <1>11
<1>14. Documented(new) /\ new.status \in Statuses \cup {"EFI_NOT_FOUND"}
  <2>1. Documented(smi)
    BY <1>3, <1>5
  <2>2. new.type = smi.type /\ new.statuses = smi.statuses \cup {status}
    BY <1>6, <1>13
  <2>3. new.status = ReturnStatus(smi.type, smi.status, status)
    BY <1>6, <1>10, <1>13
  <2>4. new.at = IF WillReturn(smi.type, status) THEN 0 ELSE next
    BY <1>6, <1>10, <1>13
  <2>5. smi \in SmiCalls /\ smi.at # 0 /\ status \in Statuses
    BY <1>5
  <2> QED
    BY ONLY <2>1, <2>2, <2>3, <2>4, <2>5, AnswerDocumented
<1>15. new \in SmiCalls
  <2>1. answer \in Statuses \cup {"EFI_NOT_FOUND"} /\ stays \in Nat
    BY <1>9, <1>10, <1>13, <1>14
  <2> QED
    BY <1>7, <1>11, <2>1 DEF SmiCalls
<1>16. smis' \in Seq(SmiCalls) /\ smis' # <<>> /\ Range(smis') = Range(rest) \cup {new}
  <2>1. rest \in Seq(SmiCalls)
    BY <1>5
  <2> QED
    BY <1>12, <1>15, <2>1, WalkOn
<1>17. \A t : HandlersOf(t)' = HandlersOf(t)
  BY <1>2 DEF HandlersOf, SmmCoreFindSmiEntry
<1>18. new.at # 0 => new.at \in Range(HandlersOf(type))
  BY <1>9, <1>10, <1>13
<1>19. SmisWalk'
  BY <1>3, <1>5, <1>13, <1>14, <1>16, <1>17, <1>18 DEF SmisWalk
<1>20. Linked' = Linked
  BY <1>2 DEF Linked
<1>21. HandlersFlagged'
  BY <1>2, <1>16, <1>20 DEF SmiInv, HandlersFlagged
<1> QED
  BY <1>2, <1>19, <1>21 DEF SmiInv

LEMMA SmiManageReturnsStep == ASSUME SmiInv, SmiManageReturns PROVE SmiInv'
<1>1. /\ smis # <<>> /\ smis' = Tail(smis)
      /\ IF Tail(smis) = <<>> THEN RemoveSmiHandlers(ToRemove)
         ELSE UNCHANGED <<mRootSmiEntry, mSmiEntryList, ToRemove>>
      /\ UNCHANGED <<registered, unregistered>>
  BY DEF SmiManageReturns
<1>2. /\ HandlersLinkedIn(mRootSmiEntry, mSmiEntryList) /\ smis \in Seq(SmiCalls)
      /\ \A smi \in Range(smis) : Documented(smi) /\ (smi.at # 0 => smi.at \in Range(HandlersOf(smi.type)))
  BY DEF SmiInv, SmisWalk
<1>3. PICK rest : rest = Tail(smis)
  OBVIOUS
<1>4. rest \in Seq(SmiCalls) /\ Range(rest) \subseteq Range(smis)
  BY ONLY <1>1, <1>2, <1>3, TailElements
<1>5. CASE rest = <<>>
  <2>1. RemoveSmiHandlers(ToRemove) /\ smis' = rest
    BY <1>1, <1>3, <1>5
  <2>2. HandlersLinkedIn(mRootSmiEntry', mSmiEntryList') /\ Linked' = Linked \ ToRemove
    BY <1>2, <2>1, RemovedHandlers
  <2>3. ToRemove' = {}
    BY <2>1 DEF RemoveSmiHandlers
  <2>4. Range(rest) = {}
    BY <1>5 DEF Range
  <2>5. SmisWalk'
    BY <1>4, <2>1, <2>4 DEF SmisWalk
  <2>6. HandlersFlagged'
    BY <1>1, <2>2, <2>3 DEF SmiInv, HandlersFlagged
  <2> QED
    BY <2>2, <2>5, <2>6 DEF SmiInv
<1>6. CASE rest # <<>>
  <2>1. UNCHANGED <<mRootSmiEntry, mSmiEntryList, ToRemove>> /\ smis' = rest
    BY <1>1, <1>3, <1>6
  <2>2. \A t : HandlersOf(t)' = HandlersOf(t)
    BY <2>1 DEF HandlersOf, SmmCoreFindSmiEntry
  <2>3. Linked' = Linked
    BY <2>1 DEF Linked
  <2>4. SmisWalk'
    BY <1>2, <1>4, <2>1, <2>2 DEF SmisWalk
  <2>5. HandlersFlagged'
    BY <1>1, <1>6, <2>1, <2>3 DEF SmiInv, HandlersFlagged
  <2> QED
    BY <1>2, <2>1, <2>4, <2>5 DEF SmiInv
<1> QED
  BY <1>5, <1>6

LEMMA SmiHandlerRegisterStep == ASSUME SmiInv, SmiHandlerRegister PROVE SmiInv'
<1>1. PICK type \in HandlerTypes \cup {Root} :
         /\ registered' = registered + 1
         /\ LET found == SmmCoreFindSmiEntry(type) IN
            IF type = Root THEN
                mRootSmiEntry' = Append(mRootSmiEntry, registered') /\ UNCHANGED mSmiEntryList
            ELSE /\ mSmiEntryList' =
                      IF found = {} THEN Append(mSmiEntryList, [type |-> type, handlers |-> <<registered'>>])
                      ELSE [mSmiEntryList EXCEPT ![CHOOSE i \in found : TRUE].handlers = Append(@, registered')]
                 /\ UNCHANGED mRootSmiEntry
         /\ UNCHANGED <<ToRemove, smis, unregistered>>
  BY DEF SmiHandlerRegister
<1>2. registered \in Nat /\ HandlersLinkedIn(mRootSmiEntry, mSmiEntryList)
  BY DEF SmiInv, HandlersFlagged
<1>3. PICK handle \in Nat : handle = registered' /\ handle = registered + 1
  BY <1>1, <1>2
<1>4. /\ HandlersLinkedIn(mRootSmiEntry', mSmiEntryList')
      /\ Linked' = Linked \cup {handle}
      /\ \A t : Range(HandlersOf(t)) \subseteq Range(HandlersOf(t)')
  <2>1. IF type = Root
        THEN mRootSmiEntry' = Append(mRootSmiEntry, handle) /\ mSmiEntryList' = mSmiEntryList
        ELSE /\ mSmiEntryList' =
                  IF SmmCoreFindSmiEntry(type) = {}
                  THEN Append(mSmiEntryList, [type |-> type, handlers |-> <<handle>>])
                  ELSE [mSmiEntryList EXCEPT ![CHOOSE i \in SmmCoreFindSmiEntry(type) : TRUE].handlers =
                            Append(@, handle)]
             /\ mRootSmiEntry' = mRootSmiEntry
    BY <1>1, <1>3
  <2> QED
    BY <1>2, <2>1, RegisteredHandlers
<1>5. HandlersFlagged'
  <2>1. 1 .. registered' = (1 .. registered) \cup {handle} /\ handle \notin 1 .. registered
    BY <1>2, <1>3
  <2>2. registered' \in Nat
    BY <1>3
  <2> QED
    BY <1>1, <1>4, <2>1, <2>2 DEF SmiInv, HandlersFlagged
<1>6. SmisWalk'
  BY <1>1, <1>4 DEF SmiInv, SmisWalk
<1> QED
  BY <1>4, <1>5, <1>6 DEF SmiInv

LEMMA SmiHandlerUnRegisterStep == ASSUME SmiInv, ~StaleHandles, SmiHandlerUnRegister PROVE SmiInv'
<1>1. PICK handle \in 1 .. registered :
         /\ handle \notin unregistered
         /\ unregistered' = unregistered \cup {handle}
         /\ IF Searched(handle) = 0 THEN UNCHANGED <<mRootSmiEntry, mSmiEntryList, ToRemove>>
            ELSE IF smis # <<>> THEN
                ToRemove' = ToRemove \cup {Searched(handle)} /\ UNCHANGED <<mRootSmiEntry, mSmiEntryList>>
            ELSE RemoveSmiHandlers({Searched(handle)})
         /\ UNCHANGED <<smis, registered>>
  BY DEF SmiHandlerUnRegister
<1>2. registered \in Nat /\ HandlersLinkedIn(mRootSmiEntry, mSmiEntryList) /\ handle \in Linked
  BY <1>1 DEF SmiInv, HandlersFlagged
<1>3. Searched(handle) = handle /\ handle # 0
  BY <1>2 DEF Searched
<1>4. CASE smis # <<>>
  <2>1. ToRemove' = ToRemove \cup {handle} /\ UNCHANGED <<mRootSmiEntry, mSmiEntryList>>
    BY <1>1, <1>3, <1>4
  <2>2. \A t : HandlersOf(t)' = HandlersOf(t)
    BY <2>1 DEF HandlersOf, SmmCoreFindSmiEntry
  <2>3. Linked' = Linked
    BY <2>1 DEF Linked
  <2>4. SmisWalk'
    BY <1>1, <2>2 DEF SmiInv, SmisWalk
  <2>5. HandlersFlagged'
    BY <1>1, <1>4, <2>1, <2>3 DEF SmiInv, HandlersFlagged
  <2> QED
    BY <1>2, <2>1, <2>4, <2>5 DEF SmiInv
<1>5. CASE smis = <<>>
  <2>1. RemoveSmiHandlers({handle})
    BY <1>1, <1>3, <1>5
  <2>2. HandlersLinkedIn(mRootSmiEntry', mSmiEntryList') /\ Linked' = Linked \ {handle}
    BY <1>2, <2>1, RemovedHandlers
  <2>3. ToRemove = {} /\ ToRemove' = {}
    BY <1>5, <2>1 DEF RemoveSmiHandlers, SmiInv, HandlersFlagged
  <2>4. Range(smis) = {}
    BY <1>5 DEF Range
  <2>5. SmisWalk'
    BY <1>1, <2>4 DEF SmiInv, SmisWalk
  <2>6. HandlersFlagged'
    BY <1>1, <2>2, <2>3 DEF SmiInv, HandlersFlagged
  <2> QED
    BY <2>2, <2>5, <2>6 DEF SmiInv
<1> QED
  BY <1>4, <1>5

LEMMA SmiInvDispatches == SmiInv => SmisDispatched
<1> SUFFICES ASSUME SmiInv PROVE SmisDispatched
  OBVIOUS
<1>1. /\ smis \in Seq(SmiCalls) /\ mSmiEntryList \in Seq(SmiEntries)
      /\ \A smi \in Range(smis) : Documented(smi) /\ (smi.at # 0 => smi.at \in Range(HandlersOf(smi.type)))
  BY DEF SmiInv, SmisWalk, HandlersLinkedIn
<1>2. \A k \in DOMAIN smis : smis[k] \in Range(smis)
  BY DEF Range
<1>3. DOMAIN mSmiEntryList = 1 .. Len(mSmiEntryList)
  BY <1>1, LenProperties
<1>4. OthersStay
  BY DEF SmiInv, HandlersFlagged, OthersStay
<1>5. RemovalDeferred
  <2>1. smis = <<>> => /\ Linked \cap (unregistered \cup ToRemove) = {}
                       /\ \A i \in DOMAIN mSmiEntryList : mSmiEntryList[i].handlers # <<>>
    BY <1>3 DEF SmiInv, HandlersFlagged, HandlersLinkedIn
  <2>2. \A k \in DOMAIN smis : smis[k].at # 0 => Contains(HandlersOf(smis[k].type), smis[k].at)
    <3> SUFFICES ASSUME NEW k \in DOMAIN smis, smis[k].at # 0
                 PROVE  Contains(HandlersOf(smis[k].type), smis[k].at)
      OBVIOUS
    <3>1. PICK list, at : list = HandlersOf(smis[k].type) /\ at = smis[k].at
      OBVIOUS
    <3>2. list \in Seq(Nat)
      BY <1>1, <3>1, HandlersTyped, HandlersAre DEF SmiInv
    <3>3. at \in Range(list)
      BY <1>1, <1>2, <3>1
    <3>4. \E i \in 1 .. Len(list) : list[i] = at
      BY ONLY <3>2, <3>3, Elements
    <3> QED
      BY <3>1, <3>4 DEF Contains
  <2> QED
    BY <2>1, <2>2 DEF RemovalDeferred
<1>6. ReturnsAsDocumented
  BY <1>1, <1>2 DEF ReturnsAsDocumented, Documented
<1> QED
  BY <1>4, <1>5, <1>6 DEF SmisDispatched

(* Callers that pass no stale handle have SMIs dispatched as promised,     *)
(* whatever handlers register, unregister and raise.                       *)
THEOREM SmisServed == ASSUME ~StaleHandles PROVE SmiSpec => []SmisDispatched
<1>1. ASSUME SmiInv, [SmiNext]_smiVars PROVE SmiInv'
  <2>1. CASE SmiManage
    BY <1>1, <2>1, SmiManageStep
  <2>2. CASE HandlerReturns
    BY <1>1, <2>2, HandlerReturnsStep
  <2>3. CASE SmiManageReturns
    BY <1>1, <2>3, SmiManageReturnsStep
  <2>4. CASE SmiHandlerRegister
    BY <1>1, <2>4, SmiHandlerRegisterStep
  <2>5. CASE SmiHandlerUnRegister
    BY <1>1, <2>5, SmiHandlerUnRegisterStep
  <2>6. CASE UNCHANGED smiVars
    <3>1. Linked' = Linked /\ \A t : HandlersOf(t)' = HandlersOf(t)
      BY <2>6 DEF smiVars, Linked, HandlersOf, SmmCoreFindSmiEntry
    <3> QED
      BY <1>1, <2>6, <3>1 DEF smiVars, SmiInv, HandlersFlagged, SmisWalk
  <2> QED
    BY <1>1, <2>1, <2>2, <2>3, <2>4, <2>5, <2>6 DEF SmiNext
<1> QED
  BY <1>1, SmiInitial, SmiInvDispatches, PTL DEF SmiSpec
-----------------------------------------------------------------------------
(***************************************************************************)
(* The configuration tables.  Each is a map: a GUID has one entry, with    *)
(* the table that was installed last, or none.                             *)
(***************************************************************************)
Entries == Vendors \X Tables

IsMap(table, map) ==
    /\ table \in Seq(Entries) /\ map \in [Vendors -> Tables \cup {NoTable}]
    /\ \A i \in 1 .. Len(table) : map[table[i][1]] = table[i][2]
    /\ \A i, j \in 1 .. Len(table) : table[i][1] = table[j][1] => i = j
    /\ \A guid \in Vendors : map[guid] # NoTable => \E i \in 1 .. Len(table) : table[i][1] = guid

ConfigInv ==
    /\ latest \in [{"boot", "smm"} -> [Vendors -> Tables \cup {NoTable}]]
    /\ IsMap(mConfigTable, latest["boot"]) /\ IsMap(smmTable, latest["smm"])
    /\ gST = [entries |-> Len(mConfigTable), set |-> mConfigTable # <<>>]
    /\ Len(mConfigTable) <= MAX_CONFIG_TABLE_ENTRIES
    /\ smmRoom \in Nat /\ allocateSize = smmRoom /\ Len(smmTable) <= smmRoom

LEMMA EntriesAre ==
    ASSUME NEW table \in Seq(Entries), NEW i \in 1 .. Len(table)
    PROVE  /\ table[i] = <<table[i][1], table[i][2]>>
           /\ table[i][1] \in Vendors /\ table[i][2] \in Tables /\ table[i][2] # NoTable
<1>1. table[i] \in Entries
  BY ElementOfSeq
<1> QED
  BY <1>1, ConfigAssumption DEF Entries

LEMMA IndexIs ==
    ASSUME NEW table, NEW map, IsMap(table, map), NEW guid \in Vendors
    PROVE  /\ IndexOf(table, guid) = 0 => map[guid] = NoTable /\ \A i \in 1 .. Len(table) : table[i][1] # guid
           /\ IndexOf(table, guid) # 0 => /\ IndexOf(table, guid) \in 1 .. Len(table)
                                          /\ table[IndexOf(table, guid)][1] = guid
<1>1. PICK I : I = {i \in 1 .. Len(table) : table[i][1] = guid}
  OBVIOUS
<1>2. PICK k : k = IF I # {} THEN Min(I) ELSE 0
  OBVIOUS
<1>3. IndexOf(table, guid) = k
  BY <1>1, <1>2 DEF IndexOf, SelectInSeq
<1>4. I # {} => Min(I) \in I
  <2>1. I \subseteq Nat
    BY <1>1
  <2> QED
    BY ONLY <2>1, Minimum
<1>5. I = {} => \A i \in 1 .. Len(table) : table[i][1] # guid
  BY <1>1
<1>6. I = {} => map[guid] = NoTable
  BY <1>5 DEF IsMap
<1>7. I # {} => k \in 1 .. Len(table) /\ table[k][1] = guid /\ k # 0
  BY <1>1, <1>2, <1>4
<1> QED
  BY <1>2, <1>3, <1>5, <1>6, <1>7

LEMMA MapReplaced ==
    ASSUME NEW table, NEW map, IsMap(table, map), NEW guid \in Vendors, NEW new \in Tables \cup {NoTable},
           IndexOf(table, guid) # 0
    PROVE  /\ IsMap(Replaced(table, guid, new), [map EXCEPT ![guid] = new])
           /\ Len(Replaced(table, guid, new)) <= Len(table)
<1>1. PICK k : k = IndexOf(table, guid)
  OBVIOUS
<1>2. /\ table \in Seq(Entries) /\ k \in 1 .. Len(table) /\ table[k][1] = guid /\ Len(table) \in Nat
      /\ map \in [Vendors -> Tables \cup {NoTable}]
  BY <1>1, IndexIs, LenProperties DEF IsMap
<1>3. PICK after : after = [map EXCEPT ![guid] = new]
  OBVIOUS
<1>4. /\ after \in [Vendors -> Tables \cup {NoTable}] /\ after[guid] = new
      /\ \A g \in Vendors : g # guid => after[g] = map[g]
  BY <1>2, <1>3
<1>5. CASE new = NoTable
  <2>1. PICK rest : rest = RemoveAt(table, k)
    OBVIOUS
  <2>2. Replaced(table, guid, new) = rest
    BY <1>1, <1>5, <2>1 DEF Replaced
  <2>3. /\ rest \in Seq(Entries) /\ Len(rest) = Len(table) - 1
        /\ \A i \in 1 .. Len(table) - 1 : rest[i] = IF i < k THEN table[i] ELSE table[i + 1]
    BY ONLY <1>2, <2>1, RemoveAtProperties
  <2>4. ASSUME NEW i \in 1 .. Len(rest)
        PROVE  \E j \in 1 .. Len(table) : j # k /\ rest[i] = table[j] /\ j = IF i < k THEN i ELSE i + 1
    BY <1>2, <2>3
  <2>5. ASSUME NEW i \in 1 .. Len(rest) PROVE rest[i][1] # guid /\ after[rest[i][1]] = rest[i][2]
    <3>1. PICK j \in 1 .. Len(table) : j # k /\ rest[i] = table[j]
      BY <2>4
    <3>2. table[j][1] # guid /\ table[j][1] \in Vendors /\ map[table[j][1]] = table[j][2]
      BY <1>2, <3>1, EntriesAre DEF IsMap
    <3> QED
      BY <1>4, <3>1, <3>2
  <2>6. ASSUME NEW i \in 1 .. Len(rest), NEW j \in 1 .. Len(rest), rest[i][1] = rest[j][1] PROVE i = j
    <3>1. PICK a \in 1 .. Len(table) : rest[i] = table[a] /\ a = IF i < k THEN i ELSE i + 1
      BY <2>4
    <3>2. PICK b \in 1 .. Len(table) : rest[j] = table[b] /\ b = IF j < k THEN j ELSE j + 1
      BY <2>4
    <3>3. a = b
      BY <2>6, <3>1, <3>2 DEF IsMap
    <3> QED
      BY <1>2, <2>3, <3>1, <3>2, <3>3
  <2>7. ASSUME NEW g \in Vendors, after[g] # NoTable PROVE \E i \in 1 .. Len(rest) : rest[i][1] = g
    <3>1. g # guid /\ map[g] # NoTable
      BY <1>4, <1>5, <2>7
    <3>2. PICK j \in 1 .. Len(table) : table[j][1] = g
      BY <3>1 DEF IsMap
    <3>3. j # k
      BY <1>2, <3>1, <3>2
    <3>4. PICK i : i = IF j < k THEN j ELSE j - 1
      OBVIOUS
    <3>5. i \in 1 .. Len(table) - 1 /\ rest[i] = table[j]
      BY <1>2, <2>3, <3>3, <3>4
    <3> QED
      BY <2>3, <3>2, <3>5
  <2>8. IsMap(rest, after)
    BY <1>4, <2>3, <2>5, <2>6, <2>7 DEF IsMap
  <2> QED
    BY <1>2, <1>3, <2>2, <2>3, <2>8
<1>6. CASE new # NoTable
  <2>1. PICK entry : entry = <<guid, new>>
    OBVIOUS
  <2>2. entry \in Entries /\ entry[1] = guid /\ entry[2] = new
    BY <1>6, <2>1 DEF Entries
  <2>3. PICK more : more = [table EXCEPT ![k] = entry]
    OBVIOUS
  <2>4. Replaced(table, guid, new) = more
    BY <1>1, <1>6, <2>1, <2>3 DEF Replaced
  <2>5. /\ more \in Seq(Entries) /\ Len(more) = Len(table) /\ more[k] = entry
        /\ \A i \in 1 .. Len(table) : i # k => more[i] = table[i]
    <3>1. entry \in Entries
      BY <2>2
    <3> QED
      BY <1>2, <2>3, <3>1, ExceptSeq
  <2>6. ASSUME NEW i \in 1 .. Len(more)
        PROVE  more[i][1] = table[i][1] /\ more[i][1] \in Vendors /\ after[more[i][1]] = more[i][2]
    <3>1. CASE i = k
      BY <1>2, <1>4, <2>2, <2>5, <3>1
    <3>2. CASE i # k
      <4>1. table[i][1] \in Vendors /\ table[i][1] # guid /\ map[table[i][1]] = table[i][2]
        BY <1>2, <2>5, <3>2, EntriesAre DEF IsMap
      <4> QED
        BY <1>4, <2>5, <3>2, <4>1
    <3> QED
      BY <3>1, <3>2
  <2>7. \A i, j \in 1 .. Len(more) : more[i][1] = more[j][1] => i = j
    BY <2>5, <2>6 DEF IsMap
  <2>8. ASSUME NEW g \in Vendors, after[g] # NoTable PROVE \E i \in 1 .. Len(more) : more[i][1] = g
    <3>1. CASE g = guid
      BY <1>2, <2>2, <2>5, <3>1
    <3>2. CASE g # guid
      <4>1. PICK i \in 1 .. Len(table) : table[i][1] = g
        BY <1>4, <2>8, <3>2 DEF IsMap
      <4> QED
        BY <2>5, <2>6, <4>1
    <3> QED
      BY <3>1, <3>2
  <2>9. IsMap(more, after)
    BY <1>4, <2>5, <2>6, <2>7, <2>8 DEF IsMap
  <2> QED
    BY <1>2, <1>3, <2>4, <2>5, <2>9
<1> QED
  BY <1>5, <1>6

LEMMA MapAppended ==
    ASSUME NEW table, NEW map, IsMap(table, map), NEW guid \in Vendors, NEW new \in Tables \cup {NoTable},
           IndexOf(table, guid) = 0, new # NoTable
    PROVE  /\ IsMap(Append(table, <<guid, new>>), [map EXCEPT ![guid] = new])
           /\ Len(Append(table, <<guid, new>>)) = Len(table) + 1
           /\ Append(table, <<guid, new>>) # <<>>
<1>1. /\ table \in Seq(Entries) /\ \A i \in 1 .. Len(table) : table[i][1] # guid
      /\ Len(table) \in Nat /\ map \in [Vendors -> Tables \cup {NoTable}]
  BY IndexIs, LenProperties DEF IsMap
<1>2. PICK after : after = [map EXCEPT ![guid] = new]
  OBVIOUS
<1>3. /\ after \in [Vendors -> Tables \cup {NoTable}] /\ after[guid] = new
      /\ \A g \in Vendors : g # guid => after[g] = map[g]
  BY <1>1, <1>2
<1>4. PICK entry : entry = <<guid, new>>
  OBVIOUS
<1>5. entry \in Entries /\ entry[1] = guid /\ entry[2] = new
  BY <1>4 DEF Entries
<1>6. PICK more : more = Append(table, entry)
  OBVIOUS
<1>7. /\ more \in Seq(Entries) /\ Len(more) = Len(table) + 1 /\ more[Len(table) + 1] = entry /\ more # <<>>
      /\ \A i \in 1 .. Len(table) : more[i] = table[i]
  <2>1. entry \in Entries
    BY <1>5
  <2> QED
    BY ONLY <1>1, <1>6, <2>1, AppendProperties
<1>8. /\ \A i \in 1 .. Len(more) : i \in 1 .. Len(table) \/ i = Len(table) + 1
      /\ Len(table) + 1 \in 1 .. Len(more) /\ \A i \in 1 .. Len(table) : i \in 1 .. Len(more)
  BY <1>1, <1>7
<1>9. ASSUME NEW i \in 1 .. Len(table)
      PROVE  table[i][1] \in Vendors /\ table[i][1] # guid /\ after[table[i][1]] = table[i][2]
  BY <1>1, <1>3, EntriesAre DEF IsMap
<1>10. \A i \in 1 .. Len(more) : after[more[i][1]] = more[i][2]
  BY <1>3, <1>5, <1>7, <1>8, <1>9
<1>11. \A i, j \in 1 .. Len(more) : more[i][1] = more[j][1] => i = j
  BY <1>5, <1>7, <1>8, <1>9 DEF IsMap
<1>12. ASSUME NEW g \in Vendors, after[g] # NoTable PROVE \E i \in 1 .. Len(more) : more[i][1] = g
  <2>1. CASE g = guid
    BY <1>5, <1>7, <1>8, <2>1
  <2>2. CASE g # guid
    <3>1. PICK i \in 1 .. Len(table) : table[i][1] = g
      BY <1>3, <1>12, <2>2 DEF IsMap
    <3> QED
      BY <1>7, <1>8, <3>1
  <2> QED
    BY <2>1, <2>2
<1>13. IsMap(more, after)
  BY <1>3, <1>7, <1>10, <1>11, <1>12 DEF IsMap
<1> QED
  BY <1>2, <1>4, <1>6, <1>7, <1>13

-----------------------------------------------------------------------------
LEMMA ConfigStarts == ConfigInit => ConfigInv
<1> SUFFICES ASSUME ConfigInit PROVE ConfigInv
  OBVIOUS
<1>1. PICK none : none = [guid \in Vendors |-> NoTable]
  OBVIOUS
<1>2. none \in [Vendors -> Tables \cup {NoTable}] /\ \A guid \in Vendors : none[guid] = NoTable
  BY <1>1
<1>3. PICK empty : empty = <<>>
  OBVIOUS
<1>4. empty \in Seq(Entries) /\ Len(empty) = 0
  BY <1>3
<1>5. IsMap(empty, none)
  BY <1>2, <1>4 DEF IsMap
<1>6. latest = [which \in {"boot", "smm"} |-> none]
  BY <1>1 DEF ConfigInit
<1>7. latest["boot"] = none /\ latest["smm"] = none
  BY <1>6
<1>8. latest \in [{"boot", "smm"} -> [Vendors -> Tables \cup {NoTable}]]
  BY <1>2, <1>6
<1>9. IsMap(mConfigTable, latest["boot"]) /\ IsMap(smmTable, latest["smm"])
  BY <1>3, <1>5, <1>7 DEF ConfigInit
<1>10. mConfigTable = <<>> /\ Len(mConfigTable) = 0 /\ Len(smmTable) = 0
  BY <1>3, <1>4 DEF ConfigInit
<1>11. gST = [entries |-> Len(mConfigTable), set |-> mConfigTable # <<>>]
  BY <1>10 DEF ConfigInit
<1>12. Len(mConfigTable) <= MAX_CONFIG_TABLE_ENTRIES
  BY <1>10, ConfigAssumption
<1>13. smmRoom \in Nat /\ allocateSize = smmRoom /\ Len(smmTable) <= smmRoom
  BY <1>10 DEF ConfigInit
<1> QED
  BY <1>8, <1>9, <1>11, <1>12, <1>13 DEF ConfigInv

(* Record changes one map of the two.                                      *)
LEMMA Recorded ==
    ASSUME latest \in [{"boot", "smm"} -> [Vendors -> Tables \cup {NoTable}]],
           NEW which \in {"boot", "smm"}, NEW guid \in Vendors, NEW new \in Tables \cup {NoTable},
           Record(which, guid, new)
    PROVE  /\ latest' \in [{"boot", "smm"} -> [Vendors -> Tables \cup {NoTable}]]
           /\ latest'[which] = [latest[which] EXCEPT ![guid] = new]
           /\ \A other \in {"boot", "smm"} : other # which => latest'[other] = latest[other]
<1>1. PICK map : map = [latest[which] EXCEPT ![guid] = new]
  OBVIOUS
<1>2. map \in [Vendors -> Tables \cup {NoTable}]
  BY <1>1
<1>3. latest' = [latest EXCEPT ![which] = map]
  BY <1>1 DEF Record
<1> QED
  BY <1>1, <1>2, <1>3

LEMMA BootTableKept ==
    ASSUME ConfigInv, CoreInstallConfigurationTable PROVE ConfigInv'
<1>1. PICK guid \in Vendors, new \in Tables \cup {NoTable} :
        /\ IF IndexOf(mConfigTable, guid) # 0 THEN
               /\ mConfigTable' = Replaced(mConfigTable, guid, new)
               /\ gST' = [entries |-> Len(mConfigTable'), set |-> mConfigTable' # <<>>]
               /\ Record("boot", guid, new)
           ELSE /\ new # NoTable /\ Len(mConfigTable) < MAX_CONFIG_TABLE_ENTRIES
                /\ mConfigTable' = Append(mConfigTable, <<guid, new>>)
                /\ gST' = [entries |-> Len(mConfigTable'), set |-> TRUE]
                /\ Record("boot", guid, new)
        /\ UNCHANGED <<smmTable, smmRoom, allocateSize>>
  BY DEF CoreInstallConfigurationTable
<1>2. Record("boot", guid, new)
  BY <1>1
<1>3. /\ latest' \in [{"boot", "smm"} -> [Vendors -> Tables \cup {NoTable}]]
      /\ latest'["boot"] = [latest["boot"] EXCEPT ![guid] = new] /\ latest'["smm"] = latest["smm"]
  BY <1>2, Recorded DEF ConfigInv
<1>4. IsMap(mConfigTable, latest["boot"]) /\ Len(mConfigTable) \in Nat
  BY LenProperties DEF ConfigInv, IsMap
<1>5. CASE IndexOf(mConfigTable, guid) # 0
  <2>1. mConfigTable' = Replaced(mConfigTable, guid, new)
    BY <1>1, <1>5
  <2>2. IsMap(mConfigTable', latest'["boot"]) /\ Len(mConfigTable') <= Len(mConfigTable)
    <3>1. /\ IsMap(Replaced(mConfigTable, guid, new), [latest["boot"] EXCEPT ![guid] = new])
          /\ Len(Replaced(mConfigTable, guid, new)) <= Len(mConfigTable)
      BY <1>4, <1>5, MapReplaced
    <3> QED
      BY <1>3, <2>1, <3>1
  <2>3. Len(mConfigTable') \in Nat
    BY <2>2, LenProperties DEF IsMap
  <2>4. Len(mConfigTable') <= MAX_CONFIG_TABLE_ENTRIES
    BY <1>4, <2>2, <2>3, ConfigAssumption DEF ConfigInv
  <2> QED
    BY <1>1, <1>3, <1>5, <2>2, <2>4 DEF ConfigInv
<1>6. CASE IndexOf(mConfigTable, guid) = 0
  <2>1. /\ new # NoTable /\ Len(mConfigTable) < MAX_CONFIG_TABLE_ENTRIES
        /\ mConfigTable' = Append(mConfigTable, <<guid, new>>)
        /\ gST' = [entries |-> Len(mConfigTable'), set |-> TRUE]
    BY <1>1, <1>6
  <2>2. /\ IsMap(mConfigTable', latest'["boot"]) /\ Len(mConfigTable') = Len(mConfigTable) + 1
        /\ mConfigTable' # <<>>
    BY <1>3, <1>4, <1>6, <2>1, MapAppended
  <2>3. Len(mConfigTable') <= MAX_CONFIG_TABLE_ENTRIES
    BY <1>4, <2>1, <2>2, ConfigAssumption
  <2>4. gST' = [entries |-> Len(mConfigTable'), set |-> mConfigTable' # <<>>]
    BY <2>1, <2>2
  <2> QED
    BY <1>1, <1>3, <2>2, <2>3, <2>4 DEF ConfigInv
<1> QED
  BY <1>5, <1>6

LEMMA SmmTableKept ==
    ASSUME ~PoolEmpties, ConfigInv, SmmInstallConfigurationTable PROVE ConfigInv'
<1>1. PICK guid \in Vendors, new \in Tables \cup {NoTable} :
        /\ \/ /\ IndexOf(smmTable, guid) # 0
              /\ smmTable' = Replaced(smmTable, guid, new)
              /\ Record("smm", guid, new)
              /\ UNCHANGED <<smmRoom, allocateSize>>
           \/ /\ IndexOf(smmTable, guid) = 0 /\ new # NoTable
              /\ smmTable' = Append(smmTable, <<guid, new>>)
              /\ Record("smm", guid, new)
              /\ IF Full THEN /\ allocateSize' = allocateSize + CONFIG_TABLE_SIZE_INCREASED
                              /\ smmRoom' = allocateSize'
                 ELSE UNCHANGED <<smmRoom, allocateSize>>
        /\ UNCHANGED <<mConfigTable, gST>>
  BY DEF SmmInstallConfigurationTable
<1>2. Record("smm", guid, new)
  BY <1>1
<1>3. /\ latest' \in [{"boot", "smm"} -> [Vendors -> Tables \cup {NoTable}]]
      /\ latest'["smm"] = [latest["smm"] EXCEPT ![guid] = new] /\ latest'["boot"] = latest["boot"]
  BY <1>2, Recorded DEF ConfigInv
<1>4. IsMap(smmTable, latest["smm"]) /\ Len(smmTable) \in Nat
  BY LenProperties DEF ConfigInv, IsMap
<1>5. mConfigTable' = mConfigTable /\ gST' = gST
  BY <1>1
<1>6. IsMap(mConfigTable', latest'["boot"])
  BY <1>3, <1>5 DEF ConfigInv
<1>7. /\ gST' = [entries |-> Len(mConfigTable'), set |-> mConfigTable' # <<>>]
      /\ Len(mConfigTable') <= MAX_CONFIG_TABLE_ENTRIES
  BY <1>5 DEF ConfigInv
<1>8. CASE IndexOf(smmTable, guid) # 0
  <2>1. smmTable' = Replaced(smmTable, guid, new) /\ UNCHANGED <<smmRoom, allocateSize>>
    BY <1>1, <1>8
  <2>2. IsMap(smmTable', latest'["smm"]) /\ Len(smmTable') <= Len(smmTable)
    <3>1. /\ IsMap(Replaced(smmTable, guid, new), [latest["smm"] EXCEPT ![guid] = new])
          /\ Len(Replaced(smmTable, guid, new)) <= Len(smmTable)
      BY <1>4, <1>8, MapReplaced
    <3> QED
      BY <1>3, <2>1, <3>1
  <2>3. Len(smmTable') \in Nat
    BY <2>2, LenProperties DEF IsMap
  <2>4. smmRoom' \in Nat /\ allocateSize' = smmRoom' /\ Len(smmTable') <= smmRoom'
    BY <1>4, <2>1, <2>2, <2>3 DEF ConfigInv
  <2> QED
    BY <1>3, <1>6, <1>7, <2>2, <2>4 DEF ConfigInv
<1>9. CASE IndexOf(smmTable, guid) = 0
  <2>1. /\ new # NoTable /\ smmTable' = Append(smmTable, <<guid, new>>)
        /\ IF Full THEN /\ allocateSize' = allocateSize + CONFIG_TABLE_SIZE_INCREASED
                        /\ smmRoom' = allocateSize'
           ELSE UNCHANGED <<smmRoom, allocateSize>>
    BY <1>1, <1>9
  <2>2. IsMap(smmTable', latest'["smm"]) /\ Len(smmTable') = Len(smmTable) + 1
    BY <1>3, <1>4, <1>9, <2>1, MapAppended
  <2>3. smmRoom' \in Nat /\ allocateSize' = smmRoom' /\ Len(smmTable') <= smmRoom'
    BY <1>4, <2>1, <2>2, ConfigAssumption DEF ConfigInv, Full
  <2> QED
    BY <1>3, <1>6, <1>7, <2>2, <2>3 DEF ConfigInv
<1> QED
  BY <1>8, <1>9

LEMMA MapPlaces ==
    ASSUME NEW table, NEW map, IsMap(table, map), NEW guid \in Vendors,
           NEW places, places = {i \in DOMAIN table : table[i][1] = guid}
    PROVE  IF map[guid] = NoTable THEN places = {}
           ELSE \E i \in DOMAIN table : places = {i} /\ table[i] = <<guid, map[guid]>>
<1>1. table \in Seq(Entries) /\ DOMAIN table = 1 .. Len(table)
  BY DEF IsMap
<1>2. CASE map[guid] = NoTable
  <2>1. ASSUME NEW i \in 1 .. Len(table) PROVE table[i][1] # guid
    BY <1>1, <1>2, EntriesAre DEF IsMap
  <2> QED
    BY <1>1, <1>2, <2>1
<1>3. CASE map[guid] # NoTable
  <2>1. PICK i \in 1 .. Len(table) : table[i][1] = guid
    BY <1>3 DEF IsMap
  <2>2. places = {i}
    BY <1>1, <2>1 DEF IsMap
  <2>3. table[i] = <<guid, map[guid]>>
    BY <1>1, <2>1, EntriesAre DEF IsMap
  <2> QED
    BY <1>1, <1>3, <2>1, <2>2, <2>3
<1> QED
  BY <1>2, <1>3

LEMMA ConfigInvServes == ConfigInv => TablesAreMaps
<1> SUFFICES ASSUME ConfigInv PROVE TablesAreMaps
  OBVIOUS
<1>1. ASSUME NEW which \in {"boot", "smm"}, NEW guid \in Vendors
      PROVE  LET table == IF which = "boot" THEN mConfigTable ELSE smmTable
                 places == {i \in DOMAIN table : table[i][1] = guid}
             IN  IF latest[which][guid] = NoTable THEN places = {}
                 ELSE \E i \in DOMAIN table : places = {i} /\ table[i] = <<guid, latest[which][guid]>>
  <2>1. PICK table : table = IF which = "boot" THEN mConfigTable ELSE smmTable
    OBVIOUS
  <2>2. IsMap(table, latest[which])
    BY <2>1 DEF ConfigInv
  <2>3. PICK places : places = {i \in DOMAIN table : table[i][1] = guid}
    OBVIOUS
  <2>4. IF latest[which][guid] = NoTable THEN places = {}
        ELSE \E i \in DOMAIN table : places = {i} /\ table[i] = <<guid, latest[which][guid]>>
    BY <2>2, <2>3, MapPlaces
  <2> QED
    BY <2>1, <2>3, <2>4
<1> QED
  BY <1>1 DEF TablesAreMaps, ConfigInv

(* InstallConfigurationTable of the boot services and of the SMM services: *)
(* after any installations, replacements and removals each table maps a    *)
(* GUID to what was installed last, and fits its memory, as long as pages  *)
(* can be had.                                                             *)
THEOREM ConfigTablesHold ==
    ASSUME ~PoolEmpties PROVE ConfigSpec => []TablesAreMaps
<1>1. ConfigInit => ConfigInv
  BY ConfigStarts
<1>2. ConfigInv /\ [ConfigNext]_configVars => ConfigInv'
  <2> SUFFICES ASSUME ConfigInv, [ConfigNext]_configVars PROVE ConfigInv'
    OBVIOUS
  <2>1. CASE CoreInstallConfigurationTable
    BY <2>1, BootTableKept
  <2>2. CASE SmmInstallConfigurationTable
    BY <2>2, SmmTableKept
  <2>3. CASE UNCHANGED configVars
    BY <2>3 DEF configVars, ConfigInv, IsMap
  <2> QED
    BY <2>1, <2>2, <2>3 DEF ConfigNext
<1>3. ConfigInv => TablesAreMaps
  BY ConfigInvServes
<1> QED
  BY <1>1, <1>2, <1>3, PTL DEF ConfigSpec

-----------------------------------------------------------------------------
(***************************************************************************)
(* The table of the IPv6 configuration's data notifications: it holds each *)
(* subscription once, and an entry is taken or free.                       *)
(***************************************************************************)
NotifyInv ==
    /\ mNotifyTable \in [Slots -> (DataTypes \X Listeners) \cup {NotInUse}]
    /\ subscriptions = {mNotifyTable[i] : i \in Slots \ Unused}
    /\ \A i, j \in Slots : mNotifyTable[i] # NotInUse /\ mNotifyTable[i] = mNotifyTable[j] => i = j
    /\ IsFiniteSet(subscriptions) /\ IsFiniteSet(Unused)
    /\ Cardinality(subscriptions) + Cardinality(Unused) = MAX_DATA_NOTIFY_REGISTRATIONS

(* An empty table.                                                         *)
Emptied == mNotifyTable = [i \in Slots |-> NotInUse] /\ subscriptions = {}

LEMMA NothingRegistered == Emptied => NotifyInv
<1> SUFFICES ASSUME mNotifyTable = [i \in Slots |-> NotInUse], subscriptions = {} PROVE NotifyInv
  BY DEF Emptied
<1>1. mNotifyTable \in [Slots -> (DataTypes \X Listeners) \cup {NotInUse}]
      /\ \A i \in Slots : mNotifyTable[i] = NotInUse
  OBVIOUS
<1>2. Unused = Slots
  BY <1>1 DEF Unused
<1>3. Cardinality(Slots) = MAX_DATA_NOTIFY_REGISTRATIONS /\ IsFiniteSet(Slots)
  BY FS_Interval, ConfigDataAssumption DEF Slots
<1>4. Cardinality(subscriptions) = 0 /\ IsFiniteSet(subscriptions)
  BY FS_EmptySet
<1>5. subscriptions = {mNotifyTable[i] : i \in Slots \ Unused}
  BY <1>2
<1>6. Cardinality(subscriptions) + Cardinality(Unused) = MAX_DATA_NOTIFY_REGISTRATIONS
  BY <1>2, <1>3, <1>4, ConfigDataAssumption
<1> QED
  BY <1>1, <1>2, <1>3, <1>4, <1>5, <1>6 DEF NotifyInv

LEMMA LowestIs ==
    ASSUME NEW slots, slots \subseteq Slots, slots # {} PROVE Lowest(slots) \in slots
<1>1. slots \subseteq Nat
  BY DEF Slots
<1>2. Min(slots) \in slots /\ \A j \in slots : Min(slots) <= j
  BY ONLY <1>1, slots # {}, Minimum
<1> QED
  BY <1>2 DEF Lowest

LEMMA PairRegistered ==
    ASSUME NotifyInv, NEW type \in DataTypes, NEW event \in Listeners, RegisterDataNotify(type, event)
    PROVE  NotifyInv'
<1>1. PICK pair : pair = <<type, event>>
  OBVIOUS
<1>2. PICK k : k = Lowest(Unused)
  OBVIOUS
<1>3. Unused # {} /\ \A i \in Slots : mNotifyTable[i] # pair
  BY <1>1 DEF RegisterDataNotify, RegisterStatus
<1>4. pair \in DataTypes \X Listeners /\ pair # NotInUse
  BY <1>1, ConfigDataAssumption
<1>5. k \in Slots /\ mNotifyTable[k] = NotInUse /\ k \in Unused
  <2>1. Unused \subseteq Slots
    BY DEF Unused
  <2>2. k \in Unused
    BY <1>2, <1>3, <2>1, LowestIs
  <2> QED
    BY <2>2 DEF Unused
<1>6. /\ mNotifyTable' = [mNotifyTable EXCEPT ![k] = pair]
      /\ subscriptions' = subscriptions \cup {pair}
  BY <1>1, <1>2 DEF RegisterDataNotify
<1>7. /\ mNotifyTable' \in [Slots -> (DataTypes \X Listeners) \cup {NotInUse}]
      /\ mNotifyTable'[k] = pair /\ \A i \in Slots : i # k => mNotifyTable'[i] = mNotifyTable[i]
  BY <1>4, <1>5, <1>6 DEF NotifyInv
<1>8. Unused' = Unused \ {k}
  BY <1>4, <1>5, <1>7 DEF Unused
<1>9. pair \notin subscriptions
  BY <1>3 DEF NotifyInv
<1>10. subscriptions' = {mNotifyTable'[i] : i \in Slots \ Unused'}
  BY <1>5, <1>6, <1>7, <1>8 DEF NotifyInv
<1>11. \A i, j \in Slots : mNotifyTable'[i] # NotInUse /\ mNotifyTable'[i] = mNotifyTable'[j] => i = j
  BY <1>3, <1>7 DEF NotifyInv
<1>12. /\ IsFiniteSet(subscriptions') /\ Cardinality(subscriptions') = Cardinality(subscriptions) + 1
  BY <1>6, <1>9, FS_AddElement DEF NotifyInv
<1>13. /\ IsFiniteSet(Unused') /\ Cardinality(Unused') = Cardinality(Unused) - 1
  BY <1>5, <1>8, FS_RemoveElement DEF NotifyInv
<1>14. Cardinality(subscriptions) \in Nat /\ Cardinality(Unused) \in Nat
  BY FS_CardinalityType DEF NotifyInv
<1>15. Cardinality(subscriptions') + Cardinality(Unused') = MAX_DATA_NOTIFY_REGISTRATIONS
  BY <1>12, <1>13, <1>14 DEF NotifyInv
<1> QED
  BY <1>7, <1>10, <1>11, <1>12, <1>13, <1>15 DEF NotifyInv

LEMMA PairUnregistered ==
    ASSUME NotifyInv, NEW type \in DataTypes, NEW event \in Listeners, UnregisterDataNotify(type, event)
    PROVE  NotifyInv'
<1>1. PICK pair : pair = <<type, event>>
  OBVIOUS
<1>2. PICK found : found = {i \in Slots : mNotifyTable[i] = pair}
  OBVIOUS
<1>3. PICK k : k = Lowest(found)
  OBVIOUS
<1>4. /\ found # {} /\ mNotifyTable' = [mNotifyTable EXCEPT ![k] = NotInUse]
      /\ subscriptions' = subscriptions \ {pair}
  BY <1>1, <1>2, <1>3 DEF UnregisterDataNotify
<1>5. k \in Slots /\ mNotifyTable[k] = pair
  BY <1>2, <1>3, <1>4, LowestIs
<1>6. pair # NotInUse
  BY <1>1, ConfigDataAssumption
<1>7. /\ mNotifyTable' \in [Slots -> (DataTypes \X Listeners) \cup {NotInUse}]
      /\ mNotifyTable'[k] = NotInUse /\ \A i \in Slots : i # k => mNotifyTable'[i] = mNotifyTable[i]
  BY <1>4, <1>5 DEF NotifyInv
<1>8. Unused' = Unused \cup {k} /\ k \notin Unused
  BY <1>5, <1>6, <1>7 DEF Unused
<1>9. pair \in subscriptions
  BY <1>5, <1>8 DEF NotifyInv
<1>10. subscriptions' = {mNotifyTable'[i] : i \in Slots \ Unused'}
  <2>1. ASSUME NEW i \in Slots \ Unused' PROVE mNotifyTable'[i] \in subscriptions'
    <3>1. i # k /\ i \in Slots \ Unused /\ mNotifyTable'[i] = mNotifyTable[i] /\ mNotifyTable[i] # pair
      BY <1>5, <1>6, <1>7, <1>8 DEF NotifyInv
    <3> QED
      BY <1>4, <3>1 DEF NotifyInv
  <2>2. ASSUME NEW p \in subscriptions' PROVE \E i \in Slots \ Unused' : p = mNotifyTable'[i]
    <3>1. p # pair /\ p \in subscriptions
      BY <1>4, <2>2
    <3>2. PICK i \in Slots \ Unused : p = mNotifyTable[i]
      BY <3>1 DEF NotifyInv
    <3>3. i # k
      BY <1>5, <3>1, <3>2
    <3> QED
      BY <1>7, <1>8, <3>2, <3>3
  <2> QED
    BY <2>1, <2>2
<1>11. \A i, j \in Slots : mNotifyTable'[i] # NotInUse /\ mNotifyTable'[i] = mNotifyTable'[j] => i = j
  BY <1>7 DEF NotifyInv
<1>12. /\ IsFiniteSet(subscriptions') /\ Cardinality(subscriptions') = Cardinality(subscriptions) - 1
  BY <1>4, <1>9, FS_RemoveElement DEF NotifyInv
<1>13. /\ IsFiniteSet(Unused') /\ Cardinality(Unused') = Cardinality(Unused) + 1
  BY <1>8, FS_AddElement DEF NotifyInv
<1>14. Cardinality(subscriptions) \in Nat /\ Cardinality(Unused) \in Nat
  BY FS_CardinalityType DEF NotifyInv
<1>15. Cardinality(subscriptions') + Cardinality(Unused') = MAX_DATA_NOTIFY_REGISTRATIONS
  BY <1>12, <1>13, <1>14 DEF NotifyInv
<1> QED
  BY <1>7, <1>10, <1>11, <1>12, <1>13, <1>15 DEF NotifyInv

LEMMA TableUnchanged ==
    ASSUME NotifyInv, mNotifyTable' = mNotifyTable, subscriptions' = subscriptions PROVE NotifyInv'
<1>1. Unused' = Unused
  BY DEF Unused
<1> QED
  BY <1>1 DEF NotifyInv

(* RegisterDataNotify and UnregisterDataNotify fill and empty the table in *)
(* any order, between notices and resets: it is the set of subscriptions,  *)
(* each in one entry, and has room for the rest.                           *)
THEOREM SubscriptionsHold == Ip6ConfigSpec => []TableIsSubscriptions
<1>1. Ip6ConfigInit => NotifyInv
  BY NothingRegistered DEF Ip6ConfigInit, Emptied
<1>2. (Emptied => NotifyInv)'
  BY NothingRegistered, PTL
<1>3. NotifyInv /\ [Ip6ConfigNext]_ip6ConfigVars => NotifyInv'
  <2> SUFFICES ASSUME NotifyInv, [Ip6ConfigNext]_ip6ConfigVars PROVE NotifyInv'
    OBVIOUS
  <2>1. ASSUME NEW type \in DataTypes, SetData(type) PROVE NotifyInv'
    BY <2>1, TableUnchanged DEF SetData
  <2>2. ASSUME NEW type \in DataTypes, ClearData(type) PROVE NotifyInv'
    BY <2>2, TableUnchanged DEF ClearData
  <2>3. ASSUME NEW type \in DataTypes, NEW event \in Listeners, RegisterDataNotify(type, event)
        PROVE  NotifyInv'
    BY <2>3, PairRegistered
  <2>4. ASSUME NEW type \in DataTypes, NEW event \in Listeners, UnregisterDataNotify(type, event)
        PROVE  NotifyInv'
    BY <2>4, PairUnregistered
  <2>5. CASE DeliverNotice
    BY <2>5, TableUnchanged DEF DeliverNotice
  <2>6. CASE ResetIp6Config
    BY <1>2, <2>6 DEF ResetIp6Config, Emptied, Slots
  <2>7. CASE UNCHANGED ip6ConfigVars
    BY <2>7, TableUnchanged DEF ip6ConfigVars
  <2> QED
    BY <2>1, <2>2, <2>3, <2>4, <2>5, <2>6, <2>7 DEF Ip6ConfigNext
<1>4. NotifyInv => TableIsSubscriptions
  BY DEF NotifyInv, TableIsSubscriptions
<1> QED
  BY <1>1, <1>3, <1>4, PTL DEF Ip6ConfigSpec

(* The tables of both kinds, used side by side.                            *)
THEOREM TablesHold ==
    ASSUME ~PoolEmpties PROVE ConfigSpec /\ Ip6ConfigSpec => []TablesAgree
<1>1. TablesAreMaps /\ TableIsSubscriptions => TablesAgree
  BY DEF TablesAgree
<1>2. ConfigSpec => []TablesAreMaps
  BY ConfigTablesHold
<1>3. Ip6ConfigSpec => []TableIsSubscriptions
  BY SubscriptionsHold
<1> QED
  BY <1>1, <1>2, <1>3, PTL

-----------------------------------------------------------------------------
(***************************************************************************)
(* The datagrams.  What a context has not handed out yet is in no token,   *)
(* and in no other context.                                                *)
(***************************************************************************)
TokenStates ==
    [of : {"caller", "signalled"} \cup Mocks,
     status : {"none", "EFI_SUCCESS", "EFI_NETWORK_UNREACHABLE", "EFI_TIMEOUT", "EFI_ABORTED",
               "EFI_OUT_OF_RESOURCES"},
     frame : SUBSET Int, payload : Nat]

Readable(c) ==
    /\ c \in [base : Nat, size : Nat, offset : Nat, limit : {0}, exhausted : BOOLEAN]
    /\ c.offset <= c.size

Unread(c) == c.base + c.offset .. c.base + c.size - 1
Carved(m) == IF override[m] = NoContext THEN {} ELSE Unread(override[m])

InputInv ==
    /\ Readable(pool) /\ override = [m \in Mocks |-> override[m]]
    /\ \A m \in Mocks : override[m] = NoContext \/ Readable(override[m])
    /\ \A m \in Mocks : Unread(pool) \cap Carved(m) = {}
    /\ \A m, o \in Mocks : m # o => Carved(m) \cap Carved(o) = {}

FramesInv ==
    /\ token \in [Tokens -> TokenStates]
    /\ \A t \in Tokens : IsFiniteSet(token[t].frame) /\ token[t].frame \cap Unread(pool) = {}
    /\ \A t \in Tokens, m \in Mocks : token[t].frame \cap Carved(m) = {}
    /\ \A t, u \in Tokens : t # u => token[t].frame \cap token[u].frame = {}

(* What a token of UDPv6 says of its frame.                                *)
Whole(state) ==
    state.of = "Udp6" /\ state.status = "EFI_SUCCESS" /\ Cardinality(state.frame) > 1 =>
        state.payload > 0 /\ state.payload = Cardinality(state.frame) - 2

MocksInv == InputInv /\ FramesInv /\ \A t \in Tokens : Whole(token[t])

(* ConsumeFuzzBytes hands out the bytes in front.                          *)
LEMMA BytesTaken ==
    ASSUME NEW c, Readable(c), NEW n \in Nat
    PROVE  /\ Readable(ConsumeFuzzBytes(c, n)) /\ ConsumeFuzzBytes(c, n).size = c.size
           /\ Consumed(c, n) \in Nat
           /\ Bytes(c, n) \subseteq Unread(c) /\ IsFiniteSet(Bytes(c, n))
           /\ Unread(ConsumeFuzzBytes(c, n)) \subseteq Unread(c) \ Bytes(c, n)
           /\ Cardinality(Bytes(c, n)) = IF c.size = 0 THEN 0 ELSE Consumed(c, n)
<1>1. /\ c.base \in Nat /\ c.size \in Nat /\ c.offset \in Nat /\ c.limit = 0 /\ c.exhausted \in BOOLEAN
      /\ c.offset <= c.size
  BY DEF Readable
<1>2. EffectiveEnd(c) = c.size
  BY <1>1 DEF EffectiveEnd
<1>3. PICK left : left = MockFuzzContextRemaining(c)
  OBVIOUS
<1>4. PICK k : k = Consumed(c, n)
  OBVIOUS
<1>5. left = IF c.exhausted \/ c.offset >= c.size THEN 0 ELSE c.size - c.offset
  BY <1>2, <1>3 DEF MockFuzzContextRemaining
<1>6. left \in Nat /\ left <= c.size - c.offset
  BY <1>1, <1>5
<1>7. k = IF c.size = 0 \/ n < left THEN n ELSE left
  BY <1>3, <1>4 DEF Consumed
<1>8. k \in Nat
  BY <1>6, <1>7
<1>9. CASE c.size = 0 \/ left = 0
  <2>1. ConsumeFuzzBytes(c, n) = c
    BY <1>3, <1>9 DEF ConsumeFuzzBytes
  <2>2. ~CanConsume(c, k) \/ k = 0
    BY <1>1, <1>2, <1>5, <1>6, <1>7, <1>9 DEF CanConsume
  <2>3. Bytes(c, n) = {}
    BY <1>1, <1>4, <2>2 DEF Bytes, Region
  <2>4. c.size = 0 \/ k = 0
    BY <1>6, <1>7, <1>9
  <2> QED
    BY <1>4, <1>8, <2>1, <2>3, <2>4, FS_EmptySet
<1>10. CASE c.size # 0 /\ left # 0
  <2>1. /\ ~c.exhausted /\ c.offset < c.size /\ left = c.size - c.offset /\ k <= left
    BY <1>1, <1>5, <1>6, <1>7, <1>10
  <2>2. CanConsume(c, k)
    BY <1>1, <1>2, <2>1 DEF CanConsume
  <2>3. PICK d : d = [c EXCEPT !.offset = c.offset + k]
    OBVIOUS
  <2>4. ConsumeFuzzBytes(c, n) = d
    BY <1>3, <1>4, <1>10, <2>2, <2>3 DEF ConsumeFuzzBytes, MockFuzzContextConsume
  <2>5. /\ Readable(d) /\ d.size = c.size /\ d.base = c.base /\ d.offset = c.offset + k
    BY <1>1, <1>8, <2>1, <2>3 DEF Readable
  <2>6. PICK first, last : first = c.base + c.offset /\ last = c.base + c.offset + k - 1
    OBVIOUS
  <2>7. Bytes(c, n) = first .. last
    BY <1>4, <2>2, <2>6 DEF Bytes, Region
  <2>8. first \in Int /\ last \in Int /\ last - first + 1 = k /\ last >= first - 1
    BY <1>1, <1>8, <2>6
  <2>9. IsFiniteSet(first .. last) /\ Cardinality(first .. last) = k
    <3>1. /\ IsFiniteSet(first .. last)
          /\ Cardinality(first .. last) = IF first > last THEN 0 ELSE last - first + 1
      BY ONLY <2>8, FS_Interval
    <3>2. first > last => k = 0
      BY ONLY <1>8, <2>8
    <3> QED
      BY ONLY <2>8, <3>1, <3>2
  <2>10. first .. last \subseteq Unread(c)
    BY <1>1, <1>8, <2>1, <2>6 DEF Unread
  <2>11. Unread(d) \subseteq Unread(c) \ (first .. last)
    BY <1>1, <1>8, <2>1, <2>5, <2>6 DEF Unread
  <2> QED
    BY <1>4, <1>8, <1>10, <2>4, <2>5, <2>7, <2>9, <2>10, <2>11
<1> QED
  BY <1>9, <1>10

LEMMA Resolved ==
    ASSUME InputInv, NEW m \in Mocks
    PROVE  /\ Readable(ResolveContext(m))
           /\ Unread(ResolveContext(m)) = IF override[m] = NoContext THEN Unread(pool) ELSE Carved(m)
  BY DEF InputInv, ResolveContext, Carved

(* A token gets bytes that a context hands out.                            *)
LEMMA TokenServed ==
    ASSUME MocksInv, NEW m \in Mocks, NEW t \in Tokens, NEW c, c = ResolveContext(m),
           NEW b, b \subseteq Unread(c), IsFiniteSet(b),
           NEW d, Leaves(m, d), Readable(d), Unread(d) \subseteq Unread(c) \ b,
           NEW state \in TokenStates, state.frame = b \/ state.frame = {}, Whole(state),
           token' = [token EXCEPT ![t] = state]
    PROVE  MocksInv'
<1>1. InputInv /\ FramesInv /\ \A u \in Tokens : Whole(token[u])
  BY DEF MocksInv
<1>2. Readable(c) /\ Unread(c) = IF override[m] = NoContext THEN Unread(pool) ELSE Carved(m)
  BY <1>1, Resolved
<1>3. /\ token' \in [Tokens -> TokenStates] /\ token'[t] = state
      /\ \A u \in Tokens : u # t => token'[u] = token[u]
  BY <1>1 DEF FramesInv
<1>4. state.frame \subseteq b /\ IsFiniteSet(state.frame) /\ state.frame \subseteq Unread(c)
  BY FS_EmptySet
<1>5. \A u \in Tokens : token[u].frame \cap Unread(c) = {}
  BY <1>1, <1>2 DEF FramesInv
<1>6. /\ \A u \in Tokens : IsFiniteSet(token'[u].frame)
      /\ \A u, v \in Tokens : u # v => token'[u].frame \cap token'[v].frame = {}
  BY <1>1, <1>3, <1>4, <1>5 DEF FramesInv
<1>7. \A u \in Tokens : Whole(token'[u])
  BY <1>1, <1>3
<1>8. CASE override[m] = NoContext
  <2>1. pool' = d /\ override' = override
    BY <1>8 DEF Leaves
  <2>2. \A o \in Mocks : Carved(o)' = Carved(o)
    BY <2>1 DEF Carved
  <2>3. Unread(pool') \subseteq Unread(pool) \ b
    BY <1>2, <1>8, <2>1
  <2>4. InputInv'
    BY <1>1, <2>1, <2>2, <2>3 DEF InputInv
  <2>5. ASSUME NEW u \in Tokens
        PROVE  /\ token'[u].frame \cap Unread(pool') = {}
               /\ \A o \in Mocks : token'[u].frame \cap Carved(o)' = {}
    <3>1. CASE u = t
      BY <1>1, <1>2, <1>3, <1>4, <1>8, <2>2, <2>3, <3>1 DEF InputInv
    <3>2. CASE u # t
      BY <1>1, <1>3, <2>2, <2>3, <3>2 DEF FramesInv
    <3> QED
      BY <3>1, <3>2
  <2>6. FramesInv'
    BY <1>3, <1>6, <2>5 DEF FramesInv
  <2> QED
    BY <1>7, <2>4, <2>6 DEF MocksInv
<1>9. CASE override[m] # NoContext
  <2>1. override' = [override EXCEPT ![m] = d] /\ pool' = pool
    BY <1>9 DEF Leaves
  <2>2. DOMAIN override = Mocks
    BY <1>1 DEF InputInv
  <2>3. DOMAIN override' = Mocks /\ override'[m] = d /\ \A o \in Mocks : o # m => override'[o] = override[o]
    BY <2>1, <2>2
  <2>4. /\ \A o \in Mocks : o # m => Carved(o)' = Carved(o)
        /\ Carved(m)' \subseteq Carved(m) \ b
    BY <1>2, <1>9, <2>3 DEF Carved
  <2>5. InputInv'
    <3>1. override' = [o \in Mocks |-> override'[o]]
      BY <2>1, <2>2
    <3>2. \A o \in Mocks : override'[o] = NoContext \/ Readable(override'[o])
      BY <1>1, <2>3 DEF InputInv
    <3>3. \A o \in Mocks : Carved(o)' \subseteq Carved(o)
      BY <2>4
    <3>4. /\ \A o \in Mocks : Unread(pool') \cap Carved(o)' = {}
          /\ \A n, o \in Mocks : n # o => Carved(n)' \cap Carved(o)' = {}
      BY <1>1, <2>1, <3>3 DEF InputInv
    <3> QED
      BY <1>1, <2>1, <3>1, <3>2, <3>4 DEF InputInv
  <2>6. ASSUME NEW u \in Tokens
        PROVE  /\ token'[u].frame \cap Unread(pool') = {}
               /\ \A o \in Mocks : token'[u].frame \cap Carved(o)' = {}
    <3>1. CASE u = t
      <4>1. state.frame \subseteq Carved(m)
        BY <1>2, <1>4, <1>9
      <4>2. state.frame \cap Unread(pool) = {} /\ \A o \in Mocks : o # m => state.frame \cap Carved(o) = {}
        BY <1>1, <4>1 DEF InputInv
      <4> QED
        BY <1>3, <1>4, <2>1, <2>4, <3>1, <4>2
    <3>2. CASE u # t
      <4>1. \A o \in Mocks : Carved(o)' \subseteq Carved(o)
        BY <2>4
      <4> QED
        BY <1>1, <1>3, <2>1, <3>2, <4>1 DEF FramesInv
    <3> QED
      BY <3>1, <3>2
  <2>7. FramesInv'
    BY <1>3, <1>6, <2>6 DEF FramesInv
  <2> QED
    BY <1>7, <2>5, <2>7 DEF MocksInv
<1> QED
  BY <1>8, <1>9

LEMMA MocksStart == MocksInit => MocksInv
<1> SUFFICES ASSUME MocksInit PROVE MocksInv
  OBVIOUS
<1>1. FramesInv /\ \A t \in Tokens : Whole(token[t])
  <2>1. Idle \in TokenStates /\ Idle.frame = {} /\ Idle.of = "caller"
    BY DEF Idle, TokenStates
  <2>2. token \in [Tokens -> TokenStates] /\ \A t \in Tokens : token[t] = Idle
    BY <2>1 DEF MocksInit
  <2>3. \A t \in Tokens : token[t].frame = {} /\ token[t].of = "caller"
    BY <2>1, <2>2
  <2> QED
    BY <2>2, <2>3, FS_EmptySet DEF FramesInv, Whole
<1>2. PICK n \in InputSizes, m \in Mocks :
         LET input == MockFuzzContextInit(n) IN
         \/ pool = input /\ override = [x \in Mocks |-> NoContext]
         \/ \E carved \in CarvedSizes :
               /\ CanConsume(input, carved)
               /\ pool = ParentAfterCarve(input, carved)
               /\ override = [x \in Mocks |-> IF x = m THEN MockFuzzContextCreateSubContext(input, carved)
                                              ELSE NoContext]
  BY DEF MocksInit
<1>3. PICK input : input = MockFuzzContextInit(n)
  OBVIOUS
<1>4. n \in Nat
  BY MocksAssumption
<1>5. /\ input \in [base : Nat, size : Nat, offset : Nat, limit : {0}, exhausted : BOOLEAN]
      /\ input.base = 0 /\ input.size = n /\ input.offset = 0 /\ input.limit = 0
  BY <1>3, <1>4 DEF MockFuzzContextInit
<1>6. CASE pool = input /\ override = [x \in Mocks |-> NoContext]
  <2>1. override = [x \in Mocks |-> override[x]] /\ \A x \in Mocks : override[x] = NoContext
    BY <1>6
  <2>2. \A x \in Mocks : Carved(x) = {}
    BY <2>1 DEF Carved
  <2>3. Readable(pool)
    BY <1>4, <1>5, <1>6 DEF Readable
  <2>4. InputInv
    BY <2>1, <2>2, <2>3 DEF InputInv
  <2> QED
    BY <1>1, <2>4 DEF MocksInv
<1>7. ASSUME NEW carved \in CarvedSizes, CanConsume(input, carved), pool = ParentAfterCarve(input, carved),
             override = [x \in Mocks |-> IF x = m THEN MockFuzzContextCreateSubContext(input, carved)
                                         ELSE NoContext]
      PROVE  InputInv
  <2>1. carved \in Nat
    BY MocksAssumption
  <2>2. carved <= n
    BY <1>4, <1>5, <1>7, <2>1 DEF CanConsume, EffectiveEnd
  <2>3. PICK sub : sub = [base |-> 0 + 0, size |-> carved, offset |-> 0, limit |-> 0, exhausted |-> carved = 0]
    OBVIOUS
  <2>4. MockFuzzContextCreateSubContext(input, carved) = sub
    BY <1>5, <1>7, <2>3 DEF MockFuzzContextCreateSubContext
  <2>5. Readable(sub) /\ sub.base = 0 /\ sub.size = carved /\ sub.offset = 0
    BY <2>1, <2>3 DEF Readable
  <2>6. pool = [input EXCEPT !.offset = 0 + carved]
    BY <1>5, <1>7 DEF ParentAfterCarve, MockFuzzContextConsume
  <2>7. Readable(pool) /\ pool.base = 0 /\ pool.size = n /\ pool.offset = carved
    BY <1>4, <1>5, <2>1, <2>2, <2>6 DEF Readable
  <2>8. /\ override = [x \in Mocks |-> override[x]] /\ override[m] = sub
        /\ \A x \in Mocks : x # m => override[x] = NoContext
    BY <1>7, <2>4
  <2>9. /\ Unread(pool) = carved .. n - 1 /\ Unread(sub) = 0 .. carved - 1
    BY <1>4, <2>1, <2>5, <2>7 DEF Unread
  <2>10. Carved(m) \subseteq Unread(sub) /\ \A x \in Mocks : x # m => Carved(x) = {}
    BY <2>8 DEF Carved
  <2>11. Unread(pool) \cap Unread(sub) = {}
    BY <1>4, <2>1, <2>9
  <2>12. /\ \A x \in Mocks : Unread(pool) \cap Carved(x) = {}
         /\ \A x, o \in Mocks : x # o => Carved(x) \cap Carved(o) = {}
    BY <2>10, <2>11
  <2>13. \A x \in Mocks : override[x] = NoContext \/ Readable(override[x])
    BY <2>5, <2>8
  <2> QED
    BY <2>7, <2>8, <2>12, <2>13 DEF InputInv
<1> QED
  BY <1>1, <1>2, <1>3, <1>6, <1>7 DEF MocksInv

(* Tokens that keep their bytes, or lose them.                             *)
LEMMA TokensReturn ==
    ASSUME MocksInv, UNCHANGED <<pool, override>>, token' \in [Tokens -> TokenStates],
           \A t \in Tokens : /\ token'[t].frame \in {token[t].frame, {}}
                             /\ Whole(token[t]) => Whole(token'[t])
    PROVE  MocksInv'
<1>1. \A m \in Mocks : Carved(m)' = Carved(m)
  BY DEF Carved
<1>2. InputInv'
  BY <1>1 DEF MocksInv, InputInv
<1>3. FramesInv'
  BY <1>1, FS_EmptySet DEF MocksInv, FramesInv
<1> QED
  BY <1>2, <1>3 DEF MocksInv

LEMMA IdleReturned ==
    ASSUME MocksInv, UNCHANGED <<pool, override>>, NEW ts,
           token' = [t \in Tokens |-> IF t \in ts THEN Idle ELSE token[t]]
    PROVE  MocksInv'
<1>1. Idle \in TokenStates /\ Idle.frame = {} /\ Idle.of = "caller"
  BY DEF Idle, TokenStates
<1>2. token' \in [Tokens -> TokenStates] /\ \A t \in Tokens : token'[t] \in {Idle, token[t]}
  BY <1>1 DEF MocksInv, FramesInv
<1>3. \A t \in Tokens : token'[t].frame \in {token[t].frame, {}} /\ (Whole(token[t]) => Whole(token'[t]))
  BY <1>1, <1>2 DEF Whole
<1> QED
  BY <1>2, <1>3, TokensReturn

LEMMA SignalStep ==
    ASSUME MocksInv, Signal PROVE MocksInv'
<1>1. PICK h : h = Head(deferred)
  OBVIOUS
<1>2. token' = [token EXCEPT ![h].of = "signalled"] /\ UNCHANGED <<pool, override>>
  BY <1>1 DEF Signal
<1>3. token \in [Tokens -> TokenStates]
  BY DEF MocksInv, FramesInv
<1>4. ASSUME NEW t \in Tokens
      PROVE  /\ token'[t] \in TokenStates /\ token'[t].frame = token[t].frame
             /\ Whole(token[t]) => Whole(token'[t])
  <2>1. PICK after : after = [token[t] EXCEPT !.of = "signalled"]
    OBVIOUS
  <2>2. token[t] \in TokenStates
    BY <1>3
  <2>3. after \in TokenStates /\ after.of = "signalled" /\ after.frame = token[t].frame
    BY <2>1, <2>2 DEF TokenStates
  <2>4. token'[t] = after \/ token'[t] = token[t]
    BY <1>2, <1>3, <2>1
  <2> QED
    BY <2>2, <2>3, <2>4 DEF Whole
<1>5. token' \in [Tokens -> TokenStates]
  <2>1. token' = [t \in Tokens |-> token'[t]]
    BY <1>2, <1>3
  <2> QED
    BY <1>4, <2>1
<1> QED
  BY <1>2, <1>4, <1>5, TokensReturn

(* What Complete leaves in a token.                                        *)
LEMMA CompletedState ==
    ASSUME NEW m \in Mocks, NEW frame \in SUBSET Int, NEW payload \in Nat,
           NEW status \in {"EFI_SUCCESS", "EFI_NETWORK_UNREACHABLE", "EFI_TIMEOUT", "EFI_ABORTED",
                           "EFI_OUT_OF_RESOURCES"},
           NEW state, state = [of |-> m, status |-> status, frame |-> frame, payload |-> payload]
    PROVE  /\ state \in TokenStates /\ state.frame = frame /\ state.of = m
           /\ state.status = status /\ state.payload = payload
  BY DEF TokenStates

(* A token that takes nothing from the input.                              *)
LEMMA TokenWithout ==
    ASSUME MocksInv, NEW t \in Tokens, UNCHANGED <<pool, override>>,
           NEW state \in TokenStates, state.frame = {}, Whole(state),
           token' = [token EXCEPT ![t] = state]
    PROVE  MocksInv'
<1>1. token' \in [Tokens -> TokenStates] /\ \A u \in Tokens : token'[u] \in {state, token[u]}
  BY DEF MocksInv, FramesInv
<1> QED
  BY <1>1, TokensReturn

LEMMA EmptyFrameWhole ==
    ASSUME NEW state \in TokenStates, state.frame = {} PROVE Whole(state)
  BY FS_EmptySet DEF Whole

LEMMA TransmitStep ==
    ASSUME MocksInv, Transmit PROVE MocksInv'
<1>1. PICK m \in Mocks, t \in Tokens :
         LET c == ResolveContext(m) IN
         IF MockFuzzContextRemaining(c) >= 1
         THEN /\ Leaves(m, MockFuzzContextConsume(c, 1))
              /\ \E status \in {"EFI_SUCCESS", "EFI_NETWORK_UNREACHABLE", "EFI_TIMEOUT", "EFI_ABORTED"} :
                    Complete(m, t, status, Region(c, 1), 0)
         ELSE Complete(m, t, "EFI_SUCCESS", {}, 0) /\ UNCHANGED <<pool, override>>
  BY DEF Transmit
<1>2. PICK c : c = ResolveContext(m)
  OBVIOUS
<1>3. Readable(c)
  BY <1>2, Resolved DEF MocksInv
<1>4. CASE ~(MockFuzzContextRemaining(c) >= 1)
  <2>1. Complete(m, t, "EFI_SUCCESS", {}, 0) /\ UNCHANGED <<pool, override>>
    BY <1>1, <1>2, <1>4
  <2>2. PICK state : state = [of |-> m, status |-> "EFI_SUCCESS", frame |-> {}, payload |-> 0]
    OBVIOUS
  <2>3. state \in TokenStates /\ state.frame = {}
    BY <2>2, CompletedState
  <2>4. token' = [token EXCEPT ![t] = state]
    BY <2>1, <2>2 DEF Complete
  <2> QED
    BY <2>1, <2>3, <2>4, TokenWithout, EmptyFrameWhole
<1>5. CASE MockFuzzContextRemaining(c) >= 1
  <2>1. PICK status \in {"EFI_SUCCESS", "EFI_NETWORK_UNREACHABLE", "EFI_TIMEOUT", "EFI_ABORTED"} :
           Complete(m, t, status, Region(c, 1), 0)
    BY <1>1, <1>2, <1>5
  <2>2. Leaves(m, MockFuzzContextConsume(c, 1))
    BY <1>1, <1>2, <1>5
  <2>3. MockFuzzContextRemaining(c) \in Nat /\ c.size # 0
    BY <1>3, <1>5 DEF Readable, MockFuzzContextRemaining, EffectiveEnd
  <2>4. Consumed(c, 1) = 1
    BY <1>5, <2>3 DEF Consumed
  <2>5. ConsumeFuzzBytes(c, 1) = MockFuzzContextConsume(c, 1) /\ Bytes(c, 1) = Region(c, 1)
    BY <1>5, <2>3, <2>4 DEF ConsumeFuzzBytes, Bytes
  <2>6. PICK b, d : b = Bytes(c, 1) /\ d = ConsumeFuzzBytes(c, 1)
    OBVIOUS
  <2>7. /\ Readable(d) /\ b \subseteq Unread(c) /\ IsFiniteSet(b) /\ Unread(d) \subseteq Unread(c) \ b
        /\ Cardinality(b) = 1
    BY <1>3, <2>3, <2>4, <2>6, BytesTaken
  <2>8. PICK state : state = [of |-> m, status |-> status, frame |-> b, payload |-> 0]
    OBVIOUS
  <2>9. b \in SUBSET Int
    BY <2>7 DEF Unread
  <2>10. state \in TokenStates /\ state.frame = b
    BY <2>8, <2>9, CompletedState
  <2>11. Whole(state)
    BY <2>7, <2>10 DEF Whole
  <2>12. token' = [token EXCEPT ![t] = state]
    BY <2>1, <2>5, <2>6, <2>8 DEF Complete
  <2>13. Leaves(m, d)
    BY <2>2, <2>5, <2>6
  <2> QED
    BY <1>2, <2>7, <2>10, <2>11, <2>12, <2>13, TokenServed
<1> QED
  BY <1>4, <1>5

(* Bytes in front, and those behind them.                                  *)
TakesTwice(c, n, d, k, e, b) ==
    /\ Readable(e) /\ b \subseteq Unread(c) /\ IsFiniteSet(b) /\ Unread(e) \subseteq Unread(c) \ b
    /\ e.size = c.size /\ b \subseteq Int
    /\ Cardinality(b) = IF c.size = 0 THEN 0 ELSE Consumed(c, n) + Consumed(d, k)

LEMMA TakenTwice ==
    ASSUME NEW c, Readable(c), NEW n \in Nat, NEW k \in Nat, NEW d, d = ConsumeFuzzBytes(c, n),
           NEW e, e = ConsumeFuzzBytes(d, k), NEW b, b = Bytes(c, n) \cup Bytes(d, k)
    PROVE  TakesTwice(c, n, d, k, e, b)
<1>1. /\ Readable(d) /\ d.size = c.size /\ Consumed(c, n) \in Nat
      /\ Bytes(c, n) \subseteq Unread(c) /\ IsFiniteSet(Bytes(c, n)) /\ Unread(d) \subseteq Unread(c) \ Bytes(c, n)
      /\ Cardinality(Bytes(c, n)) = IF c.size = 0 THEN 0 ELSE Consumed(c, n)
  BY BytesTaken
<1>2. /\ Readable(e) /\ e.size = d.size /\ Consumed(d, k) \in Nat
      /\ Bytes(d, k) \subseteq Unread(d) /\ IsFiniteSet(Bytes(d, k)) /\ Unread(e) \subseteq Unread(d) \ Bytes(d, k)
      /\ Cardinality(Bytes(d, k)) = IF d.size = 0 THEN 0 ELSE Consumed(d, k)
  BY <1>1, BytesTaken
<1>3. /\ IsFiniteSet(b)
      /\ Cardinality(b) = Cardinality(Bytes(c, n)) + Cardinality(Bytes(d, k))
                          - Cardinality(Bytes(c, n) \cap Bytes(d, k))
  BY ONLY <1>1, <1>2, b = Bytes(c, n) \cup Bytes(d, k), FS_Union
<1>4. Bytes(c, n) \cap Bytes(d, k) = {}
  BY <1>1, <1>2
<1>5. Cardinality(Bytes(c, n) \cap Bytes(d, k)) = 0
  BY ONLY <1>4, FS_EmptySet
<1>6. Cardinality(b) = IF c.size = 0 THEN 0 ELSE Consumed(c, n) + Consumed(d, k)
  <2>1. PICK x, y, z : x = Cardinality(Bytes(c, n)) /\ y = Cardinality(Bytes(d, k))
                       /\ z = Cardinality(Bytes(c, n) \cap Bytes(d, k))
    OBVIOUS
  <2>2. PICK p, q : p = Consumed(c, n) /\ q = Consumed(d, k)
    OBVIOUS
  <2>3. /\ x = (IF c.size = 0 THEN 0 ELSE p) /\ y = (IF c.size = 0 THEN 0 ELSE q)
        /\ p \in Nat /\ q \in Nat /\ z = 0
    BY ONLY <1>1, <1>2, <1>5, <2>1, <2>2
  <2>4. Cardinality(b) = x + y - z
    BY ONLY <1>3, <2>1
  <2> QED
    BY ONLY <2>2, <2>3, <2>4
<1>7. Unread(c) \subseteq Int
  BY DEF Unread
<1> QED
  BY <1>1, <1>2, <1>3, <1>6, <1>7 DEF TakesTwice

LEMMA Ip6ReceiveStep ==
    ASSUME MocksInv, MockIp6Receive PROVE MocksInv'
<1>1. PICK t \in Tokens, allocated \in BOOLEAN :
         LET c == ResolveContext("Ip6")
             behindHint == ConsumeFuzzBytes(c, 2)
             behindHeader == ConsumeFuzzBytes(behindHint, 1)
             header == Bytes(c, 2) \cup Bytes(behindHint, 1)
         IN  IF Consumed(c, 2) = 0
             THEN Complete("Ip6", t, "EFI_ABORTED", {}, 0) /\ UNCHANGED <<pool, override>>
             ELSE IF ~allocated
             THEN /\ Complete("Ip6", t, "EFI_OUT_OF_RESOURCES", header, 0)
                  /\ Leaves("Ip6", behindHeader)
             ELSE \E size \in Sizes("Ip6", c) :
                     /\ Complete("Ip6", t, "EFI_SUCCESS", header \cup Bytes(behindHeader, size),
                                 Consumed(behindHeader, size))
                     /\ Leaves("Ip6", ConsumeFuzzBytes(behindHeader, size))
  BY DEF MockIp6Receive
<1>2. PICK c : c = ResolveContext("Ip6")
  OBVIOUS
<1>3. PICK d : d = ConsumeFuzzBytes(c, 2)
  OBVIOUS
<1>4. PICK e : e = ConsumeFuzzBytes(d, 1)
  OBVIOUS
<1>5. PICK header : header = Bytes(c, 2) \cup Bytes(d, 1)
  OBVIOUS
<1>6. "Ip6" \in Mocks
  BY DEF Mocks
<1>7. Readable(c)
  BY <1>2, <1>6, Resolved DEF MocksInv
<1>8. /\ Readable(e) /\ header \subseteq Unread(c) /\ IsFiniteSet(header) /\ Unread(e) \subseteq Unread(c) \ header
      /\ header \subseteq Int
  <2>1. PICK two : two = 2
    OBVIOUS
  <2>2. PICK one : one = 1
    OBVIOUS
  <2>3. two \in Nat /\ d = ConsumeFuzzBytes(c, two)
    BY <1>3, <2>1
  <2>4. one \in Nat
    BY <2>2
  <2>5. e = ConsumeFuzzBytes(d, one) /\ header = Bytes(c, two) \cup Bytes(d, one)
    BY ONLY <1>4, <1>5, <2>1, <2>2
  <2>6. TakesTwice(c, two, d, one, e, header)
    BY ONLY <1>7, <2>3, <2>4, <2>5, TakenTwice
  <2> QED
    BY ONLY <2>6 DEF TakesTwice
<1>9. CASE Consumed(c, 2) = 0
  <2>1. Complete("Ip6", t, "EFI_ABORTED", {}, 0) /\ UNCHANGED <<pool, override>>
    BY <1>1, <1>2, <1>9
  <2>2. PICK state : state = [of |-> "Ip6", status |-> "EFI_ABORTED", frame |-> {}, payload |-> 0]
    OBVIOUS
  <2>3. state \in TokenStates /\ state.frame = {}
    BY <1>6, <2>2, CompletedState
  <2>4. token' = [token EXCEPT ![t] = state]
    BY <2>1, <2>2 DEF Complete
  <2> QED
    BY <2>1, <2>3, <2>4, TokenWithout, EmptyFrameWhole
<1>10. CASE Consumed(c, 2) # 0 /\ ~allocated
  <2>1. Complete("Ip6", t, "EFI_OUT_OF_RESOURCES", header, 0) /\ Leaves("Ip6", e)
    BY <1>1, <1>2, <1>3, <1>4, <1>5, <1>10
  <2>2. PICK state : state = [of |-> "Ip6", status |-> "EFI_OUT_OF_RESOURCES", frame |-> header, payload |-> 0]
    OBVIOUS
  <2>3. state \in TokenStates /\ state.frame = header /\ state.of = "Ip6"
    BY <1>6, <1>8, <2>2, CompletedState
  <2>4. token' = [token EXCEPT ![t] = state]
    BY <2>1, <2>2 DEF Complete
  <2>5. Whole(state)
    BY <2>3 DEF Whole
  <2> QED
    BY <1>2, <1>6, <1>8, <2>1, <2>3, <2>4, <2>5, TokenServed
<1>11. CASE Consumed(c, 2) # 0 /\ allocated
  <2>1. PICK size \in Sizes("Ip6", c) :
           /\ Complete("Ip6", t, "EFI_SUCCESS", header \cup Bytes(e, size), Consumed(e, size))
           /\ Leaves("Ip6", ConsumeFuzzBytes(e, size))
    BY <1>1, <1>2, <1>3, <1>4, <1>5, <1>11
  <2>2. size \in Nat
    BY MocksAssumption DEF Sizes
  <2>3. PICK f, b : f = ConsumeFuzzBytes(e, size) /\ b = header \cup Bytes(e, size)
    OBVIOUS
  <2>4. /\ Readable(f) /\ Consumed(e, size) \in Nat
        /\ Bytes(e, size) \subseteq Unread(e) /\ IsFiniteSet(Bytes(e, size))
        /\ Unread(f) \subseteq Unread(e) \ Bytes(e, size)
    BY <1>8, <2>2, <2>3, BytesTaken
  <2>5. b \subseteq Unread(c) /\ Unread(f) \subseteq Unread(c) \ b
    BY <1>8, <2>3, <2>4
  <2>6. IsFiniteSet(b)
    BY <1>8, <2>3, <2>4, FS_Union
  <2>7. b \in SUBSET Int
    BY <2>5 DEF Unread
  <2>8. PICK state : state = [of |-> "Ip6", status |-> "EFI_SUCCESS", frame |-> b, payload |-> Consumed(e, size)]
    OBVIOUS
  <2>9. state \in TokenStates /\ state.frame = b /\ state.of = "Ip6"
    BY <1>6, <2>4, <2>7, <2>8, CompletedState
  <2>10. token' = [token EXCEPT ![t] = state]
    BY <2>1, <2>3, <2>8 DEF Complete
  <2>11. Whole(state)
    BY <2>9 DEF Whole
  <2>12. Leaves("Ip6", f)
    BY <2>1, <2>3
  <2> QED
    BY <1>2, <1>6, <2>4, <2>5, <2>6, <2>9, <2>10, <2>11, <2>12, TokenServed
<1> QED
  BY <1>9, <1>10, <1>11

LEMMA Udp6ReceiveStep ==
    ASSUME MocksInv, MockUdp6Receive PROVE MocksInv'
<1>1. PICK t \in Tokens, allocated \in BOOLEAN :
         LET c == ResolveContext("Udp6")
             behindHint == ConsumeFuzzBytes(c, 2)
         IN  IF Consumed(c, 2) < 2
             THEN LeftPending("Udp6", t) /\ Leaves("Udp6", behindHint)
             ELSE IF ~allocated
             THEN /\ Complete("Udp6", t, "EFI_OUT_OF_RESOURCES", Bytes(c, 2), 0)
                  /\ Leaves("Udp6", behindHint)
             ELSE \E size \in Sizes("Udp6", c) :
                     LET payload == Consumed(behindHint, size) IN
                     /\ IF NothingToDeliver(payload) THEN LeftPending("Udp6", t)
                        ELSE Complete("Udp6", t, "EFI_SUCCESS", Bytes(c, 2) \cup Bytes(behindHint, size),
                                      payload)
                     /\ Leaves("Udp6", ConsumeFuzzBytes(behindHint, size))
  BY DEF MockUdp6Receive
<1>2. PICK c : c = ResolveContext("Udp6")
  OBVIOUS
<1>3. PICK d : d = ConsumeFuzzBytes(c, 2)
  OBVIOUS
<1>4. PICK hint : hint = Bytes(c, 2)
  OBVIOUS
<1>5. "Udp6" \in Mocks
  BY DEF Mocks
<1>6. Readable(c)
  BY <1>2, <1>5, Resolved DEF MocksInv
<1>7. /\ Readable(d) /\ hint \subseteq Unread(c) /\ IsFiniteSet(hint) /\ Unread(d) \subseteq Unread(c) \ hint
      /\ hint \in SUBSET Int /\ Consumed(c, 2) \in Nat /\ Consumed(c, 2) <= 2
  <2>1. Consumed(c, 2) <= 2
    BY <1>6 DEF Consumed, MockFuzzContextRemaining, EffectiveEnd, Readable
  <2>2. Unread(c) \subseteq Int
    BY DEF Unread
  <2> QED
    BY <1>3, <1>4, <1>6, <2>1, <2>2, BytesTaken
<1>8. PICK pending : pending = [Idle EXCEPT !.of = "Udp6"]
  OBVIOUS
<1>9. pending \in TokenStates /\ pending.frame = {}
  BY <1>5, <1>8 DEF Idle, TokenStates
<1>10. CASE Consumed(c, 2) < 2
  <2>1. token' = [token EXCEPT ![t] = pending] /\ Leaves("Udp6", d)
    BY <1>1, <1>2, <1>3, <1>8, <1>10 DEF LeftPending
  <2> QED
    BY <1>2, <1>5, <1>7, <1>9, <2>1, TokenServed, EmptyFrameWhole
<1>11. CASE ~(Consumed(c, 2) < 2) /\ ~allocated
  <2>1. Complete("Udp6", t, "EFI_OUT_OF_RESOURCES", hint, 0) /\ Leaves("Udp6", d)
    BY <1>1, <1>2, <1>3, <1>4, <1>11
  <2>2. PICK state : state = [of |-> "Udp6", status |-> "EFI_OUT_OF_RESOURCES", frame |-> hint, payload |-> 0]
    OBVIOUS
  <2>3. state \in TokenStates /\ state.frame = hint /\ state.status = "EFI_OUT_OF_RESOURCES"
    BY <1>5, <1>7, <2>2, CompletedState
  <2>4. token' = [token EXCEPT ![t] = state]
    BY <2>1, <2>2 DEF Complete
  <2>5. Whole(state)
    BY <2>3 DEF Whole
  <2> QED
    BY <1>2, <1>5, <1>7, <2>1, <2>3, <2>4, <2>5, TokenServed
<1>12. CASE ~(Consumed(c, 2) < 2) /\ allocated
  <2>1. PICK size \in Sizes("Udp6", c) :
           /\ IF NothingToDeliver(Consumed(d, size)) THEN LeftPending("Udp6", t)
              ELSE Complete("Udp6", t, "EFI_SUCCESS", hint \cup Bytes(d, size), Consumed(d, size))
           /\ Leaves("Udp6", ConsumeFuzzBytes(d, size))
    BY <1>1, <1>2, <1>3, <1>4, <1>12
  <2>2. size \in Nat
    BY MocksAssumption DEF Sizes
  <2>3. PICK e, b, payload : e = ConsumeFuzzBytes(d, size) /\ b = hint \cup Bytes(d, size)
                             /\ payload = Consumed(d, size)
    OBVIOUS
  <2>4. /\ Readable(e) /\ b \subseteq Unread(c) /\ IsFiniteSet(b) /\ Unread(e) \subseteq Unread(c) \ b
        /\ b \subseteq Int
        /\ Cardinality(b) = IF c.size = 0 THEN 0 ELSE Consumed(c, 2) + payload
    <3>1. /\ Readable(e) /\ b \subseteq Unread(c) /\ IsFiniteSet(b) /\ Unread(e) \subseteq Unread(c) \ b
          /\ b \subseteq Int
          /\ Cardinality(b) = IF c.size = 0 THEN 0 ELSE Consumed(c, 2) + Consumed(d, size)
      <4>1. PICK two : two = 2
        OBVIOUS
      <4>2. two \in Nat /\ d = ConsumeFuzzBytes(c, two)
        BY <1>3, <4>1
      <4>3. e = ConsumeFuzzBytes(d, size) /\ b = Bytes(c, two) \cup Bytes(d, size)
        BY ONLY <1>4, <2>3, <4>1
      <4>4. TakesTwice(c, two, d, size, e, b)
        BY ONLY <1>6, <2>2, <4>2, <4>3, TakenTwice
      <4> QED
        BY ONLY <4>1, <4>4 DEF TakesTwice
    <3> QED
      BY ONLY <2>3, <3>1
  <2>5. Leaves("Udp6", e)
    BY <2>1, <2>3
  <2>6. payload \in Nat
    BY <1>7, <2>2, <2>3, BytesTaken
  <2>7. CASE payload = 0
    <3>1. token' = [token EXCEPT ![t] = pending]
      BY <1>8, <2>1, <2>3, <2>7 DEF LeftPending, NothingToDeliver
    <3> QED
      BY <1>2, <1>5, <1>9, <2>4, <2>5, <3>1, TokenServed, EmptyFrameWhole
  <2>8. CASE payload # 0
    <3>1. PICK state : state = [of |-> "Udp6", status |-> "EFI_SUCCESS", frame |-> b, payload |-> payload]
      OBVIOUS
    <3>2. b \in SUBSET Int
      BY <2>4
    <3>3. state \in TokenStates /\ state.frame = b /\ state.payload = payload
      BY <1>5, <2>6, <3>1, <3>2, CompletedState
    <3>4. token' = [token EXCEPT ![t] = state]
      BY <2>1, <2>3, <2>8, <3>1 DEF Complete, NothingToDeliver
    <3>5. Consumed(c, 2) = 2
      BY <1>7, <1>12
    <3>6. Whole(state)
      BY <2>4, <2>6, <2>8, <3>3, <3>5 DEF Whole
    <3> QED
      BY <1>2, <1>5, <2>4, <2>5, <3>3, <3>4, <3>6, TokenServed
  <2> QED
    BY <2>7, <2>8
<1> QED
  BY <1>10, <1>11, <1>12

LEMMA MocksStep ==
    ASSUME MocksInv, [MocksNext]_mockVars PROVE MocksInv'
<1>1. CASE UNCHANGED <<pool, override, token>>
  <2>1. \A m \in Mocks : Carved(m)' = Carved(m)
    BY <1>1 DEF Carved
  <2> QED
    BY <1>1, <2>1 DEF MocksInv, InputInv, FramesInv
<1>2. CASE Configure
  BY <1>1, <1>2 DEF Configure
<1>3. CASE Unconfigure
  BY <1>3, IdleReturned DEF Unconfigure, Returned
<1>4. CASE Transmit
  BY <1>4, TransmitStep
<1>5. CASE MockIp6Receive
  BY <1>5, Ip6ReceiveStep
<1>6. CASE MockUdp6Receive
  BY <1>6, Udp6ReceiveStep
<1>7. CASE Cancel
  BY <1>7, IdleReturned DEF Cancel, Returned
<1>8. CASE Signal
  BY <1>8, SignalStep
<1>9. CASE ResetMocks
  <2>1. token' = [t \in Tokens |-> IF t \in Tokens THEN Idle ELSE token[t]] /\ UNCHANGED <<pool, override>>
    BY <1>9 DEF ResetMocks
  <2> QED
    BY <2>1, IdleReturned
<1>10. CASE UNCHANGED mockVars
  BY <1>1, <1>10 DEF mockVars
<1> QED
  BY <1>2, <1>3, <1>4, <1>5, <1>6, <1>7, <1>8, <1>9, <1>10 DEF MocksNext

(* The mocks' Receive and Transmit: whichever mock takes from the input    *)
(* when, no byte is in two tokens, and a datagram of UDPv6 is as long as   *)
(* its data and not empty.                                                 *)
THEOREM DatagramsHold == MocksSpec => []DatagramsCut
<1>1. MocksInv => DatagramsCut
  BY DEF MocksInv, FramesInv, Whole, DatagramsCut
<1> QED
  BY <1>1, MocksStart, MocksStep, PTL DEF MocksSpec

-----------------------------------------------------------------------------
(***************************************************************************)
(* The services together, one of them in use at a time.                    *)
(***************************************************************************)
LEMMA ServicesApart ==
    Spec => SmiSpec /\ SmmSpec /\ ConfigSpec /\ Ip6ConfigSpec /\ SnpSpec /\ MocksSpec
<1>1. Init => SmiInit /\ SmmInit /\ ConfigInit /\ Ip6ConfigInit /\ SnpInit /\ MocksInit
  BY DEF Init
<1>2. [Next]_vars => [SmiNext]_smiVars
  BY DEF Next, vars, coreVars, netVars, Ppis, Hobs, Smis, SmmProtocolServices, ConfigurationTables,
         Ip6Configuration, Networks, Datagrams
<1>3. [Next]_vars => [SmmNext]_smmVars
  BY DEF Next, vars, coreVars, netVars, Ppis, Hobs, Smis, SmmProtocolServices, ConfigurationTables,
         Ip6Configuration, Networks, Datagrams
<1>4. [Next]_vars => [ConfigNext]_configVars
  BY DEF Next, vars, coreVars, netVars, Ppis, Hobs, Smis, SmmProtocolServices, ConfigurationTables,
         Ip6Configuration, Networks, Datagrams
<1>5. [Next]_vars => [Ip6ConfigNext]_ip6ConfigVars
  BY DEF Next, vars, coreVars, netVars, Ppis, Hobs, Smis, SmmProtocolServices, ConfigurationTables,
         Ip6Configuration, Networks, Datagrams
<1>6. [Next]_vars => [SnpNext]_snpVars
  BY DEF Next, vars, coreVars, netVars, Ppis, Hobs, Smis, SmmProtocolServices, ConfigurationTables,
         Ip6Configuration, Networks, Datagrams
<1>7. [Next]_vars => [MocksNext]_mockVars
  BY DEF Next, vars, coreVars, netVars, Ppis, Hobs, Smis, SmmProtocolServices, ConfigurationTables,
         Ip6Configuration, Networks, Datagrams
<1> QED
  BY <1>1, <1>2, <1>3, <1>4, <1>5, <1>6, <1>7, PTL
     DEF Spec, SmiSpec, SmmSpec, ConfigSpec, Ip6ConfigSpec, SnpSpec, MocksSpec

(* Whichever of the services is used, in the model-checked instance and in *)
(* every other: SMIs find the handlers of the moment, SMM notify functions *)
(* hear of what is installed, the tables agree with what was registered,   *)
(* the network mock recycles what was handed to it, and the datagram mocks *)
(* cut the input into separate frames.                                     *)
THEOREM ServicesHold ==
    ASSUME ~StaleHandles, ~PoolEmpties
    PROVE  Spec => [](SmisDispatched /\ InterfacesTold /\ TablesAgree /\ BuffersAwaited /\ DatagramsCut)
<1>1. SmiSpec => []SmisDispatched
  BY SmisServed
<1>2. SmmSpec => []InterfacesTold
  BY InterfacesHold
<1>3. ConfigSpec /\ Ip6ConfigSpec => []TablesAgree
  BY TablesHold
<1>4. SnpSpec => []BuffersAwaited
  BY BuffersHold
<1>5. MocksSpec => []DatagramsCut
  BY DatagramsHold
<1> QED
  BY <1>1, <1>2, <1>3, <1>4, <1>5, ServicesApart, PTL
=============================================================================
