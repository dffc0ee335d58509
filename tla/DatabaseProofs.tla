---------------------------- MODULE DatabaseProofs ----------------------------
(***************************************************************************)
(* The lists of ProtocolDatabase agree, a registration returns every       *)
(* installation once, and nobody loses an interface unasked, for all sets  *)
(* of handles, protocols, agents and registrations and any number of       *)
(* services that wait for each other's drivers.                            *)
(***************************************************************************)
EXTENDS ProtocolDatabase, ListLemmas, FiniteSetTheorems

-----------------------------------------------------------------------------
(***************************************************************************)
(* The invariant, in four parts: the lists, the registrations, the records *)
(* and the services that wait.                                             *)
(***************************************************************************)
RecordType == [agent : Agents, attributes : {o[2] : o \in Openers}, count : Nat]

FrameType ==
    [service : {"uninstall", "reinstall", "open", "connect"}, stage : {"stop", "connect"},
     b : Blocks \cup {ListHead}, opener : Openers \cup {NoOpener}, agent : Agents \cup {None}]

InterfaceTypes ==
    /\ gHandleList \in Seq(Handles)
    /\ handleProtocols \in [Handles -> Seq(Blocks)]
    /\ byProtocol \in [Protocols -> Seq(Blocks)]
    /\ block \in [Blocks -> [handle : Handles \cup {None}, protocol : Protocols \cup {None}]]

(* An interface has a handle and a protocol, or its block is free.         *)
Placed ==
    \A b \in Blocks :
        block[b] = Free \/ (block[b].handle \in Handles /\ block[b].protocol \in Protocols)

HandlesLinked ==
    \A h \in Handles :
        IsInjective(handleProtocols[h]) /\ Range(handleProtocols[h]) = {b \in Blocks : block[b].handle = h}

ProtocolsLinked ==
    \A p \in Protocols :
        IsInjective(byProtocol[p]) /\ Range(byProtocol[p]) = {b \in Blocks : block[b].protocol = p}

HandlesListed ==
    IsInjective(gHandleList) /\ Range(gHandleList) = {h \in Handles : handleProtocols[h] # <<>>}

CarriedOnce ==
    \A b, c \in Blocks : block[b] = block[c] /\ block[b] # Free => b = c

InterfacesInv == InterfaceTypes /\ Placed /\ HandlesLinked /\ ProtocolsLinked /\ HandlesListed /\ CarriedOnce

(* A registration is at the head, or at an interface of its protocol.      *)
PositionsLinked ==
    \A r \in Registrations :
        \/ position[r] = ListHead
        \/ notify[r] \in Protocols /\ position[r] \in Range(byProtocol[notify[r]])

WalksInv ==
    /\ notify \in [Registrations -> Protocols \cup {None}]
    /\ position \in [Registrations -> Blocks \cup {ListHead}]
    /\ unseen \in [Registrations -> Seq(Blocks)]
    /\ PositionsLinked
    /\ EachInstallOnce

DrivenOnce(records) ==
    \A i, j \in 1 .. Len(records) : ByDriver(records[i]) /\ ByDriver(records[j]) => i = j

OpensInv ==
    /\ OpenList \in [Blocks -> Seq(RecordType)]
    /\ \A b \in Blocks : DrivenOnce(OpenList[b]) /\ (block[b] = Free => OpenList[b] = <<>>)

(* An interface for which a driver is being stopped is there.  A service   *)
(* that is to uninstall or reinstall it is the first to wait for it, so    *)
(* that nothing is pulled from under those that wait below.                *)
FrameFits(f, below, of) ==
    /\ f.b \in Blocks
    /\ of[f.b] # Free
    /\ f.service = "open" => f.opener \in Openers
    /\ f.service # "open" => \A i \in 1 .. Len(below) : below[i].stage = "stop" => below[i].b # f.b

FramesFit(fs, of) ==
    \A j \in 1 .. Len(fs) : fs[j].stage = "stop" =>
        /\ fs[j].b \in Blocks
        /\ of[fs[j].b] # Free
        /\ fs[j].service = "open" => fs[j].opener \in Openers
        /\ fs[j].service # "open" => \A i \in 1 .. j - 1 : fs[i].stage = "stop" => fs[i].b # fs[j].b

FramesInv == frames \in Seq(FrameType) /\ FramesFit(frames, block)

LinkedInv == InterfacesInv /\ WalksInv /\ OpensInv /\ FramesInv

-----------------------------------------------------------------------------
LEMMA Proper ==
    /\ None \notin Handles /\ None \notin Protocols /\ ListHead \notin Blocks
    /\ Free.handle = None /\ Free.protocol = None
    /\ \A h \in Handles, p \in Protocols : [handle |-> h, protocol |-> p] # Free
BY DatabaseAssumption DEF Free

(* The first registration, connection and disconnection find nothing.      *)
LEMMA LinkedInit ==
    ASSUME Init
    PROVE  LinkedInv
<1>1. InterfacesInv
  <2>1. InterfaceTypes /\ Placed /\ CarriedOnce
    BY DEF Init, InterfaceTypes, Placed, CarriedOnce, Free
  <2>2. IsInjective(<<>>) /\ Range(<<>>) = {}
    BY DEF IsInjective, Range
  <2>3. HandlesLinked /\ ProtocolsLinked /\ HandlesListed
    BY <2>2, Proper DEF Init, HandlesLinked, ProtocolsLinked, HandlesListed
  <2> QED
    BY <2>1, <2>3 DEF InterfacesInv
<1>2. WalksInv
  BY Proper DEF Init, WalksInv, PositionsLinked, EachInstallOnce
<1>3. OpensInv
  BY DEF Init, OpensInv, DrivenOnce
<1>4. FramesInv
  BY DEF Init, FramesInv, FramesFit
<1> QED
  BY <1>1, <1>2, <1>3, <1>4 DEF LinkedInv

-----------------------------------------------------------------------------
(* Install: the new interface is the first of its handle and the last of   *)
(* its protocol.                                                           *)
LEMMA InstallLinks ==
    ASSUME LinkedInv, NEW h \in Handles, NEW p \in Protocols, CoreInstallProtocolInterface(h, p)
    PROVE  LinkedInv'
<1>1. PICK b \in Blocks \ Live :
          /\ Interfaces(h, p) = {}
          /\ gHandleList' = IF h \in Range(gHandleList) THEN gHandleList ELSE Append(gHandleList, h)
          /\ handleProtocols' = [handleProtocols EXCEPT ![h] = <<b>> \o @]
          /\ byProtocol' = [byProtocol EXCEPT ![p] = Append(@, b)]
          /\ block' = [block EXCEPT ![b] = [handle |-> h, protocol |-> p]]
          /\ unseen' = [r \in Registrations |->
                           IF notify[r] = p THEN Append(unseen[r], b) ELSE unseen[r]]
          /\ UNCHANGED <<OpenList, notify, position, frames>>
  BY DEF CoreInstallProtocolInterface
<1>2. b \in Blocks /\ block[b] = Free
  BY <1>1 DEF Live
<1>3. InterfaceTypes /\ Placed /\ HandlesLinked /\ ProtocolsLinked /\ HandlesListed /\ CarriedOnce
  BY DEF LinkedInv, InterfacesInv
<1>4. \A c \in Blocks : block'[c] = IF c = b THEN [handle |-> h, protocol |-> p] ELSE block[c]
  BY <1>1, <1>2, <1>3 DEF InterfaceTypes
<1>5. block'[b] # Free /\ block'[b].handle = h /\ block'[b].protocol = p
  BY <1>2, <1>4, Proper
<1>6. /\ handleProtocols[h] \in Seq(Blocks) /\ IsInjective(handleProtocols[h]) /\ b \notin Range(handleProtocols[h])
      /\ byProtocol[p] \in Seq(Blocks) /\ IsInjective(byProtocol[p]) /\ b \notin Range(byProtocol[p])
  BY <1>2, <1>3, Proper DEF InterfaceTypes, HandlesLinked, ProtocolsLinked
<1>7. /\ handleProtocols'[h] = <<b>> \o handleProtocols[h]
      /\ \A k \in Handles : k # h => handleProtocols'[k] = handleProtocols[k]
  BY <1>1, <1>3 DEF InterfaceTypes
<1>8. /\ byProtocol'[p] = Append(byProtocol[p], b)
      /\ \A q \in Protocols : q # p => byProtocol'[q] = byProtocol[q]
  BY <1>1, <1>3 DEF InterfaceTypes
<1>9. /\ handleProtocols'[h] \in Seq(Blocks) /\ IsInjective(handleProtocols'[h])
      /\ Range(handleProtocols'[h]) = Range(handleProtocols[h]) \cup {b}
  BY <1>2, <1>6, <1>7, PrependElements
<1>10. /\ byProtocol'[p] \in Seq(Blocks) /\ IsInjective(byProtocol'[p])
       /\ Range(byProtocol'[p]) = Range(byProtocol[p]) \cup {b}
  BY <1>2, <1>6, <1>8, AppendElements
<1>11. /\ gHandleList' \in Seq(Handles) /\ IsInjective(gHandleList')
       /\ Range(gHandleList') = Range(gHandleList) \cup {h}
  <2>1. gHandleList \in Seq(Handles) /\ IsInjective(gHandleList)
    BY <1>3 DEF InterfaceTypes, HandlesListed
  <2>2. CASE h \in Range(gHandleList)
    BY <1>1, <2>1, <2>2
  <2>3. CASE h \notin Range(gHandleList)
    BY <1>1, <2>1, <2>3, AppendElements
  <2> QED
    BY <2>2, <2>3
<1>12. InterfacesInv'
  <2>1. InterfaceTypes'
    <3>1. handleProtocols' \in [Handles -> Seq(Blocks)]
      <4>1. \A k \in Handles : handleProtocols'[k] \in Seq(Blocks)
        BY <1>3, <1>7, <1>9 DEF InterfaceTypes
      <4> QED
        BY <1>1, <1>3, <4>1 DEF InterfaceTypes
    <3>2. byProtocol' \in [Protocols -> Seq(Blocks)]
      <4>1. \A q \in Protocols : byProtocol'[q] \in Seq(Blocks)
        BY <1>3, <1>8, <1>10 DEF InterfaceTypes
      <4> QED
        BY <1>1, <1>3, <4>1 DEF InterfaceTypes
    <3>3. block' \in [Blocks -> [handle : Handles \cup {None}, protocol : Protocols \cup {None}]]
      BY <1>1, <1>2, <1>3 DEF InterfaceTypes
    <3> QED
      BY <1>11, <3>1, <3>2, <3>3 DEF InterfaceTypes
  <2>2. Placed'
    BY <1>3, <1>4, <1>5 DEF Placed
  <2>3. HandlesLinked'
    <3> SUFFICES ASSUME NEW k \in Handles
                 PROVE  /\ IsInjective(handleProtocols'[k])
                        /\ Range(handleProtocols'[k]) = {c \in Blocks : block'[c].handle = k}
      BY DEF HandlesLinked
    <3>1. IsInjective(handleProtocols[k]) /\ Range(handleProtocols[k]) = {c \in Blocks : block[c].handle = k}
      BY <1>3 DEF HandlesLinked
    <3>2. block[b].handle # k
      BY <1>2, Proper
    <3>3. CASE k = h
      BY <1>2, <1>4, <1>5, <1>9, <3>1, <3>3
    <3>4. CASE k # h
      BY <1>2, <1>4, <1>5, <1>7, <3>1, <3>2, <3>4
    <3> QED
      BY <3>3, <3>4
  <2>4. ProtocolsLinked'
    <3> SUFFICES ASSUME NEW q \in Protocols
                 PROVE  /\ IsInjective(byProtocol'[q])
                        /\ Range(byProtocol'[q]) = {c \in Blocks : block'[c].protocol = q}
      BY DEF ProtocolsLinked
    <3>1. IsInjective(byProtocol[q]) /\ Range(byProtocol[q]) = {c \in Blocks : block[c].protocol = q}
      BY <1>3 DEF ProtocolsLinked
    <3>2. block[b].protocol # q
      BY <1>2, Proper
    <3>3. CASE q = p
      BY <1>2, <1>4, <1>5, <1>10, <3>1, <3>3
    <3>4. CASE q # p
      BY <1>2, <1>4, <1>5, <1>8, <3>1, <3>2, <3>4
    <3> QED
      BY <3>3, <3>4
  <2>5. HandlesListed'
    <3>1. handleProtocols'[h] # <<>>
      BY <1>9, NoElements
    <3>2. Range(gHandleList) = {k \in Handles : handleProtocols[k] # <<>>}
      BY <1>3 DEF HandlesListed
    <3>3. \A k \in Handles : k \in Range(gHandleList') <=> handleProtocols'[k] # <<>>
      BY <1>7, <1>11, <3>1, <3>2
    <3>4. Range(gHandleList') \subseteq Handles
      BY <1>11, <3>2
    <3> QED
      BY <1>11, <3>3, <3>4 DEF HandlesListed
  <2>6. CarriedOnce'
    <3>1. \A c \in Blocks : c # b => block[c] # [handle |-> h, protocol |-> p]
      <4> SUFFICES ASSUME NEW c \in Blocks, block[c] = [handle |-> h, protocol |-> p] PROVE FALSE
        OBVIOUS
      <4>1. block[c].handle = h /\ block[c].protocol = p
        OBVIOUS
      <4>2. c \in Range(handleProtocols[h])
        BY <1>3, <4>1 DEF HandlesLinked
      <4> QED
        BY <1>1, <4>1, <4>2 DEF Interfaces
    <3> QED
      BY <1>3, <1>4, <3>1 DEF CarriedOnce
  <2> QED
    BY <2>1, <2>2, <2>3, <2>4, <2>5, <2>6 DEF InterfacesInv
<1>13. WalksInv'
  <2>1. WalksInv
    BY DEF LinkedInv
  <2>2. notify' = notify /\ position' = position
    BY <1>1
  <2>3. \A r \in Registrations : unseen'[r] = IF notify[r] = p THEN Append(unseen[r], b) ELSE unseen[r]
    BY <1>1
  <2>4. unseen' \in [Registrations -> Seq(Blocks)]
    <3>1. \A r \in Registrations : unseen'[r] \in Seq(Blocks)
      <4> SUFFICES ASSUME NEW r \in Registrations PROVE unseen'[r] \in Seq(Blocks)
        OBVIOUS
      <4>1. unseen[r] \in Seq(Blocks)
        BY <2>1 DEF WalksInv
      <4>2. Append(unseen[r], b) \in Seq(Blocks)
        BY <1>2, <4>1
      <4> QED
        BY <2>3, <4>1, <4>2
    <3> QED
      BY <1>1, <3>1
  <2>5. PositionsLinked'
    <3> SUFFICES ASSUME NEW r \in Registrations, position[r] # ListHead
                 PROVE  notify[r] \in Protocols /\ position[r] \in Range(byProtocol'[notify[r]])
      BY <2>2 DEF PositionsLinked
    <3>1. notify[r] \in Protocols /\ position[r] \in Range(byProtocol[notify[r]])
      BY <2>1 DEF WalksInv, PositionsLinked
    <3> QED
      BY <1>8, <1>10, <3>1
  <2>6. EachInstallOnce'
    <3> SUFFICES ASSUME NEW r \in Registrations, notify[r] # None
                 PROVE  Behind(byProtocol'[notify[r]], position[r]) = unseen'[r]
      BY <2>2 DEF EachInstallOnce, Suffix, Behind
    <3>1. Behind(byProtocol[notify[r]], position[r]) = unseen[r]
      BY <2>1 DEF WalksInv, EachInstallOnce, Suffix, Behind
    <3>2. notify[r] \in Protocols
      BY <2>1 DEF WalksInv
    <3>3. CASE notify[r] # p
      BY <1>8, <2>3, <3>1, <3>2, <3>3
    <3>4. CASE notify[r] = p
      <4>1. position[r] # b
        BY <1>2, <1>6, <2>1, <3>4, Proper DEF WalksInv, PositionsLinked
      <4>2. Distinct(byProtocol[p]) /\ \A i \in 1 .. Len(byProtocol[p]) : byProtocol[p][i] # b
        BY <1>6, Elements
      <4>3. Behind(Append(byProtocol[p], b), position[r]) = Append(Behind(byProtocol[p], position[r]), b)
        BY <1>2, <1>6, <4>1, <4>2, BehindAppend
      <4> QED
        BY <1>8, <2>3, <3>1, <3>4, <4>3
    <3> QED
      BY <3>3, <3>4
  <2> QED
    BY <2>1, <2>2, <2>4, <2>5, <2>6 DEF WalksInv
<1>14. OpensInv'
  <2>1. OpensInv
    BY DEF LinkedInv
  <2> QED
    BY <1>1, <1>4, <1>5, <2>1 DEF OpensInv
<1>15. FramesInv'
  <2>1. FramesInv
    BY DEF LinkedInv
  <2>2. \A c \in Blocks : block[c] # Free => block'[c] # Free
    BY <1>4, <1>5
  <2> QED
    BY <1>1, <2>1, <2>2 DEF FramesInv, FramesFit
<1> QED
  BY <1>12, <1>13, <1>14, <1>15 DEF LinkedInv

-----------------------------------------------------------------------------
(* The position before b, in the list of its protocol.                     *)
LEMMA BackLinkIs ==
    ASSUME LinkedInv, NEW b \in Blocks, NEW p \in Protocols, block[b].protocol = p
    PROVE  /\ byProtocol[p] \in Seq(Blocks) /\ Distinct(byProtocol[p])
           /\ \E j \in 1 .. Len(byProtocol[p]) :
                 /\ byProtocol[p][j] = b
                 /\ BackLink(b) = IF j = 1 THEN ListHead ELSE byProtocol[p][j - 1]
<1>1. byProtocol[p] \in Seq(Blocks) /\ IsInjective(byProtocol[p]) /\ b \in Range(byProtocol[p])
  BY DEF LinkedInv, InterfacesInv, InterfaceTypes, ProtocolsLinked
<1> PICK s : s = byProtocol[p]
  OBVIOUS
<1>2. Distinct(s) /\ \E j \in 1 .. Len(s) : s[j] = b
  BY <1>1, Elements
<1>3. PICK j \in 1 .. Len(s) : s[j] = b
  BY <1>2
<1>4. (CHOOSE i \in 1 .. Len(s) : s[i] = b) = j
  BY <1>2, <1>3 DEF Distinct
<1>5. BackLink(b) = IF j = 1 THEN ListHead ELSE s[j - 1]
  <2>1. BackLink(b) = IF (CHOOSE i \in 1 .. Len(s) : s[i] = b) = 1 THEN ListHead
                      ELSE s[(CHOOSE i \in 1 .. Len(s) : s[i] = b) - 1]
    BY DEF BackLink
  <2> QED
    BY <1>4, <2>1
<1> QED
  BY <1>1, <1>2, <1>3, <1>5

(* The registrations that were at b are backed up.  What a registration    *)
(* has still to return loses b and keeps its order.                        *)
LEMMA BackedUp ==
    ASSUME LinkedInv, NEW b \in Blocks, NEW p \in Protocols, block[b].protocol = p,
           NEW r \in Registrations
    PROVE  /\ BackUp(b)[r] \in Blocks \cup {ListHead} /\ BackUp(b)[r] # b
           /\ notify[r] # p => BackUp(b)[r] = position[r]
           /\ notify[r] # p /\ notify[r] # None => RemoveFirst(unseen[r], b) = unseen[r]
           /\ notify[r] = p =>
                 /\ BackUp(b)[r] = ListHead \/ BackUp(b)[r] \in Range(RemoveFirst(byProtocol[p], b))
                 /\ Behind(RemoveFirst(byProtocol[p], b), BackUp(b)[r]) = RemoveFirst(unseen[r], b)
<1>0. PICK s : s = byProtocol[p]
  OBVIOUS
<1>1. s \in Seq(Blocks) /\ Distinct(s) /\ IsInjective(s)
  BY <1>0, BackLinkIs, Elements
<1>2. PICK j \in 1 .. Len(s) : s[j] = b /\ BackLink(b) = IF j = 1 THEN ListHead ELSE s[j - 1]
  BY <1>0, BackLinkIs
<1>3. BackUp(b)[r] = IF position[r] = b THEN BackLink(b) ELSE position[r]
  BY DEF BackUp
<1>4. /\ WalksInv /\ InterfaceTypes /\ ProtocolsLinked
  BY DEF LinkedInv, InterfacesInv
<1>5. Len(s) \in Nat /\ \A i \in 1 .. Len(s) : s[i] \in Blocks
  BY <1>1, LenProperties
<1>6. BackLink(b) = ListHead \/ (BackLink(b) \in Blocks /\ BackLink(b) # b /\ BackLink(b) \in Range(s))
  <2>1. CASE j = 1
    BY <1>2, <2>1
  <2>2. CASE j # 1
    <3>1. j - 1 \in 1 .. Len(s) /\ j - 1 # j
      BY <1>5, <2>2
    <3>2. s[j - 1] # b /\ s[j - 1] \in Range(s)
      BY <1>1, <1>2, <3>1, Elements DEF Distinct
    <3> QED
      BY <1>2, <1>5, <2>2, <3>1, <3>2
  <2> QED
    BY <2>1, <2>2
<1>7. /\ position[r] \in Blocks \cup {ListHead}
      /\ position[r] # ListHead => notify[r] \in Protocols /\ position[r] \in Range(byProtocol[notify[r]])
  BY <1>4 DEF WalksInv, PositionsLinked
<1>8. BackUp(b)[r] \in Blocks \cup {ListHead} /\ BackUp(b)[r] # b
  BY <1>3, <1>6, <1>7, Proper
<1>9. ASSUME notify[r] # p, notify[r] # None
      PROVE  BackUp(b)[r] = position[r] /\ RemoveFirst(unseen[r], b) = unseen[r]
  <2>1. notify[r] \in Protocols
    BY <1>4, <1>9 DEF WalksInv
  <2> PICK q : q = notify[r]
    OBVIOUS
  <2> PICK t : t = byProtocol[q]
    OBVIOUS
  <2>2. t \in Seq(Blocks) /\ IsInjective(t) /\ b \notin Range(t)
    BY <1>4, <1>9, <2>1 DEF InterfaceTypes, ProtocolsLinked
  <2>3. position[r] # b
    BY <1>7, <2>2, Proper
  <2>4. unseen[r] = Behind(t, position[r])
    BY <1>4, <1>9 DEF WalksInv, EachInstallOnce, Suffix, Behind
  <2>5. Distinct(t) /\ \A i \in 1 .. Len(t) : t[i] # b
    BY <2>2, Elements
  <2>6. \A i \in 1 .. Len(unseen[r]) : unseen[r][i] # b
    BY <2>2, <2>4, <2>5, BehindElements
  <2> QED
    BY <1>3, <2>3, <2>6 DEF RemoveFirst
<1>10. ASSUME notify[r] = p
       PROVE  /\ BackUp(b)[r] = ListHead \/ BackUp(b)[r] \in Range(RemoveFirst(s, b))
              /\ Behind(RemoveFirst(s, b), BackUp(b)[r]) = RemoveFirst(unseen[r], b)
  <2>1. Range(RemoveFirst(s, b)) = Range(s) \ {b}
    BY <1>1, RemoveElements
  <2>2. BackUp(b)[r] = ListHead \/ BackUp(b)[r] \in Range(s)
    BY <1>0, <1>3, <1>6, <1>7, <1>10
  <2>3. unseen[r] = Behind(s, position[r])
    BY <1>0, <1>4, <1>10, Proper DEF WalksInv, EachInstallOnce, Suffix, Behind
  <2>4. \A i \in 1 .. Len(s) : s[i] # ListHead
    BY <1>5, Proper
  <2>5. BackUp(b)[r] = IF position[r] = b THEN IF j = 1 THEN ListHead ELSE s[j - 1] ELSE position[r]
    BY <1>2, <1>3
  <2>6. Behind(RemoveFirst(s, b), BackUp(b)[r]) = RemoveFirst(Behind(s, position[r]), b)
    <3>1. PICK x, y, head : x = position[r] /\ y = BackUp(b)[r] /\ head = ListHead
      OBVIOUS
    <3>2. Backed(s, b, head, x, y)
      BY <1>2, <2>4, <2>5, <3>1 DEF Backed
    <3>3. Behind(RemoveFirst(s, b), y) = RemoveFirst(Behind(s, x), b)
      BY <1>1, <3>2, BehindRemove
    <3> QED
      BY <3>1, <3>3
  <2> QED
    BY <1>8, <2>1, <2>2, <2>3, <2>6
<1>11. ASSUME notify[r] = None PROVE BackUp(b)[r] = position[r]
  BY <1>3, <1>7, <1>11, Proper
<1> QED
  BY <1>0, <1>8, <1>9, <1>10, <1>11

(* The end of Uninstall, when nobody that waits below has b.               *)
LEMMA UnlinkLinks ==
    ASSUME LinkedInv, NEW b \in Blocks, block[b] # Free, Unlink(b),
           frames' \in Seq(FrameType), FramesFit(frames', block),
           \A i \in 1 .. Len(frames') : frames'[i].stage = "stop" => frames'[i].b # b
    PROVE  LinkedInv'
<1>1. PICK h \in Handles, p \in Protocols : block[b].handle = h /\ block[b].protocol = p
  BY DEF LinkedInv, InterfacesInv, Placed
<1>2. /\ position' = BackUp(b)
      /\ unseen' = [r \in Registrations |-> RemoveFirst(unseen[r], b)]
      /\ byProtocol' = [byProtocol EXCEPT ![p] = RemoveFirst(@, b)]
      /\ handleProtocols' = [handleProtocols EXCEPT ![h] = RemoveFirst(@, b)]
      /\ gHandleList' = IF handleProtocols[h] = <<b>> THEN RemoveFirst(gHandleList, h) ELSE gHandleList
      /\ block' = [block EXCEPT ![b] = Free]
      /\ OpenList' = [OpenList EXCEPT ![b] = <<>>]
      /\ UNCHANGED notify
  BY <1>1 DEF Unlink
<1>3. InterfaceTypes /\ Placed /\ HandlesLinked /\ ProtocolsLinked /\ HandlesListed /\ CarriedOnce
  BY DEF LinkedInv, InterfacesInv
<1>4. \A c \in Blocks : block'[c] = IF c = b THEN Free ELSE block[c]
  BY <1>2, <1>3 DEF InterfaceTypes
<1>5. /\ handleProtocols'[h] = RemoveFirst(handleProtocols[h], b)
      /\ \A k \in Handles : k # h => handleProtocols'[k] = handleProtocols[k]
  BY <1>2, <1>3 DEF InterfaceTypes
<1>6. /\ byProtocol'[p] = RemoveFirst(byProtocol[p], b)
      /\ \A q \in Protocols : q # p => byProtocol'[q] = byProtocol[q]
  BY <1>2, <1>3 DEF InterfaceTypes
<1>7. /\ handleProtocols[h] \in Seq(Blocks) /\ IsInjective(handleProtocols[h])
      /\ byProtocol[p] \in Seq(Blocks) /\ IsInjective(byProtocol[p])
  BY <1>3 DEF InterfaceTypes, HandlesLinked, ProtocolsLinked
<1>8. /\ handleProtocols'[h] \in Seq(Blocks) /\ IsInjective(handleProtocols'[h])
      /\ Range(handleProtocols'[h]) = Range(handleProtocols[h]) \ {b}
  BY <1>5, <1>7, RemoveElements
<1>9. /\ byProtocol'[p] \in Seq(Blocks) /\ IsInjective(byProtocol'[p])
      /\ Range(byProtocol'[p]) = Range(byProtocol[p]) \ {b}
  BY <1>6, <1>7, RemoveElements
<1>10. InterfacesInv'
  <2>1. gHandleList \in Seq(Handles) /\ IsInjective(gHandleList)
    BY <1>3 DEF InterfaceTypes, HandlesListed
  <2>2. /\ RemoveFirst(gHandleList, h) \in Seq(Handles) /\ IsInjective(RemoveFirst(gHandleList, h))
        /\ Range(RemoveFirst(gHandleList, h)) = Range(gHandleList) \ {h}
    BY <2>1, RemoveElements
  <2>3. InterfaceTypes'
    <3>1. handleProtocols' \in [Handles -> Seq(Blocks)]
      <4>1. \A k \in Handles : handleProtocols'[k] \in Seq(Blocks)
        BY <1>3, <1>5, <1>8 DEF InterfaceTypes
      <4> QED
        BY <1>2, <1>3, <4>1 DEF InterfaceTypes
    <3>2. byProtocol' \in [Protocols -> Seq(Blocks)]
      <4>1. \A q \in Protocols : byProtocol'[q] \in Seq(Blocks)
        BY <1>3, <1>6, <1>9 DEF InterfaceTypes
      <4> QED
        BY <1>2, <1>3, <4>1 DEF InterfaceTypes
    <3>3. block' \in [Blocks -> [handle : Handles \cup {None}, protocol : Protocols \cup {None}]]
      BY <1>2, <1>3 DEF InterfaceTypes, Free
    <3>4. gHandleList' \in Seq(Handles)
      BY <1>2, <2>1, <2>2
    <3> QED
      BY <3>1, <3>2, <3>3, <3>4 DEF InterfaceTypes
  <2>4. Placed' /\ CarriedOnce'
    BY <1>3, <1>4 DEF Placed, CarriedOnce
  <2>5. HandlesLinked'
    <3> SUFFICES ASSUME NEW k \in Handles
                 PROVE  /\ IsInjective(handleProtocols'[k])
                        /\ Range(handleProtocols'[k]) = {c \in Blocks : block'[c].handle = k}
      BY DEF HandlesLinked
    <3>1. IsInjective(handleProtocols[k]) /\ Range(handleProtocols[k]) = {c \in Blocks : block[c].handle = k}
      BY <1>3 DEF HandlesLinked
    <3>2. \A c \in Blocks : block'[c].handle = k <=> c # b /\ block[c].handle = k
      BY <1>4, Proper
    <3>3. CASE k = h
      BY <1>8, <3>1, <3>2, <3>3
    <3>4. CASE k # h
      BY <1>1, <1>5, <3>1, <3>2, <3>4
    <3> QED
      BY <3>3, <3>4
  <2>6. ProtocolsLinked'
    <3> SUFFICES ASSUME NEW q \in Protocols
                 PROVE  /\ IsInjective(byProtocol'[q])
                        /\ Range(byProtocol'[q]) = {c \in Blocks : block'[c].protocol = q}
      BY DEF ProtocolsLinked
    <3>1. IsInjective(byProtocol[q]) /\ Range(byProtocol[q]) = {c \in Blocks : block[c].protocol = q}
      BY <1>3 DEF ProtocolsLinked
    <3>2. \A c \in Blocks : block'[c].protocol = q <=> c # b /\ block[c].protocol = q
      BY <1>4, Proper
    <3>3. CASE q = p
      BY <1>9, <3>1, <3>2, <3>3
    <3>4. CASE q # p
      BY <1>1, <1>6, <3>1, <3>2, <3>4
    <3> QED
      BY <3>3, <3>4
  <2>7. HandlesListed'
    <3>1. Range(gHandleList) = {k \in Handles : handleProtocols[k] # <<>>}
      BY <1>3 DEF HandlesListed
    <3>2. b \in Range(handleProtocols[h])
      BY <1>1, <1>3 DEF HandlesLinked
    <3>3. handleProtocols[h] # <<>>
      BY <1>7, <3>2, NoElements
    <3>4. handleProtocols'[h] = <<>> <=> handleProtocols[h] = <<b>>
      <4>1. handleProtocols'[h] = <<>> <=> \A x : x \notin Range(handleProtocols'[h])
        BY <1>8, NoElements
      <4>2. handleProtocols[h] = <<b>> <=> Range(handleProtocols[h]) = {b}
        BY <1>7, Alone
      <4>3. Range(handleProtocols[h]) = {b} <=> \A x : x \notin Range(handleProtocols[h]) \ {b}
        BY <3>2
      <4> QED
        BY <1>8, <4>1, <4>2, <4>3
    <3>5. \A k \in Handles : k \in Range(gHandleList') <=> handleProtocols'[k] # <<>>
      BY <1>2, <1>5, <2>2, <3>1, <3>3, <3>4
    <3>6. IsInjective(gHandleList') /\ Range(gHandleList') \subseteq Handles
      BY <1>2, <2>1, <2>2, <3>1
    <3> QED
      BY <3>5, <3>6 DEF HandlesListed
  <2> QED
    BY <2>3, <2>4, <2>5, <2>6, <2>7 DEF InterfacesInv
<1>11. WalksInv'
  <2>1. WalksInv
    BY DEF LinkedInv
  <2>2. \A r \in Registrations : position'[r] = BackUp(b)[r] /\ unseen'[r] = RemoveFirst(unseen[r], b)
    BY <1>2
  <2>3. notify' = notify
    BY <1>2
  <2>4. position' \in [Registrations -> Blocks \cup {ListHead}]
    <3>1. \A r \in Registrations : BackUp(b)[r] \in Blocks \cup {ListHead}
      BY <1>1, BackedUp
    <3> QED
      BY <1>2, <3>1 DEF BackUp
  <2>5. unseen' \in [Registrations -> Seq(Blocks)]
    <3>1. \A r \in Registrations : RemoveFirst(unseen[r], b) \in Seq(Blocks)
      BY <2>1, RemoveFirstProperties DEF WalksInv
    <3> QED
      BY <1>2, <3>1
  <2>6. PositionsLinked'
    <3> SUFFICES ASSUME NEW r \in Registrations, position'[r] # ListHead
                 PROVE  notify[r] \in Protocols /\ position'[r] \in Range(byProtocol'[notify[r]])
      BY <2>3 DEF PositionsLinked
    <3>1. CASE notify[r] = p
      BY <1>1, <1>6, <2>2, <3>1, BackedUp
    <3>2. CASE notify[r] # p
      <4>1. position'[r] = position[r]
        BY <1>1, <2>2, <3>2, BackedUp
      <4>2. notify[r] \in Protocols /\ position[r] \in Range(byProtocol[notify[r]])
        BY <2>1, <4>1 DEF WalksInv, PositionsLinked
      <4> QED
        BY <1>6, <3>2, <4>1, <4>2
    <3> QED
      BY <3>1, <3>2
  <2>7. EachInstallOnce'
    <3> SUFFICES ASSUME NEW r \in Registrations, notify[r] # None
                 PROVE  Behind(byProtocol'[notify[r]], position'[r]) = unseen'[r]
      BY <2>3 DEF EachInstallOnce, Suffix, Behind
    <3>1. notify[r] \in Protocols
      BY <2>1 DEF WalksInv
    <3>2. CASE notify[r] = p
      BY <1>1, <1>6, <2>2, <3>2, BackedUp
    <3>3. CASE notify[r] # p
      <4>1. position'[r] = position[r] /\ unseen'[r] = unseen[r]
        BY <1>1, <2>2, <3>3, BackedUp
      <4>2. Behind(byProtocol[notify[r]], position[r]) = unseen[r]
        BY <2>1 DEF WalksInv, EachInstallOnce, Suffix, Behind
      <4> QED
        BY <1>6, <3>1, <3>3, <4>1, <4>2
    <3> QED
      BY <3>2, <3>3
  <2> QED
    BY <2>1, <2>3, <2>4, <2>5, <2>6, <2>7 DEF WalksInv
<1>12. OpensInv'
  <2>1. OpensInv
    BY DEF LinkedInv
  <2>2. OpenList' \in [Blocks -> Seq(RecordType)]
    BY <1>2, <2>1 DEF OpensInv
  <2>3. \A c \in Blocks : OpenList'[c] = IF c = b THEN <<>> ELSE OpenList[c]
    BY <1>2, <2>1 DEF OpensInv
  <2>4. DrivenOnce(<<>>)
    BY DEF DrivenOnce
  <2> QED
    BY <1>4, <2>1, <2>2, <2>3, <2>4 DEF OpensInv
<1>13. FramesInv'
  <2>1. FramesFit(frames', block')
    BY <1>4 DEF FramesFit
  <2> QED
    BY <2>1 DEF FramesInv
<1> QED
  BY <1>10, <1>11, <1>12, <1>13 DEF LinkedInv

(* The end of Reinstall: as if b were uninstalled and installed again.     *)
LEMMA ReplaceLinks ==
    ASSUME LinkedInv, NEW b \in Blocks, block[b] # Free, Replace(b),
           frames' \in Seq(FrameType), FramesFit(frames', block)
    PROVE  LinkedInv'
<1>1. PICK p \in Protocols : block[b].protocol = p
  BY DEF LinkedInv, InterfacesInv, Placed
<1>2. /\ position' = BackUp(b)
      /\ unseen' = [r \in Registrations |->
                       IF notify[r] = p THEN Append(RemoveFirst(unseen[r], b), b) ELSE unseen[r]]
      /\ byProtocol' = [byProtocol EXCEPT ![p] = Append(RemoveFirst(@, b), b)]
      /\ OpenList' = [OpenList EXCEPT ![b] = <<>>]
      /\ UNCHANGED <<gHandleList, handleProtocols, block, notify>>
  BY <1>1 DEF Replace
<1>3. InterfaceTypes /\ Placed /\ HandlesLinked /\ ProtocolsLinked /\ HandlesListed /\ CarriedOnce
  BY DEF LinkedInv, InterfacesInv
<1>4. byProtocol[p] \in Seq(Blocks) /\ IsInjective(byProtocol[p]) /\ b \in Range(byProtocol[p])
  BY <1>1, <1>3 DEF InterfaceTypes, ProtocolsLinked
<1>5. PICK s \in Seq(Blocks) : /\ s = RemoveFirst(byProtocol[p], b)
                               /\ IsInjective(s) /\ Range(s) = Range(byProtocol[p]) \ {b}
  BY <1>4, RemoveElements
<1>6. /\ byProtocol'[p] = Append(s, b)
      /\ \A q \in Protocols : q # p => byProtocol'[q] = byProtocol[q]
  BY <1>2, <1>3, <1>5 DEF InterfaceTypes
<1>7. /\ byProtocol'[p] \in Seq(Blocks) /\ IsInjective(byProtocol'[p])
      /\ Range(byProtocol'[p]) = Range(byProtocol[p])
  <2>1. Append(s, b) \in Seq(Blocks) /\ Range(Append(s, b)) = Range(s) \cup {b} /\ IsInjective(Append(s, b))
    <3>1. b \notin Range(s)
      BY <1>5
    <3>2. IsInjective(s)
      BY <1>5
    <3> QED
      BY <3>1, <3>2, AppendElements
  <2>2. Range(s) \cup {b} = Range(byProtocol[p])
    BY <1>4, <1>5
  <2> QED
    BY <1>6, <2>1, <2>2
<1>8. InterfacesInv'
  <2>1. byProtocol' \in [Protocols -> Seq(Blocks)]
    <3>1. \A q \in Protocols : byProtocol'[q] \in Seq(Blocks)
      BY <1>3, <1>6, <1>7 DEF InterfaceTypes
    <3> QED
      BY <1>2, <1>3, <3>1 DEF InterfaceTypes
  <2>2. \A q \in Protocols : IsInjective(byProtocol'[q]) /\ Range(byProtocol'[q]) = {c \in Blocks : block[c].protocol = q}
    BY <1>3, <1>6, <1>7 DEF ProtocolsLinked
  <2> QED
    BY <1>2, <1>3, <2>1, <2>2
       DEF InterfacesInv, InterfaceTypes, Placed, HandlesLinked, ProtocolsLinked, HandlesListed, CarriedOnce
<1>9. WalksInv'
  <2>1. WalksInv
    BY DEF LinkedInv
  <2>2. \A r \in Registrations :
           /\ position'[r] = BackUp(b)[r]
           /\ unseen'[r] = IF notify[r] = p THEN Append(RemoveFirst(unseen[r], b), b) ELSE unseen[r]
    BY <1>2
  <2>3. notify' = notify
    BY <1>2
  <2>4. position' \in [Registrations -> Blocks \cup {ListHead}]
    <3>1. \A r \in Registrations : BackUp(b)[r] \in Blocks \cup {ListHead}
      BY <1>1, BackedUp
    <3> QED
      BY <1>2, <3>1 DEF BackUp
  <2>5. unseen' \in [Registrations -> Seq(Blocks)]
    <3>1. \A r \in Registrations : unseen'[r] \in Seq(Blocks)
      <4> SUFFICES ASSUME NEW r \in Registrations PROVE unseen'[r] \in Seq(Blocks)
        OBVIOUS
      <4>1. unseen[r] \in Seq(Blocks)
        BY <2>1 DEF WalksInv
      <4>2. RemoveFirst(unseen[r], b) \in Seq(Blocks)
        BY <4>1, RemoveFirstProperties
      <4>3. Append(RemoveFirst(unseen[r], b), b) \in Seq(Blocks)
        BY <4>2, AppendProperties
      <4> QED
        BY <2>2, <4>1, <4>3
    <3> QED
      BY <1>2, <3>1
  <2>6. PositionsLinked'
    <3> SUFFICES ASSUME NEW r \in Registrations, position'[r] # ListHead
                 PROVE  notify[r] \in Protocols /\ position'[r] \in Range(byProtocol'[notify[r]])
      BY <2>3 DEF PositionsLinked
    <3>1. CASE notify[r] = p
      BY <1>1, <1>5, <1>7, <2>2, <3>1, BackedUp
    <3>2. CASE notify[r] # p
      <4>1. position'[r] = position[r]
        BY <1>1, <2>2, <3>2, BackedUp
      <4>2. notify[r] \in Protocols /\ position[r] \in Range(byProtocol[notify[r]])
        BY <2>1, <4>1 DEF WalksInv, PositionsLinked
      <4> QED
        BY <1>6, <3>2, <4>1, <4>2
    <3> QED
      BY <3>1, <3>2
  <2>7. EachInstallOnce'
    <3> SUFFICES ASSUME NEW r \in Registrations, notify[r] # None
                 PROVE  Behind(byProtocol'[notify[r]], position'[r]) = unseen'[r]
      BY <2>3 DEF EachInstallOnce, Suffix, Behind
    <3>1. notify[r] \in Protocols
      BY <2>1 DEF WalksInv
    <3>2. CASE notify[r] = p
      <4>1. position'[r] # b /\ Behind(s, position'[r]) = RemoveFirst(unseen[r], b)
        BY <1>1, <1>5, <2>2, <3>2, BackedUp
      <4>2. Distinct(s) /\ \A i \in 1 .. Len(s) : s[i] # b
        BY <1>5, Elements
      <4>3. PICK x : x = position'[r]
        OBVIOUS
      <4>4. Behind(Append(s, b), x) = Append(Behind(s, x), b)
        BY <4>1, <4>2, <4>3, BehindAppend
      <4> QED
        BY <1>6, <2>2, <3>2, <4>1, <4>3, <4>4
    <3>3. CASE notify[r] # p
      <4>1. position'[r] = position[r] /\ unseen'[r] = unseen[r]
        BY <1>1, <2>2, <3>3, BackedUp
      <4>2. Behind(byProtocol[notify[r]], position[r]) = unseen[r]
        BY <2>1 DEF WalksInv, EachInstallOnce, Suffix, Behind
      <4> QED
        BY <1>6, <3>1, <3>3, <4>1, <4>2
    <3> QED
      BY <3>2, <3>3
  <2> QED
    BY <2>1, <2>3, <2>4, <2>5, <2>6, <2>7 DEF WalksInv
<1>10. OpensInv'
  <2>1. OpensInv
    BY DEF LinkedInv
  <2>2. OpenList' \in [Blocks -> Seq(RecordType)]
    BY <1>2, <2>1 DEF OpensInv
  <2>3. \A c \in Blocks : OpenList'[c] = IF c = b THEN <<>> ELSE OpenList[c]
    BY <1>2, <2>1 DEF OpensInv
  <2>4. DrivenOnce(<<>>)
    BY DEF DrivenOnce
  <2> QED
    BY <1>2, <2>1, <2>2, <2>3, <2>4 DEF OpensInv
<1>11. FramesInv'
  BY <1>2 DEF FramesInv
<1> QED
  BY <1>8, <1>9, <1>10, <1>11 DEF LinkedInv

-----------------------------------------------------------------------------
(* Services that leave the lists and the registrations alone.              *)
LEMMA ListsKept ==
    ASSUME InterfacesInv, WalksInv, UNCHANGED <<interfaceVars, notifyVars>>
    PROVE  InterfacesInv' /\ WalksInv'
<1>1. /\ gHandleList' = gHandleList /\ handleProtocols' = handleProtocols
      /\ byProtocol' = byProtocol /\ block' = block
      /\ notify' = notify /\ position' = position /\ unseen' = unseen
  BY DEF interfaceVars, notifyVars
<1>2. InterfacesInv'
  BY <1>1 DEF InterfacesInv, InterfaceTypes, Placed, HandlesLinked, ProtocolsLinked, HandlesListed, CarriedOnce
<1>3. WalksInv'
  BY <1>1 DEF WalksInv, PositionsLinked, EachInstallOnce, Suffix
<1> QED
  BY <1>2, <1>3

(* A service begins to wait. *)
LEMMA PushFits ==
    ASSUME NEW fs \in Seq(FrameType), NEW of, FramesFit(fs, of),
           NEW f \in FrameType, f.stage = "stop" => FrameFits(f, fs, of)
    PROVE  Append(fs, f) \in Seq(FrameType) /\ FramesFit(Append(fs, f), of)
<1>0. PICK gs : gs = Append(fs, f)
  OBVIOUS
<1>1. /\ gs \in Seq(FrameType) /\ Len(gs) = Len(fs) + 1 /\ gs[Len(fs) + 1] = f
      /\ \A i \in 1 .. Len(fs) : gs[i] = fs[i]
  BY <1>0, AppendProperties
<1>2. Len(fs) \in Nat
  BY LenProperties
<1>3. FramesFit(gs, of)
  <2> SUFFICES ASSUME NEW j \in 1 .. Len(gs), gs[j].stage = "stop"
               PROVE  /\ gs[j].b \in Blocks
                      /\ of[gs[j].b] # Free
                      /\ gs[j].service = "open" => gs[j].opener \in Openers
                      /\ gs[j].service # "open" =>
                            \A i \in 1 .. j - 1 : gs[i].stage = "stop" => gs[i].b # gs[j].b
    BY DEF FramesFit
  <2>1. CASE j \in 1 .. Len(fs)
    <3>1. gs[j] = fs[j] /\ \A i \in 1 .. j - 1 : gs[i] = fs[i]
      BY <1>1, <1>2, <2>1
    <3> QED
      BY <2>1, <3>1 DEF FramesFit
  <2>2. CASE j = Len(fs) + 1
    <3>1. gs[j] = f /\ 1 .. j - 1 = 1 .. Len(fs)
      BY <1>1, <1>2, <2>2
    <3>2. FrameFits(f, fs, of)
      BY <3>1
    <3> QED
      BY <1>1, <3>1, <3>2 DEF FrameFits
  <2> QED
    BY <1>1, <1>2, <2>1, <2>2
<1> QED
  BY <1>0, <1>1, <1>3

(* The innermost service goes on. *)
LEMMA PopFits ==
    ASSUME NEW fs \in Seq(FrameType), fs # <<>>, NEW of, FramesFit(fs, of)
    PROVE  /\ Front(fs) \in Seq(FrameType) /\ FramesFit(Front(fs), of)
           /\ Last(fs) \in FrameType
           /\ Last(fs).stage = "stop" => FrameFits(Last(fs), Front(fs), of)
<1>0. PICK gs, f : gs = Front(fs) /\ f = Last(fs)
  OBVIOUS
<1>1. Len(fs) \in Nat /\ Len(fs) > 0
  BY EmptySeq, LenProperties
<1>2. gs \in Seq(FrameType) /\ Len(gs) = Len(fs) - 1 /\ \A i \in 1 .. Len(fs) - 1 : gs[i] = fs[i]
  BY <1>0, <1>1, FrontIs
<1>3. f \in FrameType /\ f = fs[Len(fs)]
  BY <1>0, <1>1 DEF Last
<1>4. FramesFit(gs, of)
  <2> SUFFICES ASSUME NEW j \in 1 .. Len(gs), gs[j].stage = "stop"
               PROVE  /\ gs[j].b \in Blocks
                      /\ of[gs[j].b] # Free
                      /\ gs[j].service = "open" => gs[j].opener \in Openers
                      /\ gs[j].service # "open" =>
                            \A i \in 1 .. j - 1 : gs[i].stage = "stop" => gs[i].b # gs[j].b
    BY DEF FramesFit
  <2>1. j \in 1 .. Len(fs) /\ gs[j] = fs[j] /\ \A i \in 1 .. j - 1 : gs[i] = fs[i]
    BY <1>1, <1>2
  <2> QED
    BY <2>1 DEF FramesFit
<1>5. f.stage = "stop" => FrameFits(f, gs, of)
  <2>1. Len(fs) \in 1 .. Len(fs) /\ 1 .. Len(fs) - 1 = 1 .. Len(gs)
    BY <1>1, <1>2
  <2> QED
    BY <1>2, <1>3, <2>1 DEF FramesFit, FrameFits
<1> QED
  BY <1>0, <1>2, <1>3, <1>4, <1>5

(* The records left by a walk that unlinks are of one driver at most.      *)
LEMMA WithoutDriven ==
    ASSUME NEW S, NEW s \in Seq(S), DrivenOnce(s), NEW es
    PROVE  DrivenOnce(Without(s, es))
<1>1. PICK w : w = Without(s, es)
  OBVIOUS
<1>2. w \in Seq(S) /\ LeavesOut(s, es, w)
  BY <1>1, WithoutProperties
<1>3. ASSUME NEW i \in 1 .. Len(w), NEW j \in 1 .. Len(w), i < j, ByDriver(w[i]), ByDriver(w[j])
      PROVE  FALSE
  <2>1. PICK c \in 1 .. Len(s), d \in 1 .. Len(s) : c < d /\ w[i] = s[c] /\ w[j] = s[d]
    BY <1>2, <1>3 DEF LeavesOut
  <2>2. c = d
    BY <1>3, <2>1 DEF DrivenOnce
  <2> QED
    BY <2>1, <2>2
<1>4. Len(w) \in Nat
  BY <1>2, LenProperties
<1>5. DrivenOnce(w)
  <2> SUFFICES ASSUME NEW i \in 1 .. Len(w), NEW j \in 1 .. Len(w), ByDriver(w[i]), ByDriver(w[j]), i # j
               PROVE  FALSE
    BY DEF DrivenOnce
  <2>1. i < j \/ j < i
    BY <1>4
  <2> QED
    BY <1>3, <2>1
<1> QED
  BY <1>1, <1>5

(* A record joins those of an interface that no driver has, or is not of a *)
(* driver.                                                                 *)
LEMMA AppendDriven ==
    ASSUME NEW S, NEW s \in Seq(S), DrivenOnce(s), NEW record \in S,
           ByDriver(record) => \A i \in 1 .. Len(s) : ~ByDriver(s[i])
    PROVE  DrivenOnce(Append(s, record))
<1>1. PICK w : w = Append(s, record)
  OBVIOUS
<1>2. /\ w \in Seq(S) /\ Len(w) = Len(s) + 1 /\ w[Len(s) + 1] = record
      /\ \A i \in 1 .. Len(s) : w[i] = s[i]
  BY <1>1, AppendProperties
<1>3. \A i \in 1 .. Len(w) : i \in 1 .. Len(s) \/ i = Len(s) + 1
  BY <1>2, LenProperties
<1>4. DrivenOnce(w)
  BY <1>2, <1>3 DEF DrivenOnce
<1> QED
  BY <1>1, <1>4

LEMMA FirstDriverIs ==
    ASSUME OpensInv, NEW b \in Blocks, HasDriver(b)
    PROVE  FirstDriver(b) \in Agents
<1> DEFINE D == {i \in 1 .. Len(OpenList[b]) : ByDriver(OpenList[b][i])}
<1>1. OpenList[b] \in Seq(RecordType)
  BY DEF OpensInv
<1>2. D # {} /\ D \subseteq Nat
  BY <1>1, LenProperties DEF HasDriver
<1>3. Min(D) \in D
  BY <1>2, Minimum
<1>4. FirstDriver(b) = OpenList[b][Min(D)].agent
  BY DEF FirstDriver, Min
<1>5. OpenList[b][Min(D)] \in RecordType
  BY <1>1, <1>3, LenProperties
<1> QED
  BY <1>4, <1>5 DEF RecordType

-----------------------------------------------------------------------------
LEMMA ConnectingIs == Connecting \in FrameType /\ Connecting.stage # "stop"
BY DEF Connecting, FrameType

LEMMA RecordIs ==
    ASSUME NEW o \in Openers
    PROVE  Record(o) \in RecordType
BY DEF Record, RecordType, Agents

(* The records of an interface that somebody opens or closes.              *)
LEMMA OpensMove ==
    ASSUME OpensInv, NEW b \in Blocks, block[b] # Free, block' = block,
           NEW s \in Seq(RecordType), DrivenOnce(s), OpenList' = [OpenList EXCEPT ![b] = s]
    PROVE  OpensInv'
<1>1. OpenList' \in [Blocks -> Seq(RecordType)]
  BY DEF OpensInv
<1>2. \A c \in Blocks : OpenList'[c] = IF c = b THEN s ELSE OpenList[c]
  BY DEF OpensInv
<1> QED
  BY <1>1, <1>2 DEF OpensInv

LEMMA LoopLinks ==
    ASSUME LinkedInv, NEW below \in Seq(FrameType), FramesFit(below, block),
           NEW f \in FrameType, FrameFits(f, below, block), Loop(f, below)
    PROVE  LinkedInv'
<1>1. InterfacesInv /\ WalksInv /\ OpensInv
  BY DEF LinkedInv
<1>2. f.b \in Blocks /\ block[f.b] # Free
  BY DEF FrameFits
<1>3. OpenList[f.b] \in Seq(RecordType) /\ DrivenOnce(OpenList[f.b])
  BY <1>1, <1>2 DEF OpensInv
<1>4. /\ Append(below, Connecting) \in Seq(FrameType)
      /\ FramesFit(Append(below, Connecting), block)
  BY ConnectingIs, PushFits
<1>5. CASE /\ HasDriver(f.b)
           /\ frames' = Append(below, [f EXCEPT !.stage = "stop", !.agent = FirstDriver(f.b)])
           /\ UNCHANGED <<interfaceVars, OpenList, notifyVars>>
  <2>1. FirstDriver(f.b) \in Agents
    BY <1>1, <1>2, <1>5, FirstDriverIs
  <2>2. PICK g : g = [f EXCEPT !.stage = "stop", !.agent = FirstDriver(f.b)]
    OBVIOUS
  <2>3. g \in FrameType /\ g.b = f.b /\ g.service = f.service /\ g.opener = f.opener
    BY <2>1, <2>2 DEF FrameType
  <2>4. FrameFits(g, below, block)
    BY <2>3 DEF FrameFits
  <2>5. frames' \in Seq(FrameType) /\ FramesFit(frames', block)
    BY <1>5, <2>2, <2>3, <2>4, PushFits
  <2>6. InterfacesInv' /\ WalksInv'
    BY <1>1, <1>5, ListsKept
  <2>7. block' = block /\ OpenList' = OpenList
    BY <1>5 DEF interfaceVars
  <2>8. OpensInv'
    BY <1>1, <2>7 DEF OpensInv
  <2>9. FramesInv'
    BY <2>5, <2>7 DEF FramesInv
  <2> QED
    BY <2>6, <2>8, <2>9 DEF LinkedInv
<1>6. CASE GiveUp(f, below)
  <2>1. PICK es : OpenList' = [OpenList EXCEPT ![f.b] = Without(@, es)]
    BY <1>6 DEF GiveUp
  <2>2. /\ frames' = Append(below, Connecting)
        /\ UNCHANGED <<interfaceVars, notifyVars>>
    BY <1>6 DEF GiveUp
  <2>3. InterfacesInv' /\ WalksInv'
    BY <1>1, <2>2, ListsKept
  <2>4. block' = block
    BY <2>2 DEF interfaceVars
  <2>5. PICK s : s = Without(OpenList[f.b], es)
    OBVIOUS
  <2>6. s \in Seq(RecordType) /\ DrivenOnce(s)
    BY <1>3, <2>5, WithoutDriven, WithoutProperties
  <2>7. OpenList' = [OpenList EXCEPT ![f.b] = s]
    BY <2>1, <2>5
  <2>8. OpensInv'
    BY <1>1, <1>2, <2>4, <2>6, <2>7, OpensMove
  <2>9. FramesInv'
    BY <1>4, <2>2, <2>4 DEF FramesInv
  <2> QED
    BY <2>3, <2>8, <2>9 DEF LinkedInv
<1>7. CASE f.service = "uninstall" /\ Unlink(f.b) /\ frames' = below
  <2>1. \A i \in 1 .. Len(frames') : frames'[i].stage = "stop" => frames'[i].b # f.b
    BY <1>7 DEF FrameFits
  <2>2. frames' \in Seq(FrameType) /\ FramesFit(frames', block)
    BY <1>7
  <2> QED
    BY <1>2, <1>7, <2>1, <2>2, UnlinkLinks
<1>8. CASE Replace(f.b) /\ frames' = Append(below, Connecting)
  <2>1. frames' \in Seq(FrameType) /\ FramesFit(frames', block)
    BY <1>4, <1>8
  <2> QED
    BY <1>2, <1>8, <2>1, ReplaceLinks
<1>9. CASE /\ ~HasDriver(f.b) /\ f.service = "open"
           /\ OpenList' = [OpenList EXCEPT ![f.b] = Append(@, Record(f.opener))]
           /\ frames' = below
           /\ UNCHANGED <<interfaceVars, notifyVars>>
  <2>1. Record(f.opener) \in RecordType
    BY <1>9, RecordIs DEF FrameFits
  <2>2. PICK s : s = Append(OpenList[f.b], Record(f.opener))
    OBVIOUS
  <2>3. s \in Seq(RecordType) /\ DrivenOnce(s)
    <3>1. \A i \in 1 .. Len(OpenList[f.b]) : ~ByDriver(OpenList[f.b][i])
      BY <1>9 DEF HasDriver
    <3>2. DrivenOnce(s)
      BY <1>3, <2>1, <2>2, <3>1, AppendDriven
    <3> QED
      BY <1>3, <2>1, <2>2, <3>2, AppendProperties
  <2>4. OpenList' = [OpenList EXCEPT ![f.b] = s]
    BY <1>9, <2>2
  <2>5. InterfacesInv' /\ WalksInv'
    BY <1>1, <1>9, ListsKept
  <2>6. block' = block
    BY <1>9 DEF interfaceVars
  <2>7. OpensInv'
    BY <1>1, <1>2, <2>3, <2>4, <2>6, OpensMove
  <2>8. FramesInv'
    BY <1>9, <2>6 DEF FramesInv
  <2> QED
    BY <2>5, <2>7, <2>8 DEF LinkedInv
<1> QED
  BY <1>5, <1>6, <1>7, <1>8, <1>9 DEF Loop

(* Uninstall and Reinstall of an interface that nobody waits for, or an    *)
(* exclusive Open, begin.                                                  *)
LEMMA BeginLinks ==
    ASSUME LinkedInv, NEW service \in {"uninstall", "reinstall", "open"}, NEW b \in Live, NEW o,
           o \in Openers \/ (o = NoOpener /\ service # "open"),
           service # "open" => b \notin Pinned,
           Loop(Stopping(service, b, o), frames)
    PROVE  LinkedInv'
<1>1. PICK f : f = Stopping(service, b, o)
  OBVIOUS
<1>2. b \in Blocks /\ block[b] # Free
  BY DEF Live
<1>3. f \in FrameType /\ f.b = b /\ f.service = service /\ f.opener = o
  <2>1. o[1] \in Agents \cup {None}
    BY DEF Agents, NoOpener
  <2>2. o \in Openers \cup {NoOpener}
    OBVIOUS
  <2> QED
    BY <1>1, <1>2, <2>1, <2>2 DEF Stopping, FrameType
<1>4. frames \in Seq(FrameType) /\ FramesFit(frames, block)
  BY DEF LinkedInv, FramesInv
<1>5. \A i \in 1 .. Len(frames) : frames[i].stage = "stop" => frames[i].b \in Pinned
  BY DEF Pinned
<1>6. FrameFits(f, frames, block)
  BY <1>2, <1>3, <1>5 DEF FrameFits
<1>7. Loop(f, frames)
  BY <1>1
<1> QED
  BY <1>3, <1>4, <1>6, <1>7, LoopLinks

(* Another opens b, or one that has it opens it again, or closes it.       *)
LEMMA OpenLinks ==
    ASSUME LinkedInv, NEW b \in Blocks, NEW o \in Openers, CoreOpenProtocol(b, o)
    PROVE  LinkedInv'
<1>1. InterfacesInv /\ WalksInv /\ OpensInv /\ FramesInv
  BY DEF LinkedInv
<1>2. b \in Live /\ block[b] # Free
  BY DEF CoreOpenProtocol, Live
<1>3. OpenList[b] \in Seq(RecordType) /\ DrivenOnce(OpenList[b])
  BY <1>1 DEF OpensInv
<1>4. ASSUME UNCHANGED <<interfaceVars, notifyVars, frames>>, OpensInv'
      PROVE  LinkedInv'
  <2>1. InterfacesInv' /\ WalksInv'
    BY <1>1, <1>4, ListsKept
  <2>2. FramesInv'
    BY <1>1, <1>4 DEF FramesInv, interfaceVars
  <2> QED
    BY <1>4, <2>1, <2>2 DEF LinkedInv
<1>5. ASSUME NEW i \in Matches(b, o),
             OpenList' = [OpenList EXCEPT ![b][i].count = @ + 1],
             UNCHANGED <<interfaceVars, notifyVars, frames>>
      PROVE  LinkedInv'
  <2>1. i \in 1 .. Len(OpenList[b])
    BY DEF Matches
  <2>2. PICK s : s = [OpenList[b] EXCEPT ![i].count = @ + 1]
    OBVIOUS
  <2>3. OpenList[b][i] \in RecordType
    BY <1>3, <2>1, LenProperties
  <2>4. /\ [OpenList[b][i] EXCEPT !.count = @ + 1] \in RecordType
        /\ [OpenList[b][i] EXCEPT !.count = @ + 1].attributes = OpenList[b][i].attributes
    BY <2>3 DEF RecordType
  <2>5. /\ s \in Seq(RecordType) /\ Len(s) = Len(OpenList[b])
        /\ \A j \in 1 .. Len(OpenList[b]) :
              s[j] = IF j = i THEN [OpenList[b][i] EXCEPT !.count = @ + 1] ELSE OpenList[b][j]
    BY <1>3, <2>1, <2>2, <2>4, ExceptSeq
  <2>6. DrivenOnce(s)
    BY <1>3, <2>4, <2>5 DEF DrivenOnce, ByDriver
  <2>7. OpenList' = [OpenList EXCEPT ![b] = s]
    BY <1>5, <2>2
  <2>8. block' = block
    BY <1>5 DEF interfaceVars
  <2>9. OpensInv'
    BY <1>1, <1>2, <2>5, <2>6, <2>7, <2>8, OpensMove
  <2> QED
    BY <1>4, <1>5, <2>9
<1>6. CASE /\ ~Denied(b, o) /\ ~Exclusive(Record(o))
           /\ OpenList' = [OpenList EXCEPT ![b] = Append(@, Record(o))]
           /\ UNCHANGED <<interfaceVars, notifyVars, frames>>
  <2>1. Record(o) \in RecordType
    BY RecordIs
  <2>2. PICK s : s = Append(OpenList[b], Record(o))
    OBVIOUS
  <2>3. ByDriver(Record(o)) => \A i \in 1 .. Len(OpenList[b]) : ~ByDriver(OpenList[b][i])
    BY <1>6 DEF Denied, HasDriver, ByDriver, Exclusive, Record
  <2>4. s \in Seq(RecordType) /\ DrivenOnce(s)
    <3>1. DrivenOnce(s)
      BY <1>3, <2>1, <2>2, <2>3, AppendDriven
    <3> QED
      BY <1>3, <2>1, <2>2, <3>1, AppendProperties
  <2>5. OpenList' = [OpenList EXCEPT ![b] = s]
    BY <1>6, <2>2
  <2>6. block' = block
    BY <1>6 DEF interfaceVars
  <2>7. OpensInv'
    BY <1>1, <1>2, <2>4, <2>5, <2>6, OpensMove
  <2> QED
    BY <1>4, <1>6, <2>7
<1>7. CASE Loop(Stopping("open", b, o), frames)
  BY <1>2, <1>7, BeginLinks
<1> QED
  BY <1>5, <1>6, <1>7 DEF CoreOpenProtocol

LEMMA CloseLinks ==
    ASSUME LinkedInv, NEW b \in Blocks, NEW agent, NEW driver, CoreCloseProtocol(b, agent, driver)
    PROVE  LinkedInv'
<1>1. InterfacesInv /\ WalksInv /\ OpensInv /\ FramesInv
  BY DEF LinkedInv
<1>2. block[b] # Free /\ UNCHANGED <<interfaceVars, notifyVars, frames>>
  BY DEF CoreCloseProtocol, Live
<1>3. OpenList[b] \in Seq(RecordType) /\ DrivenOnce(OpenList[b])
  BY <1>1 DEF OpensInv
<1>4. PICK es : OpenList' = [OpenList EXCEPT ![b] = Without(@, es)]
  BY DEF CoreCloseProtocol
<1>5. PICK s : s = Without(OpenList[b], es)
  OBVIOUS
<1>6. s \in Seq(RecordType) /\ DrivenOnce(s)
  BY <1>3, <1>5, WithoutDriven, WithoutProperties
<1>7. OpenList' = [OpenList EXCEPT ![b] = s]
  BY <1>4, <1>5
<1>8. block' = block
  BY <1>2 DEF interfaceVars
<1>9. OpensInv'
  BY <1>1, <1>2, <1>6, <1>7, <1>8, OpensMove
<1>10. InterfacesInv' /\ WalksInv' /\ FramesInv'
  BY <1>1, <1>2, ListsKept DEF FramesInv, interfaceVars
<1> QED
  BY <1>9, <1>10 DEF LinkedInv

(* A registration comes, goes, or takes its next installation.             *)
LEMMA NotifyLinks ==
    ASSUME LinkedInv, NEW r \in Registrations,
           \/ \E p \in Protocols : CoreRegisterProtocolNotify(r, p)
           \/ CoreUnregisterProtocolNotify(r)
           \/ CoreLocateProtocol(r)
    PROVE  LinkedInv'
<1>1. InterfacesInv /\ WalksInv /\ OpensInv /\ FramesInv
  BY DEF LinkedInv
<1>2. UNCHANGED <<interfaceVars, OpenList, frames>>
  BY DEF CoreRegisterProtocolNotify, CoreUnregisterProtocolNotify, CoreLocateProtocol
<1>3. /\ gHandleList' = gHandleList /\ handleProtocols' = handleProtocols
      /\ byProtocol' = byProtocol /\ block' = block
      /\ OpenList' = OpenList /\ frames' = frames
  BY <1>2 DEF interfaceVars
<1>4. InterfacesInv' /\ OpensInv' /\ FramesInv'
  BY <1>1, <1>3
     DEF InterfacesInv, InterfaceTypes, Placed, HandlesLinked, ProtocolsLinked, HandlesListed, CarriedOnce,
         OpensInv, FramesInv
<1>5. /\ notify \in [Registrations -> Protocols \cup {None}]
      /\ position \in [Registrations -> Blocks \cup {ListHead}]
      /\ unseen \in [Registrations -> Seq(Blocks)]
      /\ PositionsLinked /\ EachInstallOnce
  BY <1>1 DEF WalksInv
<1>6. \A q \in Protocols : /\ byProtocol[q] \in Seq(Blocks) /\ Distinct(byProtocol[q])
                           /\ \A i \in 1 .. Len(byProtocol[q]) : byProtocol[q][i] # ListHead
  <2> TAKE q \in Protocols
  <2>1. byProtocol[q] \in Seq(Blocks) /\ IsInjective(byProtocol[q])
    BY <1>1 DEF InterfacesInv, InterfaceTypes, ProtocolsLinked
  <2> QED
    BY <2>1, Proper, LenProperties, Elements
<1>7. ASSUME NEW q \in Protocols \cup {None}, NEW x \in Blocks \cup {ListHead}, NEW t \in Seq(Blocks),
             notify' = [notify EXCEPT ![r] = q],
             position' = [position EXCEPT ![r] = x],
             unseen' = [unseen EXCEPT ![r] = t],
             x = ListHead \/ (q \in Protocols /\ x \in Range(byProtocol[q])),
             q # None => Behind(byProtocol[q], x) = t
      PROVE  LinkedInv'
  <2>1. \A k \in Registrations :
           /\ notify'[k] = IF k = r THEN q ELSE notify[k]
           /\ position'[k] = IF k = r THEN x ELSE position[k]
           /\ unseen'[k] = IF k = r THEN t ELSE unseen[k]
    BY <1>5, <1>7
  <2>2. /\ notify' \in [Registrations -> Protocols \cup {None}]
        /\ position' \in [Registrations -> Blocks \cup {ListHead}]
        /\ unseen' \in [Registrations -> Seq(Blocks)]
    BY <1>5, <1>7
  <2>3. PositionsLinked'
    BY <1>3, <1>5, <1>7, <2>1 DEF PositionsLinked
  <2>4. EachInstallOnce'
    <3> SUFFICES ASSUME NEW k \in Registrations, notify'[k] # None
                 PROVE  Behind(byProtocol[notify'[k]], position'[k]) = unseen'[k]
      BY <1>3 DEF EachInstallOnce, Suffix, Behind
    <3>1. CASE k = r
      BY <1>7, <2>1, <3>1
    <3>2. CASE k # r
      <4>1. notify'[k] = notify[k] /\ position'[k] = position[k] /\ unseen'[k] = unseen[k]
        BY <2>1, <3>2
      <4>2. notify[k] # None => Behind(byProtocol[notify[k]], position[k]) = unseen[k]
        BY <1>5 DEF EachInstallOnce, Suffix, Behind
      <4> QED
        BY <4>1, <4>2
    <3> QED
      BY <3>1, <3>2
  <2>5. WalksInv'
    BY <2>2, <2>3, <2>4 DEF WalksInv
  <2> QED
    BY <1>4, <2>5 DEF LinkedInv
<1>8. ASSUME NEW p \in Protocols, CoreRegisterProtocolNotify(r, p)
      PROVE  LinkedInv'
  <2>1. /\ notify' = [notify EXCEPT ![r] = p]
        /\ position' = [position EXCEPT ![r] = ListHead]
        /\ unseen' = [unseen EXCEPT ![r] = byProtocol[p]]
    BY <1>8 DEF CoreRegisterProtocolNotify
  <2>2. Behind(byProtocol[p], ListHead) = byProtocol[p]
    BY <1>6, BehindElements
  <2> QED
    BY <1>6, <1>7, <2>1, <2>2
<1>9. CASE CoreUnregisterProtocolNotify(r)
  <2>1. /\ notify' = [notify EXCEPT ![r] = None]
        /\ position' = [position EXCEPT ![r] = ListHead]
        /\ unseen' = [unseen EXCEPT ![r] = <<>>]
    BY <1>9 DEF CoreUnregisterProtocolNotify
  <2>2. <<>> \in Seq(Blocks)
    OBVIOUS
  <2> QED
    BY <1>7, <2>1, <2>2
<1>10. CASE CoreLocateProtocol(r)
  <2>1. PICK s, x, w : s = byProtocol[notify[r]] /\ x = position[r] /\ w = Behind(s, x)
    OBVIOUS
  <2>2. w = Suffix(r)
    BY <2>1 DEF Suffix, Behind
  <2>3. /\ notify[r] # None /\ w # <<>>
        /\ position' = [position EXCEPT ![r] = w[1]]
        /\ unseen' = [unseen EXCEPT ![r] = RemoveFirst(@, w[1])]
        /\ notify' = notify
    BY <1>10, <2>2 DEF CoreLocateProtocol
  <2>4. notify[r] \in Protocols /\ s \in Seq(Blocks) /\ Distinct(s)
    BY <1>5, <1>6, <2>1, <2>3
  <2>5. unseen[r] = w
    BY <1>5, <2>2, <2>3 DEF EachInstallOnce
  <2>6. /\ w[1] \in Blocks /\ (\E i \in 1 .. Len(s) : s[i] = w[1])
        /\ Behind(s, w[1]) = RemoveFirst(w, w[1])
    BY <2>1, <2>3, <2>4, BehindNext
  <2>7. w[1] \in Range(s)
    BY <2>4, <2>6, Elements
  <2>8. RemoveFirst(w, w[1]) \in Seq(Blocks)
    BY <1>5, <2>5, RemoveFirstProperties
  <2>9. notify' = [notify EXCEPT ![r] = notify[r]]
    BY <1>5, <2>3
  <2>10. unseen' = [unseen EXCEPT ![r] = RemoveFirst(w, w[1])]
    BY <2>3, <2>5
  <2> QED
    BY <1>7, <2>1, <2>3, <2>4, <2>6, <2>7, <2>8, <2>9, <2>10
<1> QED
  BY <1>8, <1>9, <1>10

(* A driver has been stopped, could not be stopped, or the drivers have    *)
(* been started.                                                           *)
LEMMA ReturnLinks ==
    ASSUME LinkedInv, StopReturns \/ StopFails \/ ConnectReturns
    PROVE  LinkedInv'
<1>1. InterfacesInv /\ WalksInv /\ OpensInv /\ FramesInv
  BY DEF LinkedInv
<1>2. frames # <<>> /\ frames \in Seq(FrameType) /\ FramesFit(frames, block)
  BY <1>1 DEF FramesInv, StopReturns, StopFails, ConnectReturns
<1>3. PICK below, f : below = Front(frames) /\ f = Top
  OBVIOUS
<1>4. /\ below \in Seq(FrameType) /\ FramesFit(below, block) /\ f \in FrameType
      /\ f.stage = "stop" => FrameFits(f, below, block)
  BY <1>2, <1>3, PopFits DEF Top
<1>5. CASE StopReturns
  <2>1. Loop(f, below) /\ f.stage = "stop"
    BY <1>3, <1>5 DEF StopReturns
  <2> QED
    BY <1>4, <2>1, LoopLinks
<1>6. CASE StopFails \/ ConnectReturns
  <2>1. /\ frames' = below \/ frames' = Append(below, Connecting)
        /\ UNCHANGED <<interfaceVars, OpenList, notifyVars>>
    BY <1>3, <1>6 DEF StopFails, ConnectReturns
  <2>2. frames' \in Seq(FrameType) /\ FramesFit(frames', block)
    BY <1>4, <2>1, ConnectingIs, PushFits
  <2>3. block' = block /\ OpenList' = OpenList
    BY <2>1 DEF interfaceVars
  <2>4. InterfacesInv' /\ WalksInv'
    BY <1>1, <2>1, ListsKept
  <2> QED
    BY <1>1, <2>2, <2>3, <2>4 DEF LinkedInv, OpensInv, FramesInv
<1> QED
  BY <1>5, <1>6

LEMMA LinkedNext ==
    ASSUME LinkedInv, [Next]_vars
    PROVE  LinkedInv'
<1>1. ASSUME NEW h \in Handles, NEW p \in Protocols, CoreInstallProtocolInterface(h, p)
      PROVE  LinkedInv'
  BY <1>1, InstallLinks
<1>2. ASSUME NEW b \in Blocks, CoreUninstallProtocolInterface(b) \/ CoreReinstallProtocolInterface(b)
      PROVE  LinkedInv'
  <2>1. CASE CoreUninstallProtocolInterface(b)
    <3>1. b \in Live /\ b \notin Pinned /\ Loop(Stopping("uninstall", b, NoOpener), frames)
      BY <2>1 DEF CoreUninstallProtocolInterface
    <3> QED
      BY <3>1, BeginLinks
  <2>2. CASE CoreReinstallProtocolInterface(b)
    <3>1. b \in Live /\ b \notin Pinned /\ Loop(Stopping("reinstall", b, NoOpener), frames)
      BY <2>2 DEF CoreReinstallProtocolInterface
    <3> QED
      BY <3>1, BeginLinks
  <2> QED
    BY <1>2, <2>1, <2>2
<1>3. ASSUME NEW b \in Blocks, NEW o \in Openers, CoreOpenProtocol(b, o)
      PROVE  LinkedInv'
  BY <1>3, OpenLinks
<1>4. ASSUME NEW b \in Blocks, NEW agent \in Agents, NEW driver \in BOOLEAN, CoreCloseProtocol(b, agent, driver)
      PROVE  LinkedInv'
  BY <1>4, CloseLinks
<1>5. ASSUME NEW r \in Registrations,
             \/ \E p \in Protocols : CoreRegisterProtocolNotify(r, p)
             \/ CoreUnregisterProtocolNotify(r)
             \/ CoreLocateProtocol(r)
      PROVE  LinkedInv'
  BY <1>5, NotifyLinks
<1>6. CASE StopReturns \/ StopFails \/ ConnectReturns
  BY <1>6, ReturnLinks
<1>7. CASE UNCHANGED vars
  <2>1. UNCHANGED <<interfaceVars, notifyVars>> /\ OpenList' = OpenList /\ frames' = frames /\ block' = block
    BY <1>7 DEF vars, interfaceVars
  <2>2. InterfacesInv' /\ WalksInv'
    BY <2>1, ListsKept DEF LinkedInv
  <2> QED
    BY <2>1, <2>2 DEF LinkedInv, OpensInv, FramesInv
<1> QED
  BY <1>1, <1>2, <1>3, <1>4, <1>5, <1>6, <1>7 DEF Next, Service

(* The four parts hold of every state (Handle.c, Notify.c, Locate.c).      *)
THEOREM LinkedInvariance == Spec => []LinkedInv
<1>1. Init => LinkedInv
  BY LinkedInit
<1>2. LinkedInv /\ [Next]_vars => LinkedInv'
  BY LinkedNext
<1> QED
  BY <1>1, <1>2, PTL DEF Spec

-----------------------------------------------------------------------------
LEMMA AtMostOne ==
    ASSUME NEW S, \A x, y \in S : x = y
    PROVE  Cardinality(S) <= 1
<1>1. CASE S = {}
  BY <1>1, FS_EmptySet
<1>2. CASE S # {}
  <2>1. PICK x : x \in S
    BY <1>2
  <2>2. S = {x}
    BY <2>1
  <2>3. Cardinality({x}) = 1
    BY FS_Singleton
  <2> QED
    BY <2>2, <2>3
<1> QED
  BY <1>1, <1>2

(* The lists of handles, interfaces and protocols agree after every        *)
(* service, also while services wait for the drivers that they stop        *)
(* (Handle.c, Notify.c).                                                   *)
THEOREM LinkedHolds == Spec => []DatabaseLinked
<1>1. LinkedInv => DatabaseLinked
  <2> SUFFICES ASSUME LinkedInv PROVE DatabaseLinked
    OBVIOUS
  <2>1. InterfaceTypes /\ Placed /\ HandlesLinked /\ ProtocolsLinked /\ HandlesListed /\ CarriedOnce
    BY DEF LinkedInv, InterfacesInv
  <2>2. \A b \in Blocks : /\ block[b].handle \in Handles => block[b] # Free
                          /\ block[b].protocol \in Protocols => block[b] # Free
    BY Proper
  <2>3. ASSUME NEW h \in Handles
        PROVE  /\ IsInjective(handleProtocols[h])
               /\ Range(handleProtocols[h]) = {b \in Live : block[b].handle = h}
               /\ \A p \in Protocols : Cardinality(Interfaces(h, p)) <= 1
    <3>1. IsInjective(handleProtocols[h]) /\ Range(handleProtocols[h]) = {b \in Blocks : block[b].handle = h}
      BY <2>1 DEF HandlesLinked
    <3>2. ASSUME NEW p \in Protocols
          PROVE  Cardinality(Interfaces(h, p)) <= 1
      <4>1. \A b \in Interfaces(h, p) :
               b \in Blocks /\ block[b].handle = h /\ block[b].protocol = p
        BY <3>1 DEF Interfaces
      <4>2. \A b \in Interfaces(h, p) : block[b] = [handle |-> h, protocol |-> p]
        BY <2>1, <4>1 DEF InterfaceTypes
      <4>3. \A b, c \in Interfaces(h, p) : b = c
        BY <2>1, <2>2, <4>1, <4>2 DEF CarriedOnce
      <4> QED
        BY <4>3, AtMostOne
    <3> QED
      BY <2>2, <3>1, <3>2 DEF Live
  <2>4. ASSUME NEW p \in Protocols
        PROVE  /\ IsInjective(byProtocol[p])
               /\ Range(byProtocol[p]) = {b \in Live : block[b].protocol = p}
    BY <2>1, <2>2 DEF ProtocolsLinked, Live
  <2>5. \A b \in Blocks \ Live : OpenList[b] = <<>>
    BY DEF LinkedInv, OpensInv, Live
  <2>6. Pinned \subseteq Live
    BY DEF LinkedInv, FramesInv, FramesFit, Pinned, Live
  <2> QED
    BY <2>1, <2>3, <2>4, <2>5, <2>6 DEF DatabaseLinked, HandlesListed
<1> QED
  BY <1>1, LinkedInvariance, PTL

(* A registration returns every installation once and in order, although   *)
(* the interface at which it stands may be uninstalled or moved            *)
(* (CoreGetNextLocateByRegisterNotify, CoreNotifyProtocolEntry).           *)
THEOREM InstallsHold == Spec => []EachInstallOnce
<1>1. LinkedInv => EachInstallOnce
  BY DEF LinkedInv, WalksInv
<1> QED
  BY <1>1, LinkedInvariance, PTL

-----------------------------------------------------------------------------
(* Who had b before and did not ask to lose it has it still.               *)
RecordsKept(b) ==
    \A record \in Range(OpenList[b]) :
        \/ record.attributes = "get"
        \/ \E later \in Range(OpenList'[b]) :
              later.agent = record.agent /\ later.attributes = record.attributes

LEMMA LoopKeeps ==
    ASSUME LinkedInv, NEW f, f.b \in Blocks, NEW below, Loop(f, below), NEW c \in Blocks
    PROVE  RecordsKept(c)
<1>1. OpenList \in [Blocks -> Seq(RecordType)]
  BY DEF LinkedInv, OpensInv
<1>2. OpenList[f.b] \in Seq(RecordType)
  BY <1>1
<1>3. ASSUME OpenList'[c] = OpenList[c] PROVE RecordsKept(c)
  BY <1>3 DEF RecordsKept
<1>4. CASE OpenList' = OpenList
  BY <1>3, <1>4
<1>5. CASE GiveUp(f, below)
  <2>1. OpenList' = [OpenList EXCEPT ![f.b] = Without(@, {record \in Range(@) : record.attributes = "get"})]
    BY <1>5 DEF GiveUp
  <2>2. CASE c # f.b
    BY <1>1, <1>3, <2>1, <2>2
  <2>3. CASE c = f.b
    <3>1. PICK es : es = {record \in Range(OpenList[c]) : record.attributes = "get"}
      OBVIOUS
    <3>2. OpenList'[c] = Without(OpenList[c], es)
      BY <1>1, <2>1, <2>3, <3>1
    <3>3. Range(OpenList'[c]) = Range(OpenList[c]) \ es
      BY <1>2, <2>3, <3>2, WithoutElements
    <3> QED
      BY <3>1, <3>3 DEF RecordsKept
  <2> QED
    BY <2>2, <2>3
<1>6. CASE ~Held(f.b) /\ OpenList' = [OpenList EXCEPT ![f.b] = <<>>]
  <2>1. CASE c # f.b
    BY <1>1, <1>3, <1>6, <2>1
  <2>2. CASE c = f.b
    BY <1>2, <1>6, <2>2, Elements DEF RecordsKept, Held
  <2> QED
    BY <2>1, <2>2
<1>7. CASE OpenList' = [OpenList EXCEPT ![f.b] = Append(@, Record(f.opener))]
  <2>1. CASE c # f.b
    BY <1>1, <1>3, <1>7, <2>1
  <2>2. CASE c = f.b
    <3>1. PICK s, record : s = OpenList[c] /\ record = Record(f.opener)
      OBVIOUS
    <3>2. OpenList'[c] = Append(s, record) /\ s \in Seq(RecordType)
      BY <1>1, <1>2, <1>7, <2>2, <3>1
    <3>3. /\ Len(s) \in Nat /\ Len(Append(s, record)) = Len(s) + 1
          /\ DOMAIN Append(s, record) = 1 .. Len(s) + 1
          /\ \A i \in 1 .. Len(s) : Append(s, record)[i] = s[i]
      BY <3>2, LenProperties
    <3>4. \A x \in Range(s) : x \in Range(Append(s, record))
      <4>1. \A x \in Range(s) : \E i \in 1 .. Len(s) : s[i] = x
        BY <3>2, Elements
      <4>2. \A i \in 1 .. Len(s) : i \in 1 .. Len(s) + 1
        BY <3>3
      <4> QED
        BY <3>3, <4>1, <4>2 DEF Range
    <3> QED
      BY <3>1, <3>2, <3>4 DEF RecordsKept
  <2> QED
    BY <2>1, <2>2
<1> QED
  BY <1>4, <1>5, <1>6, <1>7 DEF Loop, Unlink, Replace

HolderKept(b, record) ==
    \/ record.attributes = "get"
    \/ \E later \in Range(OpenList'[b]) :
          later.agent = record.agent /\ later.attributes = record.attributes
    \/ CoreCloseProtocol(b, record.agent, ByDriver(record))

LEMMA HoldersStep ==
    ASSUME LinkedInv, Next, NEW c \in Blocks, NEW record \in Range(OpenList[c])
    PROVE  HolderKept(c, record)
<1>1. OpenList \in [Blocks -> Seq(RecordType)]
  BY DEF LinkedInv, OpensInv
<1>2. RecordsKept(c) => HolderKept(c, record)
  BY DEF RecordsKept, HolderKept
<1>3. ASSUME OpenList'[c] = OpenList[c] PROVE HolderKept(c, record)
  BY <1>2, <1>3 DEF RecordsKept
<1>4. ASSUME NEW f, f.b \in Blocks, NEW below, Loop(f, below) PROVE HolderKept(c, record)
  BY <1>2, <1>4, LoopKeeps
<1>5. ASSUME NEW b \in Blocks, NEW o \in Openers, CoreOpenProtocol(b, o) PROVE HolderKept(c, record)
  <2>1. CASE Loop(Stopping("open", b, o), frames)
    BY <1>4, <2>1 DEF Stopping
  <2>2. CASE OpenList' = [OpenList EXCEPT ![b] = Append(@, Record(o))]
    <3>1. CASE c # b
      BY <1>1, <1>3, <2>2, <3>1
    <3>2. CASE c = b
      <4>1. PICK s, new : s = OpenList[c] /\ new = Record(o)
        OBVIOUS
      <4>2. new \in RecordType
        BY <4>1, RecordIs
      <4>3. OpenList'[c] = Append(s, new) /\ s \in Seq(RecordType)
        BY <1>1, <2>2, <3>2, <4>1
      <4>4. Range(OpenList'[c]) = Range(s) \cup {new}
        BY <4>2, <4>3, AppendElements
      <4> QED
        BY <1>2, <4>1, <4>4 DEF RecordsKept
    <3> QED
      BY <3>1, <3>2
  <2>3. ASSUME NEW i \in Matches(b, o), OpenList' = [OpenList EXCEPT ![b][i].count = @ + 1]
        PROVE  HolderKept(c, record)
    <3>1. CASE c # b
      BY <1>1, <1>3, <2>3, <3>1
    <3>2. CASE c = b
      <4>1. i \in 1 .. Len(OpenList[b])
        BY DEF Matches
      <4>2. PICK s : s = OpenList'[b]
        OBVIOUS
      <4>3. OpenList[b] \in Seq(RecordType)
        BY <1>1
      <4>4. OpenList[b][i] \in RecordType
        BY <4>1, <4>3, LenProperties
      <4>5. PICK new : new = [OpenList[b][i] EXCEPT !.count = @ + 1]
        OBVIOUS
      <4>6. new \in RecordType /\ new.agent = OpenList[b][i].agent /\ new.attributes = OpenList[b][i].attributes
        BY <4>4, <4>5 DEF RecordType
      <4>7. s = [OpenList[b] EXCEPT ![i] = new]
        BY <1>1, <2>3, <4>2, <4>5
      <4>8. /\ s \in Seq(RecordType) /\ Len(s) = Len(OpenList[b])
            /\ \A j \in 1 .. Len(OpenList[b]) : s[j] = IF j = i THEN new ELSE OpenList[b][j]
        BY <4>1, <4>3, <4>6, <4>7, ExceptSeq
      <4>9. ASSUME NEW r \in Range(OpenList[b])
            PROVE  \E later \in Range(s) : later.agent = r.agent /\ later.attributes = r.attributes
        <5>1. PICK j \in 1 .. Len(OpenList[b]) : OpenList[b][j] = r
          BY <4>3, Elements
        <5>2. s[j] \in Range(s)
          BY <4>8, Elements
        <5>3. s[j].agent = r.agent /\ s[j].attributes = r.attributes
          BY <4>6, <4>8, <5>1
        <5> QED
          BY <5>2, <5>3
      <4> QED
        BY <1>2, <3>2, <4>2, <4>9 DEF RecordsKept
    <3> QED
      BY <3>1, <3>2
  <2> QED
    BY <1>5, <2>1, <2>2, <2>3 DEF CoreOpenProtocol
<1>6. ASSUME NEW b \in Blocks, NEW agent, NEW driver, CoreCloseProtocol(b, agent, driver) PROVE HolderKept(c, record)
  <2>1. OpenList' = [OpenList EXCEPT ![b] =
                        Without(@, {r \in Range(@) : r.agent = agent /\ ByDriver(r) = driver})]
    BY <1>6 DEF CoreCloseProtocol
  <2>2. CASE c # b
    BY <1>1, <1>3, <2>1, <2>2
  <2>3. CASE c = b
    <3>1. PICK es : es = {r \in Range(OpenList[b]) : r.agent = agent /\ ByDriver(r) = driver}
      OBVIOUS
    <3>2. OpenList'[b] = Without(OpenList[b], es) /\ OpenList[b] \in Seq(RecordType)
      BY <1>1, <2>1, <3>1
    <3>3. Range(OpenList'[b]) = Range(OpenList[b]) \ es
      BY <3>2, WithoutElements
    <3>4. CASE record \notin es
      BY <2>3, <3>3, <3>4 DEF HolderKept
    <3>5. CASE record \in es
      <4>1. record.agent = agent /\ ByDriver(record) = driver
        BY <3>1, <3>5
      <4> QED
        BY <1>6, <2>3, <4>1 DEF HolderKept
    <3> QED
      BY <3>4, <3>5
  <2> QED
    BY <2>2, <2>3
<1>7. CASE StopReturns
  <2>1. Top.b \in Blocks
    <3>1. frames \in Seq(FrameType) /\ frames # <<>> /\ FramesFit(frames, block) /\ Top.stage = "stop"
      BY <1>7 DEF StopReturns, LinkedInv, FramesInv
    <3> QED
      BY <3>1, PopFits DEF Top, FrameFits
  <2>2. Loop(Top, Front(frames))
    BY <1>7 DEF StopReturns
  <2> QED
    BY <1>4, <2>1, <2>2
<1>8. ASSUME NEW b \in Blocks, CoreUninstallProtocolInterface(b) \/ CoreReinstallProtocolInterface(b)
      PROVE  HolderKept(c, record)
  <2>1. PICK service : Loop(Stopping(service, b, NoOpener), frames)
    BY <1>8 DEF CoreUninstallProtocolInterface, CoreReinstallProtocolInterface
  <2> QED
    BY <1>4, <2>1 DEF Stopping
<1>9. CASE UNCHANGED OpenList
  BY <1>3, <1>9
<1>10. CASE StopFails \/ ConnectReturns
  BY <1>9, <1>10 DEF StopFails, ConnectReturns
<1>11. ASSUME NEW h \in Handles, NEW p \in Protocols, CoreInstallProtocolInterface(h, p) PROVE HolderKept(c, record)
  BY <1>9, <1>11 DEF CoreInstallProtocolInterface
<1>12. ASSUME NEW r \in Registrations,
              \/ \E p \in Protocols : CoreRegisterProtocolNotify(r, p)
              \/ CoreUnregisterProtocolNotify(r)
              \/ CoreLocateProtocol(r)
       PROVE  HolderKept(c, record)
  BY <1>9, <1>12 DEF CoreRegisterProtocolNotify, CoreUnregisterProtocolNotify, CoreLocateProtocol
<1> QED
  BY <1>5, <1>6, <1>7, <1>8, <1>10, <1>11, <1>12 DEF Next, Service

(* No interface has two drivers, and nobody's record of an interface is    *)
(* dropped but by its own Close, whatever is uninstalled, reinstalled or   *)
(* opened exclusively (CoreDisconnectControllersUsingProtocolInterface,    *)
(* CoreOpenProtocol).                                                      *)
THEOREM HoldersHold == Spec => HoldersKept
<1>1. LinkedInv => OneDriver
  BY AtMostOne DEF LinkedInv, OpensInv, DrivenOnce, OneDriver
<1> DEFINE Asked == \A b \in Blocks : \A record \in Range(OpenList[b]) : HolderKept(b, record)
<1>2. LinkedInv /\ [Next]_vars => [Asked]_vars
  <2> SUFFICES ASSUME LinkedInv, Next PROVE Asked
    OBVIOUS
  <2> QED
    BY HoldersStep
<1>3. HoldersAsked <=> [][Asked]_vars
  BY DEF HoldersAsked, HolderKept
<1> HIDE DEF Asked
<1>4. Spec => []LinkedInv /\ [][Next]_vars
  BY LinkedInvariance, PTL DEF Spec
<1>5. []LinkedInv => []OneDriver
  BY <1>1, PTL
<1>6. []LinkedInv /\ [][Next]_vars => [][Asked]_vars
  BY <1>2, PTL
<1> QED
  BY <1>3, <1>4, <1>5, <1>6, PTL DEF HoldersKept
=============================================================================
