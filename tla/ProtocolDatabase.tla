-------------------------- MODULE ProtocolDatabase --------------------------
(***************************************************************************)
(* The handles and protocols of Handle.c, Notify.c and Locate.c.           *)
(*                                                                         *)
(* A service runs under gProtocolDatabaseLock and is one step, except that *)
(* Uninstall, Reinstall and an exclusive Open release the lock to stop the *)
(* drivers in their way, one after the other, and to connect them again.   *)
(* The Stop and Start functions of these drivers call services in turn:    *)
(* `frames` holds the services that wait for them, innermost last.         *)
(*                                                                         *)
(* Handles, interfaces and registrations are blocks of the heap, used      *)
(* again once freed.  Calls that fail on their arguments change nothing    *)
(* and are left out, as are interface pointers (which only decide whether  *)
(* an interface is found), opens by child controllers and the signal of    *)
(* the event of a registration.                                            *)
(***************************************************************************)
EXTENDS Integers, FiniteSets, SequencesExt, Lists

CONSTANTS
    Handles, Protocols, Blocks, Registrations,
    None,      \* no handle, protocol, interface or registration
    ListHead,  \* the head of the list of a protocol
    Openers,   \* pairs of an agent and the attributes it opens with
    MaxCount,  \* bound: OpenCount
    MaxOpens,  \* bound: records
    MaxDepth   \* bound: services that wait for a driver

ASSUME DatabaseAssumption ==
    /\ None \notin Handles \cup Protocols
    /\ ListHead \notin Blocks
    /\ \A o \in Openers : o[2] \in {"driver", "driver exclusive", "exclusive", "get"}
    /\ MaxCount \in Nat \ {0} /\ MaxOpens \in Nat /\ MaxDepth \in Nat

VARIABLES
    gHandleList,
    handleProtocols,  \* the interfaces of a handle, latest first
    byProtocol,       \* the interfaces of a protocol, oldest first
    block,            \* the handle and protocol of an interface
    OpenList,         \* its records
    notify,           \* the protocol of a registration
    position,         \* the interface it last returned, or the head
    frames,
    unseen            \* history: installations that a registration has not returned

interfaceVars == <<gHandleList, handleProtocols, byProtocol, block>>
notifyVars == <<notify, position, unseen>>
vars == <<interfaceVars, OpenList, notifyVars, frames>>

Free == [handle |-> None, protocol |-> None]
Live == {b \in Blocks : block[b] # Free}

Init ==
    /\ gHandleList = <<>>
    /\ handleProtocols = [h \in Handles |-> <<>>]
    /\ byProtocol = [p \in Protocols |-> <<>>]
    /\ block = [b \in Blocks |-> Free]
    /\ OpenList = [b \in Blocks |-> <<>>]
    /\ notify = [r \in Registrations |-> None]
    /\ position = [r \in Registrations |-> ListHead]
    /\ frames = <<>>
    /\ unseen = [r \in Registrations |-> <<>>]

-----------------------------------------------------------------------------
Agents == {o[1] : o \in Openers}
ByDriver(record) == record.attributes \in {"driver", "driver exclusive"}
Exclusive(record) == record.attributes \in {"driver exclusive", "exclusive"}
Record(o) == [agent |-> o[1], attributes |-> o[2], count |-> 1]

(* CoreFindProtocolInterface, CoreGetProtocolInterface. *)
Interfaces(h, p) == {b \in Range(handleProtocols[h]) : block[b].protocol = p}

(***************************************************************************)
(* A frame waits while a driver runs: for the Stop of agent, with a        *)
(* pointer to interface b, or for the drivers to start ("connect").  The   *)
(* attributes are those of an Open.                                        *)
(***************************************************************************)
Stopping(service, b, opener) ==
    [service |-> service, stage |-> "stop", b |-> b, opener |-> opener, agent |-> opener[1]]
NoOpener == <<None, None>>
Connecting == [service |-> "connect", stage |-> "connect", b |-> ListHead, opener |-> NoOpener, agent |-> None]

Top == Last(frames)
Pinned == {frames[i].b : i \in {j \in 1 .. Len(frames) : frames[j].stage = "stop"}}

-----------------------------------------------------------------------------
(* Installs p on h, or on a new handle if h is free.  Install checks with  *)
(* CoreHandleProtocol that h does not carry p; if it does, what is left is *)
(* a record of that check (see CoreOpenProtocol).                          *)
CoreInstallProtocolInterface(h, p) ==
    \E b \in Blocks \ Live :
        /\ Interfaces(h, p) = {}
        /\ gHandleList' = IF h \in Range(gHandleList) THEN gHandleList ELSE Append(gHandleList, h)
        /\ handleProtocols' = [handleProtocols EXCEPT ![h] = <<b>> \o @]
        /\ byProtocol' = [byProtocol EXCEPT ![p] = Append(@, b)]
        /\ block' = [block EXCEPT ![b] = [handle |-> h, protocol |-> p]]
        /\ unseen' = [r \in Registrations |->
                         IF notify[r] = p THEN Append(unseen[r], b) ELSE unseen[r]]
        /\ UNCHANGED <<OpenList, notify, position, frames>>

(* The interface before b in its list. *)
BackLink(b) ==
    LET s == byProtocol[block[b].protocol]
        i == CHOOSE j \in 1 .. Len(s) : s[j] = b
    IN  IF i = 1 THEN ListHead ELSE s[i - 1]

(* mutant: the positions are left alone. *)
BackUpNone(b) == position

(* The positions of registrations are backed up before b is unlinked.      *)
BackUp(b) == [r \in Registrations |-> IF position[r] = b THEN BackLink(b) ELSE position[r]]

(* mutant: the handle goes with its first interface. *)
UnlinkHandle(b) ==
    /\ position' = BackUp(b)
    /\ unseen' = [r \in Registrations |-> RemoveFirst(unseen[r], b)]
    /\ byProtocol' = [byProtocol EXCEPT ![block[b].protocol] = RemoveFirst(@, b)]
    /\ handleProtocols' = [handleProtocols EXCEPT ![block[b].handle] = RemoveFirst(@, b)]
    /\ gHandleList' = RemoveFirst(gHandleList, block[b].handle)
    /\ block' = [block EXCEPT ![b] = Free]
    /\ OpenList' = [OpenList EXCEPT ![b] = <<>>]
    /\ UNCHANGED notify

(* The end of Uninstall; the last interface takes the handle with it.      *)
Unlink(b) ==
    LET h == block[b].handle
        p == block[b].protocol
    IN  /\ position' = BackUp(b)
        /\ unseen' = [r \in Registrations |-> RemoveFirst(unseen[r], b)]
        /\ byProtocol' = [byProtocol EXCEPT ![p] = RemoveFirst(@, b)]
        /\ handleProtocols' = [handleProtocols EXCEPT ![h] = RemoveFirst(@, b)]
        /\ gHandleList' = IF handleProtocols[h] = <<b>> THEN RemoveFirst(gHandleList, h) ELSE gHandleList
        /\ block' = [block EXCEPT ![b] = Free]
        /\ OpenList' = [OpenList EXCEPT ![b] = <<>>]
        /\ UNCHANGED notify

(* The end of Reinstall up to the connection: b moves to the tail of its   *)
(* list, with a new interface pointer.                                     *)
Replace(b) ==
    LET p == block[b].protocol
    IN  /\ position' = BackUp(b)
        /\ unseen' = [r \in Registrations |->
                         IF notify[r] = p THEN Append(RemoveFirst(unseen[r], b), b) ELSE unseen[r]]
        /\ byProtocol' = [byProtocol EXCEPT ![p] = Append(RemoveFirst(@, b), b)]
        /\ OpenList' = [OpenList EXCEPT ![b] = <<>>]
        /\ UNCHANGED <<gHandleList, handleProtocols, block, notify>>

(* mutant: whoever else holds the interface is ignored. *)
HeldNone(b) == FALSE

(* Records that remain when those of GetProtocol and HandleProtocol are    *)
(* dropped.                                                                *)
Held(b) == \E i \in 1 .. Len(OpenList[b]) : OpenList[b][i].attributes # "get"

(***************************************************************************)
(* One turn of the loop that stops the drivers of an interface, for the    *)
(* frame f on top of below: the first driver is stopped; when there is     *)
(* none left the service goes on to its end.                               *)
(***************************************************************************)
FirstDriver(b) ==
    LET s == OpenList[b]
        drivers == {i \in 1 .. Len(s) : ByDriver(s[i])}
    IN  s[CHOOSE i \in drivers : \A j \in drivers : i <= j].agent

HasDriver(b) == \E i \in 1 .. Len(OpenList[b]) : ByDriver(OpenList[b][i])

GiveUp(f, below) ==
    /\ Len(below) < MaxDepth
    /\ frames' = Append(below, Connecting)
    /\ OpenList' = [OpenList EXCEPT ![f.b] = Without(@, {record \in Range(@) : record.attributes = "get"})]
    /\ UNCHANGED <<interfaceVars, notifyVars>>

Loop(f, below) ==
    \/ /\ HasDriver(f.b)
       /\ Len(below) < MaxDepth
       /\ frames' = Append(below, [f EXCEPT !.stage = "stop", !.agent = FirstDriver(f.b)])
       /\ UNCHANGED <<interfaceVars, OpenList, notifyVars>>
    \/ /\ ~HasDriver(f.b) /\ f.service # "open" /\ Held(f.b)
       /\ GiveUp(f, below)
    \/ /\ ~HasDriver(f.b) /\ f.service = "uninstall" /\ ~Held(f.b)
       /\ Unlink(f.b)
       /\ frames' = below
    \/ /\ ~HasDriver(f.b) /\ f.service = "reinstall" /\ ~Held(f.b)
       /\ Len(below) < MaxDepth
       /\ Replace(f.b)
       /\ frames' = Append(below, Connecting)
    \/ /\ ~HasDriver(f.b) /\ f.service = "open"
       /\ OpenList' = [OpenList EXCEPT ![f.b] = Append(@, Record(f.opener))]
       /\ frames' = below
       /\ UNCHANGED <<interfaceVars, notifyVars>>

(* Drivers do not remove an interface that one of them is stopped for.     *)
CoreUninstallProtocolInterface(b) ==
    /\ b \in Live \ Pinned
    /\ Loop(Stopping("uninstall", b, NoOpener), frames)

CoreReinstallProtocolInterface(b) ==
    /\ b \in Live \ Pinned
    /\ Loop(Stopping("reinstall", b, NoOpener), frames)

-----------------------------------------------------------------------------
(* An open that matches a record counts; EXCLUSIVE alone never does.       *)
Matches(b, o) ==
    {i \in 1 .. Len(OpenList[b]) :
        /\ <<OpenList[b][i].agent, OpenList[b][i].attributes>> = o
        /\ o[2] # "exclusive"}

SomeExclusive(b) == \E i \in 1 .. Len(OpenList[b]) : Exclusive(OpenList[b][i])

Denied(b, o) ==
    \/ o[2] = "driver" /\ (SomeExclusive(b) \/ HasDriver(b))
    \/ Exclusive(Record(o)) /\ SomeExclusive(b)

Opens == Cardinality({i \in Blocks \X (1 .. MaxOpens) : i[2] <= Len(OpenList[i[1]])})

CoreOpenProtocol(b, o) ==
    /\ b \in Live
    /\ \/ \E i \in Matches(b, o) :
              /\ OpenList[b][i].count < MaxCount
              /\ OpenList' = [OpenList EXCEPT ![b][i].count = @ + 1]
              /\ UNCHANGED <<interfaceVars, notifyVars, frames>>
       \/ /\ Matches(b, o) = {} /\ ~Denied(b, o)
          /\ Opens < MaxOpens
          /\ IF Exclusive(Record(o))
             THEN Loop(Stopping("open", b, o), frames)
             ELSE /\ OpenList' = [OpenList EXCEPT ![b] = Append(@, Record(o))]
                  /\ UNCHANGED <<interfaceVars, notifyVars, frames>>

(* Close removes every record of the agent on this controller, whatever    *)
(* its count.  A driver names the controller, others none.                 *)
CoreCloseProtocol(b, agent, driver) ==
    /\ b \in Live
    /\ OpenList' = [OpenList EXCEPT ![b] =
                       Without(@, {record \in Range(@) : record.agent = agent /\ ByDriver(record) = driver})]
    /\ OpenList' # OpenList
    /\ UNCHANGED <<interfaceVars, notifyVars, frames>>

-----------------------------------------------------------------------------
CoreRegisterProtocolNotify(r, p) ==
    /\ notify[r] = None
    /\ notify' = [notify EXCEPT ![r] = p]
    /\ position' = [position EXCEPT ![r] = ListHead]
    /\ unseen' = [unseen EXCEPT ![r] = byProtocol[p]]
    /\ UNCHANGED <<interfaceVars, OpenList, frames>>

CoreUnregisterProtocolNotify(r) ==
    /\ notify[r] # None
    /\ notify' = [notify EXCEPT ![r] = None]
    /\ position' = [position EXCEPT ![r] = ListHead]
    /\ unseen' = [unseen EXCEPT ![r] = <<>>]
    /\ UNCHANGED <<interfaceVars, OpenList, frames>>

(* The interfaces after the position of r. *)
Suffix(r) ==
    LET s == byProtocol[notify[r]]
    IN  SubSeq(s, Max({0} \cup {i \in 1 .. Len(s) : s[i] = position[r]}) + 1, Len(s))

(* CoreLocateProtocol, or CoreLocateHandle, with a registration. *)
CoreLocateProtocol(r) ==
    /\ notify[r] # None /\ Suffix(r) # <<>>
    /\ position' = [position EXCEPT ![r] = Suffix(r)[1]]
    /\ unseen' = [unseen EXCEPT ![r] = RemoveFirst(@, Suffix(r)[1])]
    /\ UNCHANGED <<interfaceVars, OpenList, notify, frames>>

-----------------------------------------------------------------------------
(* A Stop that succeeds has closed the driver's interface. *)
StopReturns ==
    /\ frames # <<>> /\ Top.stage = "stop"
    /\ ~\E i \in 1 .. Len(OpenList[Top.b]) :
           OpenList[Top.b][i].agent = Top.agent /\ ByDriver(OpenList[Top.b][i])
    /\ Loop(Top, Front(frames))

(* A Stop that fails: Open is denied, the others connect the drivers again *)
(* and are denied.                                                         *)
StopFails ==
    /\ frames # <<>> /\ Top.stage = "stop"
    /\ frames' = IF Top.service = "open" THEN Front(frames) ELSE Append(Front(frames), Connecting)
    /\ UNCHANGED <<interfaceVars, OpenList, notifyVars>>

(* The drivers have been started, and the service returns. *)
ConnectReturns ==
    /\ frames # <<>> /\ Top.stage = "connect"
    /\ frames' = Front(frames)
    /\ UNCHANGED <<interfaceVars, OpenList, notifyVars>>

Service ==
    \/ \E h \in Handles, p \in Protocols : CoreInstallProtocolInterface(h, p)
    \/ \E b \in Blocks : CoreUninstallProtocolInterface(b) \/ CoreReinstallProtocolInterface(b)
    \/ \E b \in Blocks, o \in Openers : CoreOpenProtocol(b, o)
    \/ \E b \in Blocks, agent \in Agents, driver \in BOOLEAN : CoreCloseProtocol(b, agent, driver)
    \/ \E r \in Registrations :
          \/ \E p \in Protocols : CoreRegisterProtocolNotify(r, p)
          \/ CoreUnregisterProtocolNotify(r)
          \/ CoreLocateProtocol(r)

Next ==
    \/ Service
    \/ StopReturns
    \/ StopFails
    \/ ConnectReturns

Spec == Init /\ [][Next]_vars

-----------------------------------------------------------------------------
(***************************************************************************)
(* The lists agree, also while services wait for drivers: an interface is  *)
(* in the list of its handle and in that of its protocol, once, and        *)
(* nowhere else; a handle exists while it carries a protocol, and carries  *)
(* none twice.                                                             *)
(***************************************************************************)
DatabaseLinked ==
    /\ IsInjective(gHandleList)
    /\ Range(gHandleList) = {h \in Handles : handleProtocols[h] # <<>>}
    /\ \A h \in Handles :
          /\ IsInjective(handleProtocols[h])
          /\ Range(handleProtocols[h]) = {b \in Live : block[b].handle = h}
          /\ \A p \in Protocols : Cardinality(Interfaces(h, p)) <= 1
    /\ \A p \in Protocols :
          /\ IsInjective(byProtocol[p])
          /\ Range(byProtocol[p]) = {b \in Live : block[b].protocol = p}
    /\ \A b \in Blocks \ Live : OpenList[b] = <<>>
    /\ Pinned \subseteq Live

(***************************************************************************)
(* Two drivers never manage the same interface, even when one opens it     *)
(* while another open waits for the driver before to stop.                 *)
(***************************************************************************)
OneDriver ==
    \A b \in Blocks : Cardinality({i \in 1 .. Len(OpenList[b]) : ByDriver(OpenList[b][i])}) <= 1

(***************************************************************************)
(* A registration returns every installation and reinstallation once, in   *)
(* order, whatever is removed in between.                                  *)
(***************************************************************************)
EachInstallOnce == \A r \in Registrations : notify[r] # None => Suffix(r) = unseen[r]

(***************************************************************************)
(* Nobody loses an interface unasked: the record of a driver, or of an     *)
(* exclusive opener, disappears only when that agent closes it, whatever   *)
(* is uninstalled or reinstalled, also for those that came while the       *)
(* drivers before them were being stopped.                                 *)
(***************************************************************************)
HoldersAsked ==
    [][\A b \in Blocks : \A record \in Range(OpenList[b]) :
          \/ record.attributes = "get"
          \/ \E later \in Range(OpenList'[b]) :
                later.agent = record.agent /\ later.attributes = record.attributes
          \/ CoreCloseProtocol(b, record.agent, ByDriver(record))]_vars

(***************************************************************************)
(* One driver at a time, and only until it lets go: exclusive opens and    *)
(* uninstallations wait for Stop while others open and close.              *)
(***************************************************************************)
HoldersKept == []OneDriver /\ HoldersAsked

(***************************************************************************)
(* An interface stays open until it was closed as often as it was opened   *)
(* (Handle.c:1167, "increment the open count so a matching number of       *)
(* CloseProtocol calls are needed").                                       *)
(***************************************************************************)
ClosesMatchOpens ==
    [][\A b \in Blocks, agent \in Agents, driver \in BOOLEAN :
          CoreCloseProtocol(b, agent, driver) =>
              \A i \in 1 .. Len(OpenList[b]) :
                  OpenList[b][i].agent = agent /\ ByDriver(OpenList[b][i]) = driver
                      => OpenList[b][i].count = 1]_vars
=============================================================================
