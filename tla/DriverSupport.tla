----------------------------- MODULE DriverSupport -----------------------------
(***************************************************************************)
(* DriverSupport.c: drivers are connected to a controller and disconnected *)
(* from it.  There is one thread; `frames` holds the calls that run, each  *)
(* waiting for the one after it, and `result` what the last one returned.  *)
(* A step is one callback into a driver, or the services between two.      *)
(*                                                                         *)
(* Drivers are external.  A driver supports a controller that carries the  *)
(* protocol it consumes, unless another one has opened it; it opens it and *)
(* installs the protocol it produces, or creates its children.  Its Stop   *)
(* removes these, through UninstallProtocolInterface, which disconnects    *)
(* the drivers on top first (Handle.c; ProtocolDatabase models it in full),*)
(* and may fail at once.  Drivers do not unload others.  A driver stands   *)
(* for its binding, the handle of that, and its agent handle.              *)
(*                                                                         *)
(* Left out: permission checks (gSecurity2 is NULL), the remaining device  *)
(* path, and failures of the allocator.                                    *)
(***************************************************************************)
EXTENDS Lists, FiniteSets, SequencesExt

CONSTANTS
    Controllers, Drivers, Protocols, None,
    Initially,                 \* the protocols of a controller, latest first
    Consumes, Produces,        \* protocols of a driver; Produces may be None
    Children,                  \* the sequence of controllers it creates
    ChildProtocol,             \* what it installs on them
    Image, Version,
    FamilyVersion,             \* 0 without an EFI_DRIVER_FAMILY_OVERRIDE_PROTOCOL
    PlatformOverride,          \* sequences of images for a controller
    BusOverride,
    Loadable,                  \* drivers that the platform loads late
    ConnectCalls,              \* what callers pass: a controller, DriverImageHandle, Recursive
    DisconnectCalls,           \* a controller, DriverImageHandle, ChildHandle
    MaxCalls,                  \* bound: calls from outside
    Unreliable                 \* bound: the drivers whose functions may fail

ASSUME DriverAssumption ==
    /\ IsFiniteSet(Drivers) /\ IsFiniteSet(Protocols)
    /\ None \notin Controllers \cup Drivers \cup Protocols
    /\ Initially \in [Controllers -> Seq(Protocols)]
    /\ Consumes \in [Drivers -> Protocols] /\ Produces \in [Drivers -> Protocols \cup {None}]
    /\ Children \in [Drivers -> Seq(Controllers)] /\ ChildProtocol \in [Drivers -> Protocols]
    /\ \A d \in Drivers : IsInjective(Children[d])
    /\ \A d, e \in Drivers : d # e => Produces[d] = None \/ Produces[d] # Produces[e]
    /\ Version \in [Drivers -> Nat] /\ FamilyVersion \in [Drivers -> Nat]
    /\ \A c \in Controllers :
          /\ PlatformOverride[c] \in Seq(Range(PlatformOverride[c]))
          /\ BusOverride[c] \in Seq(Range(BusOverride[c]))
    /\ Loadable \subseteq Drivers
    /\ ConnectCalls \subseteq Controllers \X Seq(Drivers) \X BOOLEAN
    /\ DisconnectCalls \subseteq Controllers \X (Drivers \cup {None}) \X (Controllers \cup {None})

(* The drivers form a stack: what one installs is in a higher layer than   *)
(* what it consumes.                                                       *)
Stacks(layer) ==
    \A d \in Drivers :
        /\ Produces[d] # None => layer[Consumes[d]] < layer[Produces[d]]
        /\ Children[d] # <<>> => layer[Consumes[d]] < layer[ChildProtocol[d]]

ASSUME StackAssumption == \E layer \in [Protocols -> 0 .. Cardinality(Protocols)] : Stacks(layer)

VARIABLES
    installed,                 \* the drivers with a binding, oldest first
    interfaces,                \* the protocols of a controller, latest first
    opens,                     \* records of a controller: BY_DRIVER, or for a child
    frames, result,
    calls

coreVars == <<installed, interfaces, opens, frames, result, calls>>

CoreInit ==
    /\ installed = <<>>
    /\ interfaces = Initially
    /\ opens = [c \in Controllers |-> <<>>]
    /\ frames = <<>> /\ result = None
    /\ calls = 0

-----------------------------------------------------------------------------
Top == Last(frames)
Running(call, stage) == frames # <<>> /\ Top.call = call /\ Top.stage = stage /\ result = None
Back(call, stage) == frames # <<>> /\ Top.call = call /\ Top.stage = stage /\ result # None

Become(frame) == frames' = Append(Front(frames), frame)
Push(frame, callee) == frames' = Front(frames) \o <<frame, callee>>
Return(status) == frames' = Front(frames) /\ result' = status

Valid(c) == interfaces[c] # <<>>                               \* CoreValidateHandle

(* The elements of s that are in es.                                       *)
Only(s, es) == Without(s, Range(s) \ es)

(* Those with the first of the keys, then those with the second, and so on.*)
ByKey(s, es, key, keys) ==
    Joined([n \in DOMAIN keys |-> Only(s, {e \in es : key[e] = keys[n]})])

(* The records of a controller that are in rs, interface by interface.     *)
OpenList(c, rs) == ByKey(opens[c], rs, [record \in rs |-> record.protocol], interfaces[c])

Managing(c) == {record \in Range(opens[c]) : record.child = None}
OfChildren(c) == Range(opens[c]) \ Managing(c)

Agents(c) == {record.agent : record \in Managing(c)}
Manages(d, c) == d \in Agents(c)

-----------------------------------------------------------------------------
(* The order in which drivers are tried.  A driver is added to the list    *)
(* once (AddSortedDriverBindingProtocol), by its first claim.              *)
OnceEach(s) ==
    LET first[n \in 0 .. Len(s)] ==
            IF n = 0 THEN <<>>
            ELSE IF \E i \in 1 .. n - 1 : s[i] = s[n] THEN first[n - 1]
            ELSE Append(first[n - 1], s[n])
    IN  first[Len(s)]

OfHandles(handles, contexts) == ByKey(handles, Range(handles), [d \in Drivers |-> d], contexts)

OfImages(handles, images) == ByKey(handles, Range(handles), Image, images)

FirstAt(s, x) == Min({i \in DOMAIN s : s[i] = x})

(* The highest version goes first, the earlier handle of two of a version. *)
OfFamily(handles) ==
    {s \in SetToSeqs({d \in Range(handles) : FamilyVersion[d] > 0}) :
        \A i, j \in DOMAIN s : i < j =>
            \/ FamilyVersion[s[i]] > FamilyVersion[s[j]]
            \/ /\ FamilyVersion[s[i]] = FamilyVersion[s[j]]
               /\ FirstAt(handles, s[i]) < FirstAt(handles, s[j])}

(* mutant: the drivers of the family go before the platform's. *)
OverridesFamilyFirst(handles, c, contexts) ==
    {<<OfHandles(handles, contexts), family,
       OfImages(handles, PlatformOverride[c]), OfImages(handles, BusOverride[c])>> :
        family \in OfFamily(handles)}

Overrides(handles, c, contexts) ==
    {<<OfHandles(handles, contexts), OfImages(handles, PlatformOverride[c]),
       family, OfImages(handles, BusOverride[c])>> :
        family \in OfFamily(handles)}

(* The others follow from the highest version down; the selection sort may *)
(* exchange drivers of one version.                                        *)
DescendingOrders ==
    UNION {{s \in SetToSeqs(drivers) : \A i, j \in DOMAIN s : i < j => Version[s[i]] >= Version[s[j]]} :
               drivers \in SUBSET Drivers}

Sorted(handles, c, contexts) ==
    UNION {{first \o others :
               others \in {s \in DescendingOrders : Range(s) = Range(handles) \ Range(first)}} :
               first \in {OnceEach(Joined(lists)) : lists \in Overrides(handles, c, contexts)}}

-----------------------------------------------------------------------------
(* What the driver's Supported answers: it opens the interface to see.     *)
Supported(d, c) ==
    /\ Consumes[d] \in Range(interfaces[c])
    /\ \A record \in Range(opens[c]) : record.protocol = Consumes[d] => record.child # None

(* Start: the interface is opened for the driver and for each child.       *)
Started(d, c) ==
    LET own == [protocol |-> Consumes[d], agent |-> d, child |-> None]
    IN  /\ opens' = [opens EXCEPT ![c] = @ \o <<own>> \o
                         [i \in DOMAIN Children[d] |-> [own EXCEPT !.child = Children[d][i]]]]
        /\ interfaces' = [k \in Controllers |->
               IF k = c /\ Produces[d] # None THEN <<Produces[d]>> \o interfaces[k]
               ELSE IF k \in Range(Children[d]) THEN <<ChildProtocol[d]>> \o interfaces[k]
               ELSE interfaces[k]]

(* CoreConnectController: at is the Index of the loops, started OneStarted.*)
Connect(c, contexts, recursive) ==
    [call |-> "connect", stage |-> "handles", controller |-> c, contexts |-> contexts,
     recursive |-> recursive, handles |-> <<>>, sorted |-> <<>>, at |-> 1,
     driver |-> None, started |-> FALSE, kids |-> <<>>]

LocateDrivers ==
    /\ Running("connect", "handles")
    /\ IF ~Valid(Top.controller) THEN Return("EFI_INVALID_PARAMETER")
       ELSE /\ Become([Top EXCEPT !.stage = IF installed = <<>> THEN "start" ELSE "sort",
                                  !.handles = installed])
            /\ UNCHANGED result
    /\ UNCHANGED <<installed, interfaces, opens, calls>>

(* The platform loads a driver while it is asked for its overrides.        *)
LoadDriver ==
    /\ Running("connect", "sort") /\ PlatformOverride[Top.controller] # <<>>
    /\ \E d \in Loadable \ Range(installed) : installed' = Append(installed, d)
    /\ UNCHANGED <<interfaces, opens, frames, result, calls>>

(* With a driver that came meanwhile, all starts again (EFI_NOT_READY).    *)
SortDrivers ==
    /\ Running("connect", "sort")
    /\ IF Len(installed) > Len(Top.handles) THEN Become([Top EXCEPT !.stage = "handles"])
       ELSE \E sorted \in Sorted(Top.handles, Top.controller, Top.contexts) :
               Become([Top EXCEPT !.stage = "start", !.sorted = sorted])
    /\ UNCHANGED <<installed, interfaces, opens, result, calls>>

(* mutant: the driver that was found stays in the list. *)
FoundStays(frame, i) == [frame EXCEPT !.at = 1]

(* The driver that was found is not tried again, all others are.           *)
Found(frame, i) == [frame EXCEPT !.at = 1, !.sorted[i] = None]

Supporting ==
    {i \in Top.at .. Len(Top.sorted) :
        Top.sorted[i] # None /\ Supported(Top.sorted[i], Top.controller)}

(* The first driver from the index on whose Supported succeeds.            *)
Candidate == Min(Supporting)

FindDriver ==
    /\ Running("connect", "start") /\ Supporting # {}
    /\ Become([Found(Top, Candidate) EXCEPT !.stage = "started", !.driver = Top.sorted[Candidate]])
    /\ UNCHANGED <<installed, interfaces, opens, result, calls>>

StartSucceeds ==
    /\ Running("connect", "started")
    /\ Started(Top.driver, Top.controller)
    /\ Become([Top EXCEPT !.stage = "start", !.started = TRUE, !.driver = None])
    /\ UNCHANGED <<installed, result, calls>>

StartFails ==
    /\ Running("connect", "started") /\ Top.driver \in Unreliable
    /\ Become([Top EXCEPT !.stage = "start", !.driver = None])
    /\ UNCHANGED <<installed, interfaces, opens, result, calls>>

(* No driver is left that supports the controller.  Its children are       *)
(* collected, each as often as it was opened, and connected in turn.       *)
ChildRecords(c) == OpenList(c, OfChildren(c))

ConnectStatus(frame) == IF frame.started THEN "EFI_SUCCESS" ELSE "EFI_NOT_FOUND"

StartLoopEnds ==
    /\ Running("connect", "start") /\ Supporting = {}
    /\ IF Top.recursive /\ Valid(Top.controller)
       THEN LET records == ChildRecords(Top.controller)
            IN  /\ Become([Top EXCEPT !.stage = "children", !.at = 1,
                              !.kids = [i \in DOMAIN records |-> records[i].child]])
                /\ UNCHANGED result
       ELSE Return(ConnectStatus(Top))
    /\ UNCHANGED <<installed, interfaces, opens, calls>>

ConnectChild ==
    /\ frames # <<>> /\ Top.call = "connect" /\ Top.stage = "children"
    /\ IF Top.at <= Len(Top.kids)
       THEN /\ Push([Top EXCEPT !.at = @ + 1], Connect(Top.kids[Top.at], <<>>, TRUE))
            /\ result' = None
       ELSE Return(ConnectStatus(Top))
    /\ UNCHANGED <<installed, interfaces, opens, calls>>

-----------------------------------------------------------------------------
(* CoreDisconnectController: driver and child may be None, for all.  at is *)
(* the index of the driver, kids the children it has.                      *)
Disconnect(c, driver, child) ==
    [call |-> "disconnect", stage |-> "drivers", controller |-> c, driver |-> driver,
     child |-> child, drivers |-> <<>>, at |-> 1, kids |-> <<>>, stopped |-> 0]

AgentsOf(records) == [i \in DOMAIN records |-> records[i].agent]

(* The drivers that manage the controller, in the order of its interfaces. *)
CollectDrivers ==
    LET c == Top.controller
        managing == OpenList(c, Managing(c))
        drivers == IF Top.driver # None THEN <<Top.driver>> ELSE OnceEach(AgentsOf(managing))
    IN  /\ Running("disconnect", "drivers")
        /\ IF ~Valid(c) \/ (Top.child # None /\ ~Valid(Top.child)) THEN Return("EFI_INVALID_PARAMETER")
           ELSE IF drivers = <<>> THEN Return("EFI_SUCCESS")
           ELSE Become([Top EXCEPT !.stage = "driver", !.drivers = drivers]) /\ UNCHANGED result
        /\ UNCHANGED <<installed, interfaces, opens, calls>>

(* A driver's Stop, for a sequence of children or, if that is empty, for   *)
(* the controller itself.                                                  *)
Stop(d, c, kids) ==
    [call |-> "stop", stage |-> "run", driver |-> d, controller |-> c, kids |-> kids,
     whole |-> kids = <<>>]

DriverImageHandleValid(d, c) == Manages(d, c)

KidsOf(d, c) ==
    LET records == OpenList(c, {record \in OfChildren(c) : record.agent = d})
    IN  OnceEach([i \in DOMAIN records |-> records[i].child])

NextDriver ==
    LET c == Top.controller
        d == Top.drivers[Top.at]
        kids == KidsOf(d, c)
        theirs == Top.child = None \/ Top.child \in Range(kids)
    IN  /\ Running("disconnect", "driver")
        /\ IF Top.at > Len(Top.drivers)
           THEN Return(IF Top.stopped > 0 THEN "EFI_SUCCESS" ELSE "EFI_NOT_FOUND")
           ELSE IF d \notin Range(installed) THEN Return("EFI_INVALID_PARAMETER")
           ELSE /\ IF ~DriverImageHandleValid(d, c) \/ ~theirs THEN Become([Top EXCEPT !.at = @ + 1])
                   ELSE IF kids = <<>> THEN Push([Top EXCEPT !.stage = "stop"], Stop(d, c, <<>>))
                   ELSE Push([Top EXCEPT !.stage = "stop_children", !.kids = kids],
                             Stop(d, c, IF Top.child = None THEN kids ELSE <<Top.child>>))
                /\ UNCHANGED result
        /\ UNCHANGED <<installed, interfaces, opens, calls>>

(* mutant: with its child gone the driver is stopped, whatever others it has. *)
AllStoppedOne(frame) == TRUE

(* Whether the children that were stopped are all that there were.         *)
AllStopped(frame) == frame.child = None \/ Len(frame.kids) = 1

AfterDriver(ok) == [Top EXCEPT !.stage = "driver", !.at = @ + 1, !.stopped = IF ok THEN @ + 1 ELSE @]

ChildrenStopped ==
    /\ Back("disconnect", "stop_children")
    /\ result' = None
    /\ IF result = "EFI_SUCCESS" /\ AllStopped(Top)
       THEN Push([Top EXCEPT !.stage = "stop"], Stop(Top.drivers[Top.at], Top.controller, <<>>))
       ELSE Become(AfterDriver(result = "EFI_SUCCESS"))
    /\ UNCHANGED <<installed, interfaces, opens, calls>>

DriverStopped ==
    /\ Back("disconnect", "stop")
    /\ result' = None
    /\ Become(AfterDriver(result = "EFI_SUCCESS"))
    /\ UNCHANGED <<installed, interfaces, opens, calls>>

-----------------------------------------------------------------------------
(* The Stop of a driver: an interface that is to go is uninstalled first.  *)
Uninstall(c, protocol) ==
    [call |-> "uninstall", stage |-> "loop", controller |-> c, protocol |-> protocol]

StopFails ==
    /\ Running("stop", "run") /\ Top.driver \in Unreliable
    /\ Return("EFI_DEVICE_ERROR")
    /\ UNCHANGED <<installed, interfaces, opens, calls>>

Close(c, d, child) ==
    opens' = [opens EXCEPT ![c] =
                 Without(@, {record \in Range(@) : record.agent = d /\ record.child = child})]

StopRuns ==
    LET d == Top.driver
        c == Top.controller
        goes == IF ~Top.whole THEN Uninstall(Head(Top.kids), ChildProtocol[d]) ELSE Uninstall(c, Produces[d])
        ready == Top.whole /\ Produces[d] = None
    IN  /\ Running("stop", "run")
        /\ IF ready THEN Close(c, d, None) /\ Return("EFI_SUCCESS")
           ELSE Push([Top EXCEPT !.stage = "uninstall"], goes) /\ UNCHANGED <<opens, result>>
        /\ UNCHANGED <<installed, interfaces, calls>>

StopUninstalled ==
    LET d == Top.driver
        c == Top.controller
    IN  /\ Back("stop", "uninstall")
        /\ IF result # "EFI_SUCCESS" THEN frames' = Front(frames) /\ UNCHANGED <<opens, result>>
           ELSE IF Top.whole THEN Close(c, d, None) /\ Return("EFI_SUCCESS")
           ELSE /\ Close(c, d, Head(Top.kids))
                /\ IF Len(Top.kids) = 1 THEN Return("EFI_SUCCESS")
                   ELSE Become([Top EXCEPT !.stage = "run", !.kids = Tail(@)]) /\ result' = None
        /\ UNCHANGED <<installed, interfaces, calls>>

(* CoreDisconnectControllersUsingProtocolInterface: the first driver that  *)
(* manages the interface is disconnected, until there is none.  When one   *)
(* stays, or a child does, all are connected again and access is denied.   *)
UserOf(c, protocol) ==
    Only(opens[c], {record \in Managing(c) : record.protocol = protocol})

UninstallProtocolInterface ==
    LET c == Top.controller
        users == UserOf(c, Top.protocol)
        refused == result \notin {None, "EFI_SUCCESS"}
    IN  /\ frames # <<>> /\ Top.call = "uninstall" /\ Top.stage = "loop"
        /\ IF refused \/ (users = <<>> /\ \E record \in Range(opens[c]) : record.protocol = Top.protocol)
           THEN /\ Push([Top EXCEPT !.stage = "denied"], Connect(c, <<>>, TRUE))
                /\ result' = None /\ UNCHANGED interfaces
           ELSE IF users # <<>>
           THEN /\ Push(Top, Disconnect(c, users[1].agent, None))
                /\ result' = None /\ UNCHANGED interfaces
           ELSE /\ interfaces' = [interfaces EXCEPT ![c] = Without(@, {Top.protocol})]
                /\ Return("EFI_SUCCESS")
        /\ UNCHANGED <<installed, opens, calls>>

UninstallDenied ==
    /\ Back("uninstall", "denied")
    /\ Return("EFI_ACCESS_DENIED")
    /\ UNCHANGED <<installed, interfaces, opens, calls>>

CoreStep ==
    \/ LocateDrivers \/ LoadDriver \/ SortDrivers
    \/ FindDriver \/ StartSucceeds \/ StartFails \/ StartLoopEnds \/ ConnectChild
    \/ CollectDrivers \/ NextDriver \/ ChildrenStopped \/ DriverStopped
    \/ StopFails \/ StopRuns \/ StopUninstalled
    \/ UninstallProtocolInterface \/ UninstallDenied
=============================================================================
