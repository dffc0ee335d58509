---------------------------- MODULE HostDispatcher ----------------------------
(***************************************************************************)
(* HostDispatcherLib.c on DriverSupport: the harness dispatches its        *)
(* drivers once, disconnects and reconnects them; drivers and tests call   *)
(* ConnectController and DisconnectController beside it.                   *)
(***************************************************************************)
EXTENDS DriverSupport

CONSTANTS
    Registry,                  \* the drivers of the harness, in its order
    gFuzzHandle

ASSUME RegistryAssumption == Registry \in Seq(Drivers) /\ gFuzzHandle \in Controllers

VARIABLES
    marked,                    \* the drivers whose Started flag is set
    dispatched                 \* the call of HostDispatchDrivers has been made

driverVars == <<coreVars, marked, dispatched>>

DriversInit == CoreInit /\ marked = {} /\ dispatched = FALSE

Host(call) == [call |-> call, stage |-> "entry", at |-> 1]

Begin(frame) ==
    /\ frames = <<>>
    /\ calls' = IF frame.call = "dispatch" THEN calls ELSE calls + 1
    /\ calls' <= MaxCalls
    /\ frames' = <<frame>>
    /\ result' = None
    /\ UNCHANGED <<installed, interfaces, opens, marked>>

CallConnect ==
    \E call \in ConnectCalls : Begin(Connect(call[1], call[2], call[3])) /\ UNCHANGED dispatched

CallDisconnect ==
    \E call \in DisconnectCalls : Begin(Disconnect(call[1], call[2], call[3])) /\ UNCHANGED dispatched

HostDispatchDrivers ==
    /\ ~dispatched /\ Registry # <<>>
    /\ Begin(Host("dispatch")) /\ dispatched' = TRUE

HostDisconnectDrivers == dispatched /\ Begin(Host("host_disconnect")) /\ UNCHANGED dispatched
HostReconnectDrivers == dispatched /\ Begin(Host("reconnect")) /\ UNCHANGED dispatched

(* The entry points install the bindings; some may fail, in which case the *)
(* driver is left out.  Without any the dispatcher gives up.               *)
EntryPoint ==
    /\ Running("dispatch", "entry") /\ Top.at <= Len(Registry)
    /\ \/ installed' = Append(installed, Registry[Top.at])
       \/ Registry[Top.at] \in Unreliable /\ UNCHANGED installed
    /\ Become([Top EXCEPT !.at = @ + 1])
    /\ UNCHANGED <<interfaces, opens, result, calls, marked, dispatched>>

EntryPointsDone ==
    /\ Running("dispatch", "entry") /\ Top.at > Len(Registry)
    /\ IF installed = <<>> THEN Return("EFI_DEVICE_ERROR")
       ELSE /\ Push([Top EXCEPT !.stage = "connected"], Connect(gFuzzHandle, <<>>, FALSE))
            /\ UNCHANGED result
    /\ UNCHANGED <<installed, interfaces, opens, calls, marked, dispatched>>

DisconnectAll ==
    /\ frames # <<>> /\ Top.stage = "entry" /\ Top.call \in {"host_disconnect", "reconnect"}
    /\ Push([Top EXCEPT !.stage = "disconnected"], Disconnect(gFuzzHandle, None, None))
    /\ UNCHANGED <<installed, interfaces, opens, result, calls, marked, dispatched>>

(* The flags are cleared and success is returned, whatever was stopped.    *)
Disconnected ==
    /\ frames # <<>> /\ Top.stage = "disconnected" /\ result # None
    /\ marked' = {}
    /\ IF Top.call = "host_disconnect" THEN Return("EFI_SUCCESS")
       ELSE /\ Push([Top EXCEPT !.stage = "connected"], Connect(gFuzzHandle, <<>>, FALSE))
            /\ result' = None
    /\ UNCHANGED <<installed, interfaces, opens, calls, dispatched>>

Connected ==
    /\ frames # <<>> /\ Top.stage = "connected" /\ result # None
    /\ marked' = IF result = "EFI_SUCCESS" THEN Range(Registry) ELSE marked
    /\ frames' = Front(frames)
    /\ UNCHANGED <<installed, interfaces, opens, result, calls, dispatched>>

Step ==
    \/ CoreStep /\ UNCHANGED <<marked, dispatched>>
    \/ EntryPoint \/ EntryPointsDone \/ DisconnectAll \/ Disconnected \/ Connected

DriversNext ==
    \/ CallConnect \/ CallDisconnect
    \/ HostDispatchDrivers \/ HostDisconnectDrivers \/ HostReconnectDrivers
    \/ Step

(* A call runs to its end: callbacks return.                               *)
DriversSpec == DriversInit /\ [][DriversNext]_driverVars /\ WF_driverVars(Step)

-----------------------------------------------------------------------------
(***************************************************************************)
(* The driver that is started is the one that comes first among those that *)
(* could be: the drivers the caller names, then the platform's overrides,  *)
(* the family overrides from the highest version down, those of the bus,   *)
(* and the others by version, also after drivers were started and stopped. *)
(***************************************************************************)
Rank(d, c, contexts) ==
    IF d \in Range(contexts) THEN <<1, FirstAt(contexts, d)>>
    ELSE IF Image[d] \in Range(PlatformOverride[c]) THEN <<2, FirstAt(PlatformOverride[c], Image[d])>>
    ELSE IF FamilyVersion[d] > 0 THEN <<3, -FamilyVersion[d]>>
    ELSE IF Image[d] \in Range(BusOverride[c]) THEN <<4, FirstAt(BusOverride[c], Image[d])>>
    ELSE <<5, -Version[d]>>

NotBehind(rank, other) == rank[1] < other[1] \/ (rank[1] = other[1] /\ rank[2] <= other[2])

BestDriverStarts ==
    Running("connect", "start") /\ Supporting # {} => \A d \in Range(Top.sorted) \ {None} :
        Supported(d, Top.controller) =>
            NotBehind(Rank(Top.sorted[Candidate], Top.controller, Top.contexts),
                      Rank(d, Top.controller, Top.contexts))

(***************************************************************************)
(* A controller is connected until no driver is left that supports it: the *)
(* protocols that one driver installs are offered to all, whatever their   *)
(* place in the order, and a driver that could not be started is the only  *)
(* one left out.                                                           *)
(***************************************************************************)
ConnectExhaustive ==
    Running("connect", "start") /\ Supporting = {} =>
        \A e \in Range(Top.sorted) \ {None} : ~Supported(e, Top.controller)

(***************************************************************************)
(* CoreConnectSingleController starts the best driver of those that can    *)
(* be started, until none can.                                             *)
(***************************************************************************)
BestDriversConnect == BestDriverStarts /\ ConnectExhaustive

(***************************************************************************)
(* A driver is stopped only while it manages the controller, even when the *)
(* Stop of one driver has disconnected others that were still to come.     *)
(***************************************************************************)
StopsManagers == Running("stop", "run") => Manages(Top.driver, Top.controller)

(***************************************************************************)
(* A driver is stopped on a controller only when its children there are    *)
(* gone.                                                                   *)
(***************************************************************************)
ChildrenFirst ==
    Running("stop", "run") /\ Top.whole => KidsOf(Top.driver, Top.controller) = <<>>

(***************************************************************************)
(* CoreDisconnectController stops the drivers that manage a controller and *)
(* no other, on the children before the controller.                        *)
(***************************************************************************)
StopsInOrder == StopsManagers /\ ChildrenFirst

(***************************************************************************)
(* Every call comes to an end, whatever Start and Stop functions fail.     *)
(***************************************************************************)
CallsReturn == frames # <<>> ~> frames = <<>>

(***************************************************************************)
(* HostDisconnectDrivers answers success when all drivers are disconnected *)
(* (HostDispatcherLib.h:120, "@retval EFI_SUCCESS All drivers              *)
(* disconnected.").                                                        *)
(***************************************************************************)
AllDisconnected ==
    [][Len(frames) = 1 /\ Top.call = "host_disconnect" /\ frames' = <<>> =>
          Agents(gFuzzHandle) = {}]_driverVars
=============================================================================
