-------------------------------- MODULE MCHost --------------------------------
(***************************************************************************)
(* Instances of three services that are independent of each other: the     *)
(* address space, the variables, and drivers that are connected.  One      *)
(* behavior exercises one of them.                                         *)
(***************************************************************************)
EXTENDS GcdMap, VariableStore, HostDispatcher

CONSTANTS core, owner, db, boot, x, y, X509,
          nic, k1, k2, low, bus, leaf, alt, fam, spare, p, q, r

VARIABLE service

----------------------------------------------------------------------------
MCMemoryKinds == {"SystemMemory", "MemoryMappedIo"}
MCIoKinds == {"Io"}

----------------------------------------------------------------------------
List(signatures) == [type |-> X509, signatures |-> signatures]
MCPayloads(key) ==
    IF key = db THEN {<<List(<<x>>)>>, <<List(<<y>>), List(<<y, x>>)>>} ELSE {<<>>, <<x>>}
MCAttributes == {{"BS"}, {"BS", "APPEND"}, {"BS", "TIME", "APPEND"}}

----------------------------------------------------------------------------
(* low and bus are a stack on the controller nic, alt and fam compete with *)
(* low, bus creates two children and leaf and spare compete for them.      *)
MCInitially == [c \in Controllers |-> IF c = nic THEN <<p>> ELSE <<>>]
MCConsumes == [d \in Drivers |-> IF d \in {leaf, spare} THEN r ELSE IF d = bus THEN q ELSE p]
MCProduces == [d \in Drivers |-> IF d = low THEN q ELSE None]
MCChildren == [d \in Drivers |-> IF d = bus THEN <<k1, k2>> ELSE <<>>]
MCChildProtocol == [d \in Drivers |-> r]
MCImage == [d \in Drivers |-> d]
MCVersion == [d \in Drivers |-> IF d \in {alt, leaf} THEN 20 ELSE IF d = fam THEN 1 ELSE 10]
MCFamilyVersion == [d \in Drivers |-> IF d = fam THEN 7 ELSE 0]
MCPlatformOverride == [c \in Controllers |-> IF c = nic THEN <<low>> ELSE <<>>]
MCBusOverride == [c \in Controllers |-> IF c = k1 THEN <<spare>> ELSE <<>>]
MCConnectCalls == {<<nic, <<>>, TRUE>>, <<nic, <<bus>>, FALSE>>, <<k1, <<>>, FALSE>>}
MCDisconnectCalls ==
    {<<nic, None, None>>, <<nic, bus, k1>>, <<nic, leaf, None>>, <<k1, None, None>>, <<nic, None, k2>>}
MCRegistry == <<bus, low, alt, leaf, spare>>

----------------------------------------------------------------------------
vars == <<service, gcdVars, variableVars, driverVars>>

Init ==
    /\ service \in {"address space", "variables", "drivers"}
    /\ GcdInit /\ VariableInit /\ DriversInit

AddressSpaces ==
    /\ service = "address space" /\ GcdNext
    /\ UNCHANGED <<service, variableVars, driverVars>>

VariableServices ==
    /\ service = "variables" /\ VariableNext
    /\ UNCHANGED <<service, gcdVars, driverVars>>

DriverServices ==
    /\ service = "drivers" /\ DriversNext
    /\ UNCHANGED <<service, gcdVars, variableVars>>

Next == AddressSpaces \/ VariableServices \/ DriverServices

(* Who enumerates goes on, and callbacks return.                           *)
Spec ==
    /\ Init /\ [][Next]_vars
    /\ WF_vars(VariableServices /\ CoreGetNextVariableName)
    /\ WF_vars(DriverServices /\ Step)
=============================================================================
