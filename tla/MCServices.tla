------------------------------ MODULE MCServices ------------------------------
(* Instances of services and mocks that are independent of each other: one *)
(* behavior exercises one of them.                                         *)
EXTENDS PpiDatabase, HobList, SmiDispatch, SmmProtocols, ConfigurationTable, Ip6Config, SimpleNetwork,
        DatagramMocks
VARIABLE service
MCGuid == [d \in {"ppi 1", "ppi 2", "ppi 3", "callback 1", "callback 2", "dispatch 1", "dispatch 2",
                  "bad ppi", "bad notify"} |-> IF d \in {"ppi 3", "dispatch 2"} THEN "q" ELSE "p"]
MCPpiLists == {<<"ppi 1">>, <<"ppi 3", "ppi 2">>, <<"ppi 2", "bad ppi">>}
MCNotifyLists == {<<"callback 1">>, <<"callback 2", "dispatch 1">>, <<"dispatch 2">>,
                  <<"callback 1", "bad notify">>}
MCReinstalls == {<<"ppi 1", "ppi 2">>, <<"ppi 2", "bad ppi">>}
MCSize == [type \in {"GUID_EXTENSION", "MEMORY_ALLOCATION", "CPU"} |-> IF type = "CPU" THEN 2 ELSE 3]
coreVars == <<ppiVars, hobVars, smiVars, smmVars, configVars>>
netVars == <<ip6ConfigVars, snpVars, mockVars>>
vars == <<service, coreVars, netVars>>
Init ==
    /\ service \in {"PPIs", "HOBs", "SMIs", "SMM protocols", "configuration tables",
                    "IPv6 configuration", "simple network", "datagrams"}
    /\ PpiInit /\ HobInit /\ SmiInit /\ SmmInit /\ ConfigInit
    /\ Ip6ConfigInit /\ SnpInit
    /\ MocksInit /\ (service = "datagrams" \/ pool = MockFuzzContextInit(0))
Ppis ==
    /\ service = "PPIs" /\ PpiNext
    /\ UNCHANGED <<service, hobVars, smiVars, smmVars, configVars, netVars>>
Hobs ==
    /\ service = "HOBs" /\ HobNext
    /\ UNCHANGED <<service, ppiVars, smiVars, smmVars, configVars, netVars>>
Smis ==
    /\ service = "SMIs" /\ SmiNext
    /\ UNCHANGED <<service, ppiVars, hobVars, smmVars, configVars, netVars>>
SmmProtocolServices ==
    /\ service = "SMM protocols" /\ SmmNext
    /\ UNCHANGED <<service, ppiVars, hobVars, smiVars, configVars, netVars>>
ConfigurationTables ==
    /\ service = "configuration tables" /\ ConfigNext
    /\ UNCHANGED <<service, ppiVars, hobVars, smiVars, smmVars, netVars>>
Ip6Configuration ==
    /\ service = "IPv6 configuration" /\ Ip6ConfigNext
    /\ UNCHANGED <<service, coreVars, snpVars, mockVars>>
Networks ==
    /\ service = "simple network" /\ SnpNext
    /\ UNCHANGED <<service, coreVars, ip6ConfigVars, mockVars>>
Datagrams ==
    /\ service = "datagrams" /\ MocksNext
    /\ UNCHANGED <<service, coreVars, ip6ConfigVars, snpVars>>
Next ==
    \/ Ppis \/ Hobs \/ Smis \/ SmmProtocolServices \/ ConfigurationTables
    \/ Ip6Configuration \/ Networks \/ Datagrams
Spec == Init /\ [][Next]_vars

(* Arrays with holes that are filled and emptied in any order stay the map *)
(* and the set they stand for: the configuration tables of the system and  *)
(* of SMM, and the data notifications of the IPv6 configuration.           *)
TablesAgree == TablesAreMaps /\ TableIsSubscriptions
===============================================================================
