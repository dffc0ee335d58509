-------------------------- MODULE ConfigurationTable --------------------------
(***************************************************************************)
(* InstallConfigurationTable of the boot services, an array of fixed size  *)
(* that the system table points to, and of the SMM services, an array that *)
(* is replaced by a larger one when it is full.                            *)
(***************************************************************************)
EXTENDS Integers, Sequences, SequencesExt

CONSTANTS
    Vendors, Tables, NoTable,  \* the GUIDs, the tables, NULL
    MAX_CONFIG_TABLE_ENTRIES, CONFIG_TABLE_SIZE_INCREASED,
    PoolEmpties                \* whether AllocatePool may fail

ASSUME ConfigAssumption ==
    /\ NoTable \notin Tables
    /\ {MAX_CONFIG_TABLE_ENTRIES, CONFIG_TABLE_SIZE_INCREASED} \subseteq Nat \ {0}
    /\ PoolEmpties \in BOOLEAN

VARIABLES
    mConfigTable,              \* the entries up to mConfigTableCount
    gST,                       \* NumberOfTableEntries, and whether ConfigurationTable is set
    smmTable,                  \* SmmConfigurationTable up to NumberOfTableEntries
    smmRoom,                   \* the entries that fit in its memory
    allocateSize,              \* mSmmSystemTableAllocateSize, in entries
    latest                     \* history: the tables by service and GUID

configVars == <<mConfigTable, gST, smmTable, smmRoom, allocateSize, latest>>

ConfigInit ==
    /\ mConfigTable = <<>> /\ gST = [entries |-> 0, set |-> FALSE]
    /\ smmTable = <<>> /\ smmRoom = 0 /\ allocateSize = 0
    /\ latest = [service \in {"boot", "smm"} |-> [guid \in Vendors |-> NoTable]]

-----------------------------------------------------------------------------
IndexOf(table, guid) == SelectInSeq(table, LAMBDA entry : entry[1] = guid)

(* mutant: the entry that takes the place of the removed one is lost.      *)
ReplacedShort(table, guid, new) ==
    IF new = NoTable THEN SubSeq(table, 1, IndexOf(table, guid) - 1)
    ELSE [table EXCEPT ![IndexOf(table, guid)] = <<guid, new>>]

(* Both services replace and remove alike: the rest moves down.            *)
Replaced(table, guid, new) ==
    IF new = NoTable THEN RemoveAt(table, IndexOf(table, guid))
    ELSE [table EXCEPT ![IndexOf(table, guid)] = <<guid, new>>]

Record(service, guid, new) == latest' = [latest EXCEPT ![service][guid] = new]

CoreInstallConfigurationTable ==
    \E guid \in Vendors, new \in Tables \cup {NoTable} :
        /\ IF IndexOf(mConfigTable, guid) # 0 THEN
               /\ mConfigTable' = Replaced(mConfigTable, guid, new)
               /\ gST' = [entries |-> Len(mConfigTable'), set |-> mConfigTable' # <<>>]
               /\ Record("boot", guid, new)
           ELSE /\ new # NoTable /\ Len(mConfigTable) < MAX_CONFIG_TABLE_ENTRIES
                /\ mConfigTable' = Append(mConfigTable, <<guid, new>>)
                /\ gST' = [entries |-> Len(mConfigTable'), set |-> TRUE]
                /\ Record("boot", guid, new)
        /\ UNCHANGED <<smmTable, smmRoom, allocateSize>>

(* The size counts as allocated before the allocation is tried.            *)
Full == Len(smmTable) >= allocateSize

SmmInstallConfigurationTable ==
    \E guid \in Vendors, new \in Tables \cup {NoTable} :
        /\ \/ /\ IndexOf(smmTable, guid) # 0
              /\ smmTable' = Replaced(smmTable, guid, new)
              /\ Record("smm", guid, new)
              /\ UNCHANGED <<smmRoom, allocateSize>>
           \/ /\ IndexOf(smmTable, guid) = 0 /\ new # NoTable
              /\ smmTable' = Append(smmTable, <<guid, new>>)
              /\ Record("smm", guid, new)
              /\ IF Full THEN /\ allocateSize' = allocateSize + CONFIG_TABLE_SIZE_INCREASED
                              /\ smmRoom' = allocateSize'
                 ELSE UNCHANGED <<smmRoom, allocateSize>>
           \/ /\ IndexOf(smmTable, guid) = 0 /\ new # NoTable /\ Full /\ PoolEmpties
              /\ allocateSize' = allocateSize + CONFIG_TABLE_SIZE_INCREASED
              /\ UNCHANGED <<smmTable, smmRoom, latest>>
        /\ UNCHANGED <<mConfigTable, gST>>

ConfigNext == CoreInstallConfigurationTable \/ SmmInstallConfigurationTable

ConfigSpec == ConfigInit /\ [][ConfigNext]_configVars

-----------------------------------------------------------------------------
(* Both tables are maps from GUIDs to the table last installed, in memory  *)
(* of their own, whatever is installed, replaced and removed in between,   *)
(* and the system table always describes the array as it is.  (With an     *)
(* allocator that fails the SMM table outgrows its memory: the next call   *)
(* believes in the size that could not be allocated.)                      *)
TablesAreMaps ==
    /\ \A service \in {"boot", "smm"}, guid \in Vendors :
          LET table == IF service = "boot" THEN mConfigTable ELSE smmTable
              places == {i \in DOMAIN table : table[i][1] = guid}
          IN  IF latest[service][guid] = NoTable THEN places = {}
              ELSE \E i \in DOMAIN table : places = {i} /\ table[i] = <<guid, latest[service][guid]>>
    /\ gST = [entries |-> Len(mConfigTable), set |-> mConfigTable # <<>>]
    /\ Len(mConfigTable) <= MAX_CONFIG_TABLE_ENTRIES
    /\ Len(smmTable) <= smmRoom
=============================================================================
