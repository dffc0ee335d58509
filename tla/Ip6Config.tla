------------------------------ MODULE Ip6Config ------------------------------
(***************************************************************************)
(* The mock of the IPv6 configuration protocol: its data, and the table of *)
(* the events that are signalled, later and through MockDeferredSchedule,  *)
(* when data of their type is set.                                         *)
(***************************************************************************)
EXTENDS Integers, Sequences, SequencesExt, FiniteSets

CONSTANTS
    DataTypes,             \* the types of data that may be set
    Required,              \* those of them that are never absent
    Listeners,             \* the events of drivers
    MAX_DATA_NOTIFY_REGISTRATIONS,
    NotInUse,              \* an entry of the table with InUse FALSE
    MaxNotices             \* bound: the notices scheduled at a time

ASSUME ConfigDataAssumption ==
    /\ Required \subseteq DataTypes /\ MAX_DATA_NOTIFY_REGISTRATIONS \in Nat \ {0}
    /\ NotInUse \notin DataTypes \X Listeners

VARIABLES
    present,               \* the types whose data is set
    mNotifyTable,
    notices,               \* the events scheduled
    subscriptions          \* the pairs of a type and an event that their drivers count on

ip6ConfigVars == <<present, mNotifyTable, notices, subscriptions>>

Slots == 1 .. MAX_DATA_NOTIFY_REGISTRATIONS
Unused == {i \in Slots : mNotifyTable[i] = NotInUse}
Lowest(slots) == CHOOSE i \in slots : \A j \in slots : i <= j

Ip6ConfigInit ==
    /\ present = Required /\ notices = <<>>
    /\ mNotifyTable = [i \in Slots |-> NotInUse]
    /\ subscriptions = {}

-----------------------------------------------------------------------------
(* The events that SignalNotifyEvents schedules, in the table's order.     *)
SignalNotifyEvents(type) ==
    LET entries == SelectSeq([i \in Slots |-> mNotifyTable[i]], LAMBDA e : e # NotInUse)
        told == SelectSeq(entries, LAMBDA e : e[1] = type)
    IN  [i \in DOMAIN told |-> told[i][2]]

SetData(type) ==
    /\ Len(notices) + Cardinality({i \in Slots : mNotifyTable[i] # NotInUse}) <= MaxNotices
    /\ present' = present \cup {type}
    /\ notices' = notices \o SignalNotifyEvents(type)
    /\ UNCHANGED <<mNotifyTable, subscriptions>>

(* Data of size 0 makes what may be absent so, and tells nobody.           *)
ClearData(type) ==
    /\ type \notin Required
    /\ present' = present \ {type}
    /\ UNCHANGED <<mNotifyTable, notices, subscriptions>>

RegisterStatus(type, event) ==
    IF \E i \in Slots : mNotifyTable[i] = <<type, event>> THEN "EFI_ACCESS_DENIED"
    ELSE IF Unused = {} THEN "EFI_OUT_OF_RESOURCES" ELSE "EFI_SUCCESS"

RegisterDataNotify(type, event) ==
    /\ RegisterStatus(type, event) = "EFI_SUCCESS"
    /\ mNotifyTable' = [mNotifyTable EXCEPT ![Lowest(Unused)] = <<type, event>>]
    /\ subscriptions' = subscriptions \cup {<<type, event>>}
    /\ UNCHANGED <<present, notices>>

(* What has been scheduled for the event stays scheduled.                  *)
UnregisterDataNotify(type, event) ==
    LET found == {i \in Slots : mNotifyTable[i] = <<type, event>>} IN
    /\ found # {}
    /\ mNotifyTable' = [mNotifyTable EXCEPT ![Lowest(found)] = NotInUse]
    /\ subscriptions' = subscriptions \ {<<type, event>>}
    /\ UNCHANGED <<present, notices>>

DeliverNotice ==
    /\ notices # <<>> /\ notices' = Tail(notices)
    /\ UNCHANGED <<present, mNotifyTable, subscriptions>>

(* ResetState.                                                             *)
ResetIp6Config ==
    /\ present' = Required /\ notices' = <<>>
    /\ mNotifyTable' = [i \in Slots |-> NotInUse]
    /\ subscriptions' = {}

Ip6ConfigNext ==
    \/ \E type \in DataTypes : SetData(type) \/ ClearData(type)
    \/ \E type \in DataTypes, event \in Listeners :
          RegisterDataNotify(type, event) \/ UnregisterDataNotify(type, event)
    \/ DeliverNotice \/ ResetIp6Config

Ip6ConfigSpec == Ip6ConfigInit /\ [][Ip6ConfigNext]_ip6ConfigVars

-----------------------------------------------------------------------------
(* The table with its holes is the set of the subscriptions: an event is   *)
(* told once of each change of a type that it is registered for and of no  *)
(* other, after any registrations and unregistrations, and there is room   *)
(* for as many as the table has entries.                                   *)
TableIsSubscriptions ==
    /\ {mNotifyTable[i] : i \in Slots \ Unused} = subscriptions
    /\ Cardinality(subscriptions) + Cardinality(Unused) = MAX_DATA_NOTIFY_REGISTRATIONS
=============================================================================
