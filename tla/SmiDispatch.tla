------------------------------ MODULE SmiDispatch ------------------------------
(***************************************************************************)
(* The SMI handlers of SmmServicesTableLibHost.c: SmiManage walks the      *)
(* handlers of one type; the handlers may raise further SMIs and register  *)
(* and unregister handlers, themselves included, before they return.       *)
(***************************************************************************)
EXTENDS Integers, Sequences, SequencesExt, FiniteSets, Lists

CONSTANTS
    HandlerTypes,              \* the GUIDs with handlers
    Root,                      \* a HandlerType of NULL
    StaleHandles,              \* whether callers pass handles that were unregistered before
    MaxHandlers, MaxSmis       \* bounds: registrations, calls of SmiManage

ASSUME SmiAssumption == Root \notin HandlerTypes /\ StaleHandles \in BOOLEAN

VARIABLES
    mRootSmiEntry,             \* the root handlers
    mSmiEntryList,             \* the entries, each with its type and its SmiHandlers
    ToRemove,                  \* the handlers with that flag
    smis,                      \* the running calls of SmiManage, the innermost first;
                               \* mSmiManageCallingDepth is their number
    registered,                \* the handles given out: 1 .. registered
    unregistered,              \* those that a caller has passed to SmiHandlerUnRegister
    raised                     \* the calls of SmiManage made

smiVars == <<mRootSmiEntry, mSmiEntryList, ToRemove, smis, registered, unregistered, raised>>

SmiInit ==
    /\ mRootSmiEntry = <<>> /\ mSmiEntryList = <<>>
    /\ ToRemove = {}
    /\ smis = <<>> /\ registered = 0 /\ unregistered = {} /\ raised = 0

Statuses ==
    {"EFI_SUCCESS", "EFI_INTERRUPT_PENDING", "EFI_WARN_INTERRUPT_SOURCE_QUIESCED",
     "EFI_WARN_INTERRUPT_SOURCE_PENDING", "EFI_DEVICE_ERROR"}

-----------------------------------------------------------------------------
SmmCoreFindSmiEntry(type) == {i \in DOMAIN mSmiEntryList : mSmiEntryList[i].type = type}

HandlersOf(type) ==
    IF type = Root THEN mRootSmiEntry
    ELSE LET found == SmmCoreFindSmiEntry(type)
         IN  IF found = {} THEN <<>> ELSE mSmiEntryList[CHOOSE i \in found : TRUE].handlers

(* The handlers that are registered, of all types.                         *)
Linked == Range(mRootSmiEntry) \cup UNION {Range(mSmiEntryList[i].handlers) : i \in DOMAIN mSmiEntryList}

(* RemoveSmiHandler on a set of handlers, and the entries without any.     *)
RemoveSmiHandlers(handlers) ==
    /\ mRootSmiEntry' = Without(mRootSmiEntry, handlers)
    /\ mSmiEntryList' =
           Without([i \in DOMAIN mSmiEntryList |->
                       [mSmiEntryList[i] EXCEPT !.handlers = Without(@, handlers)]],
                   [type : HandlerTypes, handlers : {<<>>}])
    /\ ToRemove' = ToRemove \ handlers

(* The handler that a walk calls after handler h.                          *)
NextHandler(list, h) ==
    LET i == SelectInSeq(list, LAMBDA x : x = h) IN IF i = Len(list) THEN 0 ELSE list[i + 1]

(* What one status makes of ReturnStatus.                                  *)
ReturnStatus(type, before, status) ==
    CASE status \in {"EFI_SUCCESS", "EFI_WARN_INTERRUPT_SOURCE_QUIESCED"} -> "EFI_SUCCESS"
      [] status = "EFI_INTERRUPT_PENDING" ->
            IF type = Root /\ before = "EFI_SUCCESS" THEN before ELSE status
      [] status = "EFI_WARN_INTERRUPT_SOURCE_PENDING" ->
            IF before = "EFI_SUCCESS" THEN before ELSE status
      [] OTHER -> before

WillReturn(type, status) == type # Root /\ status \in {"EFI_SUCCESS", "EFI_INTERRUPT_PENDING"}

-----------------------------------------------------------------------------
(* Callers are outside SMM, or handlers.  A walk that has ended stands at  *)
(* handler 0; one of a type without handlers ends at once.                 *)
InHandler == \A k \in DOMAIN smis : k = 1 => smis[k].at # 0

SmiManage ==
    \E type \in HandlerTypes \cup {Root} :
        /\ InHandler /\ raised < MaxSmis /\ raised' = raised + 1
        /\ smis' = <<[type |-> type, statuses |-> {}, status |-> "EFI_NOT_FOUND",
                      at |-> IF HandlersOf(type) = <<>> THEN 0 ELSE Head(HandlersOf(type))]>> \o smis
        /\ UNCHANGED <<mRootSmiEntry, mSmiEntryList, ToRemove, registered, unregistered>>

HandlerReturns ==
    \E status \in Statuses :
        /\ smis # <<>> /\ Head(smis).at # 0
        /\ LET smi == Head(smis) IN
           smis' = <<[smi EXCEPT
                        !.statuses = @ \cup {status},
                        !.status = ReturnStatus(smi.type, @, status),
                        !.at = IF WillReturn(smi.type, status) THEN 0
                               ELSE NextHandler(HandlersOf(smi.type), @)]>> \o Tail(smis)
        /\ UNCHANGED <<mRootSmiEntry, mSmiEntryList, ToRemove, registered, unregistered, raised>>

(* The end of the outermost walk removes what was marked.                  *)
SmiManageReturns ==
    /\ smis # <<>> /\ Head(smis).at = 0
    /\ smis' = Tail(smis)
    /\ IF Tail(smis) = <<>> THEN RemoveSmiHandlers(ToRemove)
       ELSE UNCHANGED <<mRootSmiEntry, mSmiEntryList, ToRemove>>
    /\ UNCHANGED <<registered, unregistered, raised>>

SmiHandlerRegister ==
    \E type \in HandlerTypes \cup {Root} :
        /\ InHandler /\ registered < MaxHandlers /\ registered' = registered + 1
        /\ LET found == SmmCoreFindSmiEntry(type) IN
           IF type = Root THEN
               mRootSmiEntry' = Append(mRootSmiEntry, registered') /\ UNCHANGED mSmiEntryList
           ELSE /\ mSmiEntryList' =
                     IF found = {} THEN Append(mSmiEntryList, [type |-> type, handlers |-> <<registered'>>])
                     ELSE [mSmiEntryList EXCEPT ![CHOOSE i \in found : TRUE].handlers = Append(@, registered')]
                /\ UNCHANGED mRootSmiEntry
        /\ UNCHANGED <<ToRemove, smis, unregistered, raised>>

(* The handler at which the two searches stop: the one with the handle, or *)
(* else the last one that they looked at.  (No entry is without handlers.) *)
Searched(handle) ==
    IF handle \in Linked THEN handle
    ELSE IF mSmiEntryList # <<>> THEN Last(Last(mSmiEntryList).handlers)
    ELSE IF mRootSmiEntry # <<>> THEN Last(mRootSmiEntry) ELSE 0

(* mutant: a handler is removed although a walk is under way.              *)
UnregisterNow ==
    \E handle \in 1 .. registered :
        /\ InHandler /\ (handle \in unregistered => StaleHandles)
        /\ unregistered' = unregistered \cup {handle}
        /\ IF Searched(handle) = 0 THEN UNCHANGED <<mRootSmiEntry, mSmiEntryList, ToRemove>>
           ELSE RemoveSmiHandlers({Searched(handle)})
        /\ UNCHANGED <<smis, registered, raised>>

SmiHandlerUnRegister ==
    \E handle \in 1 .. registered :
        /\ InHandler /\ (handle \in unregistered => StaleHandles)
        /\ unregistered' = unregistered \cup {handle}
        /\ IF Searched(handle) = 0 THEN UNCHANGED <<mRootSmiEntry, mSmiEntryList, ToRemove>>
           ELSE IF smis # <<>> THEN
               ToRemove' = ToRemove \cup {Searched(handle)} /\ UNCHANGED <<mRootSmiEntry, mSmiEntryList>>
           ELSE RemoveSmiHandlers({Searched(handle)})
        /\ UNCHANGED <<smis, registered, raised>>

SmiNext == SmiManage \/ HandlerReturns \/ SmiManageReturns \/ SmiHandlerRegister \/ SmiHandlerUnRegister

SmiSpec == SmiInit /\ [][SmiNext]_smiVars

-----------------------------------------------------------------------------
(* SmiHandlerUnRegister removes the handler of its DispatchHandle and no   *)
(* other: a handler that nobody unregistered stays in the database and     *)
(* unmarked.  "@retval EFI_INVALID_PARAMETER DispatchHandle is NULL or not *)
(* found" promises it for handles that are no longer registered too.       *)
OthersStay ==
    \A h \in (1 .. registered) \ unregistered : h \in Linked /\ h \notin ToRemove

(* "Deferred handler removal is processed when the outermost SmiManage     *)
(* returns": outside SMM no unregistered handler and no empty entry is     *)
(* left, and inside none that a running walk stands on has been freed.     *)
RemovalDeferred ==
    /\ smis = <<>> => /\ Linked \cap (unregistered \cup ToRemove) = {}
                      /\ \A i \in DOMAIN mSmiEntryList : mSmiEntryList[i].handlers # <<>>
    /\ \A k \in DOMAIN smis :
          smis[k].at # 0 => Contains(HandlersOf(smis[k].type), smis[k].at)

(* The statuses that SmiManage documents, whatever nested SMIs do: it      *)
(* succeeds only if a handler did and a root SMI always then, for one type *)
(* the handler that stops the walk decides, and EFI_NOT_FOUND is left for  *)
(* walks in which no handler took the interrupt.                           *)
ReturnsAsDocumented ==
    \A k \in DOMAIN smis :
        LET smi == smis[k]
            quiet == smi.statuses \cap {"EFI_SUCCESS", "EFI_WARN_INTERRUPT_SOURCE_QUIESCED"} # {}
        IN  /\ smi.status = "EFI_SUCCESS" => quiet
            /\ smi.type = Root /\ quiet => smi.status = "EFI_SUCCESS"
            /\ smi.type # Root /\ "EFI_INTERRUPT_PENDING" \in smi.statuses =>
                   smi.at = 0 /\ smi.status = "EFI_INTERRUPT_PENDING"
            /\ smi.status = "EFI_NOT_FOUND" <=> smi.statuses \subseteq {"EFI_DEVICE_ERROR"}

(* Handlers come and go while SMIs are dispatched and nested: who is not   *)
(* unregistered stays, who is goes when no walk can stand on it, and the   *)
(* status tells what the handlers answered.                                *)
SmisDispatched == OthersStay /\ RemovalDeferred /\ ReturnsAsDocumented
=============================================================================
