----------------------------- MODULE SmmProtocols -----------------------------
(***************************************************************************)
(* The SMM protocol database: Handle.c, Locate.c and Notify.c of           *)
(* SmmServicesTableLibHost.  An installation calls the notify functions of *)
(* its protocol before it returns; they may call every service, so         *)
(* announcements nest.                                                     *)
(*                                                                         *)
(* Handles, interfaces and registrations get new names.  A notify function *)
(* frees neither the interface being announced nor the registration it is  *)
(* called for: the walk uses both after it returns.                        *)
(***************************************************************************)
EXTENDS Integers, SequencesExt, FiniteSets

CONSTANTS
    SmmProtocolIds,            \* the GUIDs
    SmmFunctions,              \* the notify functions
    ListHead,                  \* the head of a list of interfaces
    MaxSmmInterfaces, MaxSmmRegistrations, MaxLocates   \* bounds

ASSUME SmmAssumption == ListHead \notin Nat

VARIABLES
    gSmmHandleList,
    smmInterfaces,             \* the interfaces, each with its handle and protocol
    byHandle,                  \* the list Protocols of each handle
    byProtocol,                \* the list Protocols of each entry of mSmmProtocolDatabase
    notifyList,                \* the list Notify of each entry
    registrations,             \* the registrations, each with its function and Position
    announcing,                \* the running SmmNotifyProtocol calls, the innermost first
    locates,                   \* the calls of SmmLocateProtocol with a registration
    heard,                     \* for each registration the interfaces it was called for
    unseen                     \* and those installed since that it has not located

smmVars == <<gSmmHandleList, smmInterfaces, byHandle, byProtocol, notifyList, registrations,
             announcing, locates, heard, unseen>>
handleVars == <<gSmmHandleList, smmInterfaces, byHandle, byProtocol>>
registrationVars == <<notifyList, registrations, heard, unseen>>

SmmInit ==
    /\ gSmmHandleList = <<>> /\ smmInterfaces = <<>> /\ byHandle = <<>>
    /\ byProtocol = [p \in SmmProtocolIds |-> <<>>]
    /\ notifyList = [p \in SmmProtocolIds |-> <<>>]
    /\ registrations = <<>> /\ announcing = <<>> /\ locates = 0
    /\ heard = <<>> /\ unseen = <<>>

-----------------------------------------------------------------------------
(* SmmGetProtocolInterface, SmmFindProtocolInterface                       *)
InterfacesOf(h, p) == {i \in Range(byHandle[h]) : smmInterfaces[i].protocol = p}

(* SmmValidateHandle: the signature of a freed handle is cleared.          *)
ValidHandle(h) == Contains(gSmmHandleList, h)

(* SmmNotifyProtocol calls the function after registration r, or the first *)
(* one, for an interface; the list is read as it is now.                   *)
FunctionAfter(list, r) ==
    LET i == IF r = 0 THEN 0 ELSE SelectInSeq(list, LAMBDA x : x = r)
    IN  IF i = Len(list) THEN 0 ELSE list[i + 1]

(* mutant: an announcement inside another one is skipped.                  *)
AnnounceUnnested(i, r, under) ==
    LET next == FunctionAfter(notifyList[smmInterfaces'[i].protocol], r) IN
    IF next = 0 \/ under # <<>> THEN announcing' = under /\ UNCHANGED heard
    ELSE /\ announcing' = <<[interface |-> i, at |-> next]>> \o under
         /\ heard' = [heard EXCEPT ![next] = Append(@, i)]

Announce(i, r, under) ==
    LET next == FunctionAfter(notifyList[smmInterfaces'[i].protocol], r) IN
    IF next = 0 THEN announcing' = under /\ UNCHANGED heard
    ELSE /\ announcing' = <<[interface |-> i, at |-> next]>> \o under
         /\ heard' = [heard EXCEPT ![next] = Append(@, i)]

SmmInstallProtocolInterface ==
    \E p \in SmmProtocolIds, h \in 1 .. Len(byHandle) + 1 :
        LET i == Len(smmInterfaces) + 1
            new == h = Len(byHandle) + 1
        IN  /\ i <= MaxSmmInterfaces
            /\ new \/ (ValidHandle(h) /\ InterfacesOf(h, p) = {})
            /\ gSmmHandleList' = IF new THEN Append(gSmmHandleList, h) ELSE gSmmHandleList
            /\ smmInterfaces' = Append(smmInterfaces, [handle |-> h, protocol |-> p])
            /\ byHandle' = IF new THEN Append(byHandle, <<i>>) ELSE [byHandle EXCEPT ![h] = <<i>> \o @]
            /\ byProtocol' = [byProtocol EXCEPT ![p] = Append(@, i)]
            /\ Announce(i, 0, announcing)
            /\ unseen' = [r \in DOMAIN unseen |->
                            IF Contains(notifyList[p], r) THEN Append(unseen[r], i) ELSE unseen[r]]
            /\ UNCHANGED <<notifyList, registrations, locates>>

NotifyFunctionReturns ==
    /\ announcing # <<>>
    /\ UNCHANGED <<handleVars, notifyList, registrations, locates, unseen>>
    /\ Announce(Head(announcing).interface, Head(announcing).at, Tail(announcing))

BackLink(list, i) ==
    LET k == SelectInSeq(list, LAMBDA x : x = i) IN IF k = 1 THEN ListHead ELSE list[k - 1]

SmmRemoveInterfaceFromProtocol(i, p) ==
    /\ registrations' = [r \in DOMAIN registrations |->
                           IF Contains(notifyList[p], r) /\ registrations[r].Position = i
                           THEN [registrations[r] EXCEPT !.Position = BackLink(byProtocol[p], i)]
                           ELSE registrations[r]]
    /\ byProtocol' = [byProtocol EXCEPT ![p] = RemoveFirst(@, i)]

(* The last interface takes the handle with it.                            *)
SmmUninstallProtocolInterface ==
    \E h \in Range(gSmmHandleList) : \E i \in Range(byHandle[h]) :
        /\ \A k \in DOMAIN announcing : announcing[k].interface # i
        /\ SmmRemoveInterfaceFromProtocol(i, smmInterfaces[i].protocol)
        /\ byHandle' = [byHandle EXCEPT ![h] = RemoveFirst(@, i)]
        /\ gSmmHandleList' = IF byHandle[h] = <<i>> THEN RemoveFirst(gSmmHandleList, h) ELSE gSmmHandleList
        /\ unseen' = [r \in DOMAIN unseen |-> RemoveFirst(unseen[r], i)]
        /\ UNCHANGED <<smmInterfaces, notifyList, announcing, locates, heard>>

(* A function that is registered already gets the same registration;       *)
(* otherwise the interfaces installed so far are behind its Position.      *)
SmmRegisterProtocolNotify ==
    \E p \in SmmProtocolIds, function \in SmmFunctions :
        LET r == Len(registrations) + 1 IN
        /\ r <= MaxSmmRegistrations
        /\ \A x \in Range(notifyList[p]) : registrations[x].function # function
        /\ registrations' = Append(registrations,
                              [function |-> function,
                               Position |-> IF byProtocol[p] = <<>> THEN ListHead ELSE Last(byProtocol[p])])
        /\ notifyList' = [notifyList EXCEPT ![p] = Append(@, r)]
        /\ heard' = Append(heard, <<>>) /\ unseen' = Append(unseen, <<>>)
        /\ UNCHANGED <<handleVars, announcing, locates>>

(* A Function of NULL.                                                     *)
SmmUnregisterProtocolNotify ==
    \E p \in SmmProtocolIds : \E r \in Range(notifyList[p]) :
        /\ \A k \in DOMAIN announcing : announcing[k].at # r
        /\ notifyList' = [notifyList EXCEPT ![p] = RemoveFirst(@, r)]
        /\ UNCHANGED <<handleVars, registrations, announcing, locates, heard, unseen>>

(* SmmGetNextLocateByRegisterNotify                                        *)
ByRegisterNotify(p, r) ==
    LET list == byProtocol[p]
        at == registrations[r].Position
        k == IF at = ListHead THEN 0 ELSE SelectInSeq(list, LAMBDA x : x = at)
    IN  IF k = Len(list) THEN 0 ELSE list[k + 1]

(* SmmLocateHandle by protocol: each handle is stamped with the request    *)
(* and taken once.                                                         *)
ByProtocol(p) ==
    LET take[k \in 0 .. Len(byProtocol[p])] ==
            IF k = 0 THEN <<>>
            ELSE LET h == smmInterfaces[byProtocol[p][k]].handle
                 IN  IF Contains(take[k - 1], h) THEN take[k - 1] ELSE Append(take[k - 1], h)
    IN  take[Len(byProtocol[p])]

SmmLocateHandle(SearchType, p, r, room) ==
    LET found == CASE SearchType = "AllHandles" -> gSmmHandleList
                   [] SearchType = "ByProtocol" -> ByProtocol(p)
                   [] SearchType = "ByRegisterNotify" ->
                         IF ByRegisterNotify(p, r) = 0 THEN <<>>
                         ELSE <<smmInterfaces[ByRegisterNotify(p, r)].handle>>
    IN  [size |-> Len(found),
         handles |-> SubSeq(found, 1, IF room < Len(found) THEN room ELSE Len(found)),
         status |-> IF found = <<>> THEN "EFI_NOT_FOUND"
                    ELSE IF Len(found) > room THEN "EFI_BUFFER_TOO_SMALL" ELSE "EFI_SUCCESS"]

(* Asks for the size, then for the handles.                                *)
SmmLocateHandleBuffer(SearchType, p, r) ==
    LET asked == SmmLocateHandle(SearchType, p, r, 0)
    IN  IF asked.status # "EFI_BUFFER_TOO_SMALL" THEN asked
        ELSE SmmLocateHandle(SearchType, p, r, asked.size)

(* SmmLocateProtocol with a registration; SmmLocateHandle moves Position   *)
(* alike, unless the buffer was too small.                                 *)
SmmLocateByRegistration ==
    \E p \in SmmProtocolIds : \E r \in Range(notifyList[p]) :
        /\ locates < MaxLocates /\ locates' = locates + 1
        /\ SmmLocateHandleBuffer("ByRegisterNotify", p, r).status = "EFI_SUCCESS"
        /\ registrations' = [registrations EXCEPT ![r].Position = ByRegisterNotify(p, r)]
        /\ unseen' = [unseen EXCEPT ![r] = RemoveFirst(@, ByRegisterNotify(p, r))]
        /\ UNCHANGED <<handleVars, notifyList, announcing, heard>>

SmmNext ==
    \/ SmmInstallProtocolInterface \/ NotifyFunctionReturns \/ SmmUninstallProtocolInterface
    \/ SmmRegisterProtocolNotify \/ SmmUnregisterProtocolNotify \/ SmmLocateByRegistration

SmmSpec == SmmInit /\ [][SmmNext]_smmVars

-----------------------------------------------------------------------------
(* The two views of the database agree: a handle is located by a protocol  *)
(* exactly when it carries it and is listed while it carries anything; and *)
(* a registration yields each interface installed after it once, oldest    *)
(* first, whatever is uninstalled in between: what lies behind its         *)
(* Position is what it has not returned yet.                               *)
LocatesInstalled ==
    /\ \A p \in SmmProtocolIds :
          LET located == SmmLocateHandleBuffer("ByProtocol", p, 0).handles IN
          /\ Range(located) = {h \in Range(SmmLocateHandleBuffer("AllHandles", p, 0).handles) :
                                  InterfacesOf(h, p) # {}}
          /\ Len(located) = Len(byProtocol[p])
    /\ \A h \in DOMAIN byHandle : ValidHandle(h) <=> byHandle[h] # <<>>
    /\ \A p \in SmmProtocolIds : \A r \in Range(notifyList[p]) :
          LET list == byProtocol[p]
              at == registrations[r].Position
          IN  /\ at = ListHead \/ Contains(list, at)
              /\ unseen[r] = SubSeq(list, 1 + (IF at = ListHead THEN 0 ELSE SelectInSeq(list, LAMBDA x : x = at)),
                                    Len(list))

(* A notify function hears once of every interface that is installed while *)
(* it is registered, when the outermost installation has returned; one     *)
(* registered during an announcement hears of that interface too.          *)
HearsEach ==
    \A p \in SmmProtocolIds : \A r \in Range(notifyList[p]) :
        /\ \A k, l \in DOMAIN heard[r] : heard[r][k] = heard[r][l] => k = l
        /\ announcing = <<>> => Range(unseen[r]) \subseteq Range(heard[r])

(* An interface is found and announced, however installations, removals    *)
(* and registrations interleave with notify functions.                     *)
InterfacesTold == LocatesInstalled /\ HearsEach
=============================================================================
