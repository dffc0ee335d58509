--------------------------- MODULE ProtocolServices ---------------------------
(***************************************************************************)
(* The services on several entries of the protocol database: those that    *)
(* install and uninstall a list of protocols and undo what they did when   *)
(* one of it fails, the searches of Locate.c, and the keys of handles.     *)
(* ProtocolDatabase models a single uninstallation and the drivers that it *)
(* stops; here it succeeds or they refuse.                                 *)
(***************************************************************************)
EXTENDS Integers, Sequences, SequencesExt, FiniteSets

CONSTANTS
    DbHandles,                 \* blocks of the heap that hold handles
    DbProtocols,
    gEfiDevicePathProtocolGuid,
    DevicePaths,               \* each a sequence of nodes
    ProtocolLists,             \* the lists that callers pass
    EqualPaths,                \* whether drivers install a device path that another handle has
    MaxKey, MaxRequests        \* bounds: gHandleDatabaseKey, mEfiLocateHandleRequest

ASSUME DbAssumption ==
    gEfiDevicePathProtocolGuid \in DbProtocols /\ EqualPaths \in BOOLEAN

VARIABLES
    db,                        \* the database
    mEfiLocateHandleRequest,
    status,                    \* of the last call
    located,                   \* the handles it returned
    readKey, changed           \* ghost: the key that a caller read last, and the handles that
                               \* were created or lost a protocol since

dbVars == <<db, mEfiLocateHandleRequest, status, located, readKey, changed>>

(* Protocols are the lists of the handles that carry each, oldest first.   *)
NoHandles ==
    [gHandleList |-> <<>>, Protocols |-> [p \in DbProtocols |-> <<>>],
     path |-> [h \in DbHandles |-> <<>>], Key |-> [h \in DbHandles |-> 0],
     LocateRequest |-> [h \in DbHandles |-> 0], gHandleDatabaseKey |-> 0]

DbInit ==
    /\ db = NoHandles
    /\ mEfiLocateHandleRequest = 0 /\ status = "EFI_SUCCESS" /\ located = <<>>
    /\ readKey = 0 /\ changed = {}

Carries(d, h, p) == Contains(d.Protocols[p], h)
Exists(d, h) == Contains(d.gHandleList, h)

(* The end of CoreInstallProtocolInterface: a handle is created if h is    *)
(* not one.                                                                *)
InstallOn(d, h, p, path) ==
    LET key == IF Exists(d, h) THEN d.gHandleDatabaseKey ELSE d.gHandleDatabaseKey + 1
        old == IF Exists(d, h) THEN d
               ELSE [d EXCEPT !.gHandleList = Append(@, h), !.Key[h] = key, !.LocateRequest[h] = 0]
    IN  [old EXCEPT !.Protocols[p] = Append(@, h),
                    !.path[h] = IF p = gEfiDevicePathProtocolGuid THEN path ELSE @,
                    !.gHandleDatabaseKey = key]

(* mutant: only creation renews the key.                                   *)
UninstallKeepsKey(d, h, p) ==
    LET left == [d EXCEPT !.Protocols[p] = SelectSeq(@, LAMBDA x : x # h)] IN
    IF \E q \in DbProtocols : Carries(left, h, q) THEN left
    ELSE [left EXCEPT !.gHandleList = SelectSeq(@, LAMBDA x : x # h), !.Key[h] = 0, !.path[h] = <<>>]

(* The end of CoreUninstallProtocolInterface: the last protocol takes the  *)
(* handle with it.                                                         *)
UninstallFrom(d, h, p) ==
    LET key == d.gHandleDatabaseKey + 1
        left == [d EXCEPT !.Protocols[p] = SelectSeq(@, LAMBDA x : x # h),
                          !.gHandleDatabaseKey = key, !.Key[h] = key]
    IN  IF \E q \in DbProtocols : Carries(left, h, q) THEN left
        ELSE [left EXCEPT !.gHandleList = SelectSeq(@, LAMBDA x : x # h), !.Key[h] = 0, !.path[h] = <<>>]

-----------------------------------------------------------------------------
(* CoreLocateDevicePath: the handle whose path is the longest prefix.      *)
Matching(d, source) ==
    SelectSeq(d.Protocols[gEfiDevicePathProtocolGuid], LAMBDA h : IsPrefix(d.path[h], source))

BestMatch(d, source) ==
    FoldLeft(LAMBDA best, h :
                 IF best # <<>> /\ Len(d.path[h]) <= Len(d.path[best[1]]) THEN best ELSE <<h>>,
             <<>>, Matching(d, source))

(* ASSERT (Size != BestMatch) ends the process.                            *)
Asserts(d, source) ==
    LET m == Matching(d, source) IN
    \E i \in DOMAIN m :
        LET best == BestMatch([d EXCEPT !.Protocols[gEfiDevicePathProtocolGuid] = SubSeq(m, 1, i - 1)], source)
        IN  best # <<>> /\ Len(d.path[m[i]]) = Len(d.path[best[1]])

(* What is allowed when drivers have device paths of their own.            *)
Distinct(path) ==
    \A h \in Range(db.Protocols[gEfiDevicePathProtocolGuid]) : db.path[h] # path

-----------------------------------------------------------------------------
(* Installing the first protocols of a list, until one is on the handle    *)
(* already or finds no memory.                                             *)
InstallEach(h, list, path, memory) ==
    FoldLeft(LAMBDA run, p :
                 IF run.failed \/ Carries(run.db, h, p) \/ run.done = memory
                 THEN [run EXCEPT !.failed = TRUE]
                 ELSE [run EXCEPT !.db = InstallOn(run.db, h, p, path), !.done = @ + 1],
             [db |-> db, done |-> 0, failed |-> FALSE], list)

(* mutant: the loop ends one too early.                                    *)
UndoneFew(run, list) == SubSeq(list, 1, run.done - 1)

(* The protocols that are undone after a failure.                          *)
Undone(run, list) == SubSeq(list, 1, run.done)

Done(run, after) ==
    /\ db' = IF run.failed THEN after ELSE run.db
    /\ status' = IF run.failed THEN "failed" ELSE "EFI_SUCCESS"
    /\ located' = <<>>
    /\ UNCHANGED <<mEfiLocateHandleRequest, readKey>>

(* The caller gives a handle, or lets one be created.                      *)
CoreInstallMultipleProtocolInterfaces(h, list) ==
    \E path \in DevicePaths, memory \in 0 .. Len(list) :
        /\ gEfiDevicePathProtocolGuid \notin Range(list) => path = <<>>
        /\ ~EqualPaths /\ gEfiDevicePathProtocolGuid \in Range(list) => Distinct(path)
        /\ ~(gEfiDevicePathProtocolGuid \in Range(list) /\ Asserts(db, path))
        /\ db.gHandleDatabaseKey + Len(list) < MaxKey
        /\ LET run == InstallEach(h, list, path, memory)
               after == FoldLeft(LAMBDA d, p : UninstallFrom(d, h, p), run.db, Undone(run, list))
           IN  /\ Done(run, after)
               /\ changed' = IF Exists(db, h) /\ ~(run.failed /\ run.done > 0) THEN changed
                             ELSE (changed \cup {h}) \cap Range(db'.gHandleList)

(* Uninstalling the first of a list, until one is not on the handle or its *)
(* drivers refuse to let go.                                               *)
UninstallEach(h, list, refused) ==
    FoldLeft(LAMBDA run, p :
                 IF run.failed \/ ~Exists(run.db, h) \/ ~Carries(run.db, h, p) \/ run.done + 1 = refused
                 THEN [run EXCEPT !.failed = TRUE]
                 ELSE [run EXCEPT !.db = UninstallFrom(run.db, h, p), !.done = @ + 1],
             [db |-> db, done |-> 0, failed |-> FALSE], list)

CoreUninstallMultipleProtocolInterfaces(h, list) ==
    \E refused \in 0 .. Len(list) :
        /\ Exists(db, h)
        /\ db.gHandleDatabaseKey + Len(list) < MaxKey
        /\ LET run == UninstallEach(h, list, refused)
               Again(d, p) == IF Exists(d, h) THEN InstallOn(d, h, p, db.path[h]) ELSE d
           IN  /\ Done(run, FoldLeft(Again, run.db, Undone(run, list)))
               /\ changed' = IF run.done = 0 THEN changed
                             ELSE (changed \cup {h}) \cap Range(db'.gHandleList)

-----------------------------------------------------------------------------
(* CoreGetNextLocateByProtocol passes the handles by that it has marked    *)
(* with this request; the search returns the handles and marks them.       *)
Unmarked(d, p, request) == SelectSeq(d.Protocols[p], LAMBDA h : d.LocateRequest[h] # request)
Marked(d, hs, request) ==
    [d EXCEPT !.LocateRequest = [h \in DbHandles |-> IF h \in Range(hs) THEN request ELSE @[h]]]

NextRequest == mEfiLocateHandleRequest + 1

CoreLocateHandle(p) ==
    LET found == Unmarked(db, p, NextRequest) IN
    /\ mEfiLocateHandleRequest < MaxRequests
    /\ mEfiLocateHandleRequest' = NextRequest
    /\ located' = found
    /\ status' = IF found = <<>> THEN "EFI_NOT_FOUND" ELSE "EFI_SUCCESS"
    /\ db' = Marked(db, found, NextRequest)
    /\ UNCHANGED <<readKey, changed>>

(* CoreLocateProtocol without a registration, the first interface.         *)
LocateFirst(p) ==
    LET found == Unmarked(db, p, NextRequest) IN
    /\ mEfiLocateHandleRequest < MaxRequests
    /\ mEfiLocateHandleRequest' = NextRequest
    /\ located' = IF found = <<>> THEN <<>> ELSE <<found[1]>>
    /\ status' = IF found = <<>> THEN "EFI_NOT_FOUND" ELSE "EFI_SUCCESS"
    /\ db' = Marked(db, located', NextRequest)
    /\ UNCHANGED <<readKey, changed>>

(* Two searches, for the size and for the handles.                         *)
CoreLocateHandleBuffer(p) ==
    LET first == Unmarked(db, p, NextRequest)
        second == Unmarked(Marked(db, first, NextRequest), p, NextRequest + 1)
    IN  /\ mEfiLocateHandleRequest + 1 < MaxRequests
        /\ mEfiLocateHandleRequest' = NextRequest + (IF first = <<>> THEN 0 ELSE 1)
        /\ located' = IF first = <<>> THEN <<>> ELSE second
        /\ status' = IF first = <<>> THEN "EFI_NOT_FOUND" ELSE "EFI_SUCCESS"
        /\ db' = Marked(db, located', NextRequest + 1)
        /\ UNCHANGED <<readKey, changed>>

-----------------------------------------------------------------------------
CoreGetHandleDatabaseKey ==
    /\ readKey' = db.gHandleDatabaseKey /\ changed' = {}
    /\ status' = "EFI_SUCCESS" /\ located' = <<>>
    /\ UNCHANGED <<db, mEfiLocateHandleRequest>>

(* The handles that it connects.                                           *)
CoreConnectHandlesByKey ==
    /\ located' = SelectSeq(db.gHandleList, LAMBDA h : db.Key[h] > readKey)
    /\ status' = "EFI_SUCCESS"
    /\ UNCHANGED <<db, mEfiLocateHandleRequest, readKey, changed>>

(* The keys that callers read before lose their meaning.                   *)
CoreResetProtocolDatabase ==
    /\ db' = NoHandles
    /\ readKey' = 0 /\ changed' = {}
    /\ status' = "EFI_SUCCESS" /\ located' = <<>>
    /\ UNCHANGED mEfiLocateHandleRequest

DbNext ==
    \/ \E h \in DbHandles, list \in ProtocolLists :
          CoreInstallMultipleProtocolInterfaces(h, list) \/ CoreUninstallMultipleProtocolInterfaces(h, list)
    \/ \E p \in DbProtocols : CoreLocateHandle(p) \/ LocateFirst(p) \/ CoreLocateHandleBuffer(p)
    \/ CoreGetHandleDatabaseKey \/ CoreConnectHandlesByKey \/ CoreResetProtocolDatabase

-----------------------------------------------------------------------------
Installed(d) == {<<h, p>> \in DbHandles \X DbProtocols : Carries(d, h, p)}

(* A list that fails half-way leaves every handle with the protocols it    *)
(* had before: "If any error occures all the protocols added by this       *)
(* function are removed", and those uninstalled are installed again unless *)
(* the handle went with the last of them.                                  *)
FailureUndone ==
    [][status' = "failed" =>
          /\ \A h \in Range(db'.gHandleList), p \in DbProtocols : Carries(db', h, p) <=> Carries(db, h, p)
          /\ Range(db'.gHandleList) \subseteq Range(db.gHandleList)]_dbVars

(* Searches see the whole database however they share the marks on the     *)
(* handles: each handle with the protocol once, and the device with the    *)
(* longest path that begins a given one.                                   *)
SearchesFindAll ==
    [][/\ \A p \in DbProtocols :
              CoreLocateHandle(p) \/ CoreLocateHandleBuffer(p) => located' = db.Protocols[p]
       /\ \A source \in DevicePaths :
              LET m == Range(Matching(db, source))
                  best == BestMatch(db, source)
              IN  IF m = {} THEN best = <<>>
                  ELSE best[1] \in m /\ \A h \in m : Len(db.path[h]) <= Len(db.path[best[1]])]_dbVars

(* Connecting by key finds the handles that were created or lost a         *)
(* protocol since the key was read, "the Key to show that the handle has   *)
(* been created/modified", and no others.                                  *)
KeysTellChanges ==
    {h \in Range(db.gHandleList) : db.Key[h] > readKey} = changed

(* What the services that search answer is the database as it is, for a    *)
(* protocol, a path or a key (Locate.c, CoreConnectHandlesByKey).          *)
SearchesAgree == [][KeysTellChanges']_dbVars /\ SearchesFindAll

(* "If the size is equal to the best match, then we have a duplicate       *)
(* device path for 2 different device handles": the search asserts that    *)
(* there is none.                                                          *)
PathsUnique == \A source \in DevicePaths : ~Asserts(db, source)
=============================================================================
