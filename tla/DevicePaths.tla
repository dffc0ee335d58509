---------------------------- MODULE DevicePaths ----------------------------
(***************************************************************************)
(* The device paths of UefiDevicePathLibHost.  A path is the sequence of   *)
(* the nodes in memory from a pointer on; a pointer into it is its rest.   *)
(* Of a node only the header counts, and whether its last character is NUL *)
(* (closed), which a file name must end with.  alloc tells, of the         *)
(* allocations of a call in order, which succeed.  Every temporary buffer  *)
(* is freed before the call returns and is left out.                       *)
(***************************************************************************)
EXTENDS Integers, Sequences, FiniteSetsExt, SequencesExt

CONSTANTS
    NoPath,                         \* the NULL pointer
    MaxPathSize,                    \* MAX_UINTN, scaled down
    PcdMaximumDevicePathNodeCount   \* 0 for no limit

ASSUME PathAssumption ==
    /\ MaxPathSize \in Nat \ 0..3
    /\ PcdMaximumDevicePathNodeCount \in Nat

EndType == 127      EntireEnd == 255    InstanceEnd == 1
MediaType == 4      FilePathSubType == 4
HeaderSize == 4     \* of every node, and all there is of an end

DevicePathType(node) == node.type
DevicePathSubType(node) == node.subtype
DevicePathNodeLength(node) == node.length
NextDevicePathNode(path) == Tail(path)
IsDevicePathEndType(node) == DevicePathType(node) = EndType
IsDevicePathEnd(node) ==
    IsDevicePathEndType(node) /\ DevicePathSubType(node) = EntireEnd
IsDevicePathEndInstance(node) ==
    IsDevicePathEndType(node) /\ DevicePathSubType(node) = InstanceEnd
SetDevicePathNodeLength(node, length) == [node EXCEPT !.length = length]

mUefiDevicePathLibEndDevicePath ==
    [type |-> EndType, subtype |-> EntireEnd, length |-> HeaderSize, closed |-> TRUE]
SetDevicePathEndNode(path) == Append(path, mUefiDevicePathLibEndDevicePath)

----------------------------------------------------------------------------
\* The place of the end, and how many bytes lie before node n.
EndOf(path) == Min({n \in DOMAIN path : IsDevicePathEnd(path[n])})
SizeBefore(path, n) ==
    FoldLeft(LAMBDA size, node : size + DevicePathNodeLength(node), 0,
             SubSeq(path, 1, n - 1))

\* maxSize 0 for a path of any size.  No size within max wraps around.
IsDevicePathValid(path, maxSize) ==
    LET max == IF maxSize = 0 THEN MaxPathSize ELSE maxSize
    IN  /\ path # NoPath
        /\ maxSize \notin 1..HeaderSize - 1
        /\ \A n \in 1..EndOf(path) - 1 :
              /\ DevicePathNodeLength(path[n]) >= HeaderSize
              /\ SizeBefore(path, n + 1) <= max - HeaderSize
              /\ n < PcdMaximumDevicePathNodeCount \/ PcdMaximumDevicePathNodeCount = 0
              /\ \/ DevicePathType(path[n]) # MediaType
                 \/ DevicePathSubType(path[n]) # FilePathSubType
                 \/ path[n].closed
        /\ DevicePathNodeLength(path[EndOf(path)]) = HeaderSize

UefiDevicePathLibGetDevicePathSize(path) ==
    IF path = NoPath \/ ~IsDevicePathValid(path, 0) THEN 0
    ELSE SizeBefore(path, EndOf(path) + 1)
GetDevicePathSize(path) == UefiDevicePathLibGetDevicePathSize(path)

UefiDevicePathLibDuplicateDevicePath(path, alloc) ==
    IF GetDevicePathSize(path) = 0 \/ ~alloc[1] THEN NoPath
    ELSE SubSeq(path, 1, EndOf(path))
DuplicateDevicePath(path, alloc) == UefiDevicePathLibDuplicateDevicePath(path, alloc)

UefiDevicePathLibAppendDevicePath(first, second, alloc) ==
    CASE first = NoPath ->
            DuplicateDevicePath(IF second # NoPath THEN second
                                ELSE SetDevicePathEndNode(<<>>), alloc)
      [] first # NoPath /\ second = NoPath -> DuplicateDevicePath(first, alloc)
      [] first # NoPath /\ second # NoPath ->
            IF \/ ~IsDevicePathValid(first, 0)
               \/ ~IsDevicePathValid(second, 0)
               \/ ~alloc[1]
            THEN NoPath
            ELSE SubSeq(first, 1, EndOf(first) - 1) \o SubSeq(second, 1, EndOf(second))
AppendDevicePath(first, second, alloc) ==
    UefiDevicePathLibAppendDevicePath(first, second, alloc)

\* node NoPath for none.
UefiDevicePathLibAppendDevicePathNode(path, node, alloc) ==
    CASE node = NoPath ->
            DuplicateDevicePath(IF path # NoPath THEN path
                                ELSE SetDevicePathEndNode(<<>>), alloc)
      [] node # NoPath ->
            IF ~alloc[1] THEN NoPath
            ELSE AppendDevicePath(path, SetDevicePathEndNode(<<node>>), Tail(alloc))
AppendDevicePathNode(path, node, alloc) ==
    UefiDevicePathLibAppendDevicePathNode(path, node, alloc)

\* The end of the copy becomes the end of an instance.
UefiDevicePathLibAppendDevicePathInstance(path, instance, alloc) ==
    CASE path = NoPath -> DuplicateDevicePath(instance, alloc)
      [] path # NoPath ->
            IF \/ instance = NoPath
               \/ ~IsDevicePathValid(path, 0)
               \/ ~IsDevicePathValid(instance, 0)
               \/ ~alloc[1]
            THEN NoPath
            ELSE [SubSeq(path, 1, EndOf(path)) EXCEPT ![EndOf(path)].subtype = InstanceEnd]
                 \o SubSeq(instance, 1, EndOf(instance))
AppendDevicePathInstance(path, instance, alloc) ==
    UefiDevicePathLibAppendDevicePathInstance(path, instance, alloc)

\* The first end of any kind closes the instance: in the caller's path it is
\* made the end of a path while that is duplicated, then restored.  The
\* caller's pointer moves on whether or not the duplication succeeded.
UefiDevicePathLibGetNextDevicePathInstance(path, alloc) ==
    LET last == Min({n \in DOMAIN path : IsDevicePathEndType(path[n])})
        marked == [path EXCEPT ![last].subtype = EntireEnd]
        restored == [marked EXCEPT ![last].subtype = DevicePathSubType(path[last])]
        Nothing(size) == [instance |-> NoPath, rest |-> path, size |-> size, left |-> path]
    IN  IF path = NoPath THEN Nothing(0)
        ELSE IF ~IsDevicePathValid(path, 0) THEN Nothing("unset")
        ELSE [instance |-> DuplicateDevicePath(marked, alloc),
              rest |-> IF DevicePathSubType(restored[last]) = EntireEnd THEN NoPath
                       ELSE SubSeq(restored, last + 1, Len(restored)),
              size |-> SizeBefore(path, last) + HeaderSize,
              left |-> restored]
GetNextDevicePathInstance(path, alloc) ==
    UefiDevicePathLibGetNextDevicePathInstance(path, alloc)

UefiDevicePathLibCreateDeviceNode(type, subtype, length, alloc) ==
    IF length < HeaderSize \/ ~alloc[1] THEN NoPath
    ELSE SetDevicePathNodeLength(
            [type |-> type, subtype |-> subtype, length |-> 0,
             closed |-> length > HeaderSize], length)
CreateDeviceNode(type, subtype, length, alloc) ==
    UefiDevicePathLibCreateDeviceNode(type, subtype, length, alloc)

UefiDevicePathLibIsDevicePathMultiInstance(path) ==
    /\ path # NoPath
    /\ IsDevicePathValid(path, 0)
    /\ \E n \in 1..EndOf(path) - 1 : IsDevicePathEndInstance(path[n])
IsDevicePathMultiInstance(path) == UefiDevicePathLibIsDevicePathMultiInstance(path)

\* devicePath is what HandleProtocol finds on the handle, NoPath for nothing.
DevicePathFromHandle(devicePath) == devicePath

\* characters counts the NUL of the file name; devicePath as above, also
\* NoPath when no Device is given.
FileDevicePath(devicePath, characters, alloc) ==
    LET node == [type |-> MediaType, subtype |-> FilePathSubType,
                 length |-> HeaderSize + 2 * characters, closed |-> TRUE]
    IN  IF ~alloc[1] THEN NoPath
        ELSE AppendDevicePath(DevicePathFromHandle(devicePath),
                              SetDevicePathEndNode(<<node>>), Tail(alloc))
=============================================================================
