------------------------------- MODULE Variables -------------------------------
(***************************************************************************)
(* What the variable services promise: a value for each name.  Appending   *)
(* to a variable adds to it, to the signature databases as a union and to  *)
(* others at the end, and keeps the later timestamp.  VariableStore.tla    *)
(* implements it with a list.                                              *)
(***************************************************************************)
EXTENDS Integers, Sequences

CONSTANTS
    Keys,                      \* pairs of a name and a GUID
    Databases,                 \* the keys of db, dbt, dbx and KEK
    AttributeSets,             \* the attributes that callers pass
    APPEND_WRITE, TIME_BASED,  \* two of their bits
    Bytes,                     \* the contents of other variables are sequences of these
    SignatureTypes, Signatures,
    Times, NULL,               \* timestamps; NULL is none
    MaxBytes,                  \* bound: the bytes of one call
    Absent                     \* the value of a name without a variable

VARIABLES
    values,                    \* attributes, timestamp and contents of a key, or Absent
    running                    \* an assertion that fails ends the program

Init ==
    /\ values = [key \in Keys |-> Absent]
    /\ running = TRUE

Contents(key) ==
    IF key \in Databases
    THEN SUBSET (SignatureTypes \X Signatures)
    ELSE UNION {[1 .. n -> Bytes] : n \in 0 .. MaxBytes}

Combined(key, old, new) == IF key \in Databases THEN old \cup new ELSE old \o new

Old(before) == IF before = Absent THEN NULL ELSE before.stamp

Put(before, after, attributes, stamp, contents) ==
    /\ APPEND_WRITE \notin attributes \/ before = Absent
    /\ after = [attributes |-> attributes, contents |-> contents,
                stamp |-> IF TIME_BASED \in attributes THEN stamp ELSE Old(before)]

Extend(key, before, after, attributes, stamp, contents) ==
    /\ APPEND_WRITE \in attributes /\ before # Absent
    /\ after.attributes = attributes
    /\ after.contents = Combined(key, before.contents, contents)
    /\ IF TIME_BASED \in attributes
       THEN /\ after.stamp \in {stamp, Old(before)}
            /\ Old(before) # NULL => after.stamp >= stamp /\ after.stamp >= Old(before)
       ELSE after.stamp = Old(before)

Change(key, before, after) ==
    /\ values' = [values EXCEPT ![key] = after]
    /\ IF after = Absent THEN before # Absent
       ELSE \E attributes \in AttributeSets, stamp \in Times, contents \in Contents(key) :
                \/ Put(before, after, attributes, stamp, contents)
                \/ Extend(key, before, after, attributes, stamp, contents)

Next ==
    /\ running
    /\ \/ (\E key \in Keys : Change(key, values[key], values'[key])) /\ UNCHANGED running
       \/ running' = FALSE /\ UNCHANGED values

Spec == Init /\ [][Next]_<<values, running>>
=============================================================================
