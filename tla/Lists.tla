-------------------------------- MODULE Lists --------------------------------
(***************************************************************************)
(* Linked lists as sequences: what is left when the elements of a set have *)
(* been unlinked, one by one, in a walk over the list; and lists that are  *)
(* put one behind the other.                                               *)
(***************************************************************************)
EXTENDS Integers, Sequences

(* The elements of s that are not in es, in their order.                   *)
Without(s, es) ==
    LET kept[i \in 0 .. Len(s)] ==
            IF i = 0 THEN <<>>
            ELSE IF s[i] \in es THEN kept[i - 1] ELSE Append(kept[i - 1], s[i])
    IN  kept[Len(s)]

(* The sequences in the sequence pieces, one behind the other.             *)
Joined(pieces) ==
    LET join[n \in 0 .. Len(pieces)] == IF n = 0 THEN <<>> ELSE join[n - 1] \o pieces[n]
    IN  join[Len(pieces)]
=============================================================================
