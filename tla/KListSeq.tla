------------------------------ MODULE KListSeq ------------------------------
(***************************************************************************)
(* What the kernel's doubly linked list (libc/kernel/list.c) promises, as  *)
(* a sequence of elements: the operations of list.h on a list used within  *)
(* its contract (an element inserted is in no list, an element named as a *)
(* position or removed is in this one).                                    *)
(***************************************************************************)
EXTENDS Naturals, Sequences, SequencesExt

CONSTANTS Elems, Key   \* the elements, and the key the compare function orders by

VARIABLE seq

Members == ToSet(seq)

IndexOf(e) == CHOOSE i \in 1 .. Len(seq) : seq[i] = e

(* The position an element with key k takes in a sorted insertion: before  *)
(* the first element whose key is not smaller, else at the end.            *)
SortedPos(k) ==
    LET ge == {i \in 1 .. Len(seq) : k <= Key[seq[i]]}
    IN IF ge = {} THEN Len(seq) + 1 ELSE Min(ge)

Init == seq = <<>>

list_append(e)      == e \notin Members /\ seq' = Append(seq, e)
list_prepend(e)     == e \notin Members /\ seq' = <<e>> \o seq
list_remove_head    == seq' = IF seq = <<>> THEN seq ELSE Tail(seq)
list_remove_tail    == seq' = IF seq = <<>> THEN seq ELSE Front(seq)
list_remove(e)      == e \in Members /\ seq' = RemoveAt(seq, IndexOf(e))
list_insert_after(a, e) ==
    a \in Members /\ e \notin Members /\ seq' = InsertAt(seq, IndexOf(a) + 1, e)
list_insert_before(b, e) ==
    b \in Members /\ e \notin Members /\ seq' = InsertAt(seq, IndexOf(b), e)
list_insert_sorted(e) ==
    e \notin Members /\ seq' = InsertAt(seq, SortedPos(Key[e]), e)

Next ==
    \/ list_remove_head \/ list_remove_tail
    \/ \E e \in Elems :
          \/ list_append(e) \/ list_prepend(e) \/ list_remove(e)
          \/ list_insert_sorted(e)
          \/ \E x \in Elems : list_insert_after(x, e) \/ list_insert_before(x, e)

Spec == Init /\ [][Next]_seq
=============================================================================
