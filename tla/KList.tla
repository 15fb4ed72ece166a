-------------------------------- MODULE KList --------------------------------
(***************************************************************************)
(* The doubly linked list of src/libc/kernel/list.c at the level of its    *)
(* pointers: a list_t (head, tail, size) and the next/prev fields of the   *)
(* list_element_t embedded in each element.  Each list operation is an    *)
(* operator from one list state to the next, following the C assignments *)
(* in their order; the actions apply them within the callers' contract,   *)
(* which list.c never checks: an element inserted is in no list, an      *)
(* element named as a position or removed is in this one.                  *)
(*                                                                         *)
(* The elements are kmalloc'd thread and process structs, so the pointer   *)
(* fields of an element that was never inserted hold anything.             *)
(***************************************************************************)
EXTENDS Naturals, Sequences, SequencesExt

CONSTANTS
    Elems,   \* the list_element_t's that may be put in the list
    Key,     \* Elems -> Nat: what the compare function of list_insert_sorted orders by
    NULL

Ptr == Elems \cup {NULL}
N   == Cardinality(Elems)

VARIABLE lst   \* [head, tail, size, next, prev]

(* The accessors of list.c; each returns NULL, 0 or true for a NULL       *)
(* argument.                                                               *)
list_is_empty(L)  == L.size = 0
list_size(L)      == L.size
list_head(L)      == L.head
list_tail(L)      == L.tail
list_next(L, p)   == IF p = NULL THEN NULL ELSE L.next[p]
list_prev(L, p)   == IF p = NULL THEN NULL ELSE L.prev[p]

(* The elements reached from head by list_next, at most N of them, and     *)
(* from tail by list_prev.                                                 *)
RECURSIVE WalkFrom(_, _, _)
WalkFrom(L, p, n) ==
    IF p = NULL \/ n = 0 THEN <<>> ELSE <<p>> \o WalkFrom(L, list_next(L, p), n - 1)

RECURSIVE WalkBackFrom(_, _, _)
WalkBackFrom(L, p, n) ==
    IF p = NULL \/ n = 0 THEN <<>> ELSE <<p>> \o WalkBackFrom(L, list_prev(L, p), n - 1)

Walk(L) == WalkFrom(L, list_head(L), N)

Members == ToSet(Walk(lst))

(* compare_func(a, b) <= 0 for the key order.                              *)
CompareLe(a, b) == Key[a] <= Key[b]

-----------------------------------------------------------------------------
(* list_append: the element's next is cleared, its prev set to the old     *)
(* tail; the old tail's next, or head when empty, points at it.            *)
ListAppend(L, e) ==
    LET n1 == [L.next EXCEPT ![e] = NULL]
        p1 == [L.prev EXCEPT ![e] = L.tail]
    IN [L EXCEPT !.next = IF L.tail # NULL THEN [n1 EXCEPT ![L.tail] = e] ELSE n1,
                 !.prev = p1,
                 !.head = IF L.tail # NULL THEN L.head ELSE e,
                 !.tail = e,
                 !.size = L.size + 1]

(* list_remove_head: NULL on an empty list; otherwise head moves to its    *)
(* successor, whose prev is cleared (or tail too when it was the last).    *)
ListRemoveHead(L) ==
    IF L.size = 0 THEN L
    ELSE LET el == L.head
             h  == L.next[el]
             p1 == IF h # NULL THEN [L.prev EXCEPT ![h] = NULL] ELSE L.prev
         IN [L EXCEPT !.head = h,
                      !.tail = IF h # NULL THEN L.tail ELSE NULL,
                      !.next = [L.next EXCEPT ![el] = NULL],
                      !.prev = [p1 EXCEPT ![el] = NULL],
                      !.size = L.size - 1]

(* A plausible bug in list_remove_tail: the new tail keeps its next.       *)
ListRemoveTail_NoUnlink(L) ==
    IF L.size = 0 THEN L
    ELSE LET el == L.tail
             t  == L.prev[el]
         IN [L EXCEPT !.tail = t,
                      !.head = IF t # NULL THEN L.head ELSE NULL,
                      !.next = [L.next EXCEPT ![el] = NULL],
                      !.prev = [L.prev EXCEPT ![el] = NULL],
                      !.size = L.size - 1]

(* list_remove_tail: the mirror image of list_remove_head.                 *)
ListRemoveTail(L) ==
    IF L.size = 0 THEN L
    ELSE LET el == L.tail
             t  == L.prev[el]
             n1 == IF t # NULL THEN [L.next EXCEPT ![t] = NULL] ELSE L.next
         IN [L EXCEPT !.tail = t,
                      !.head = IF t # NULL THEN L.head ELSE NULL,
                      !.next = [n1 EXCEPT ![el] = NULL],
                      !.prev = [L.prev EXCEPT ![el] = NULL],
                      !.size = L.size - 1]

(* list_prepend: the mirror image of list_append.                          *)
ListPrepend(L, e) ==
    LET p1 == [L.prev EXCEPT ![e] = NULL]
        n1 == [L.next EXCEPT ![e] = L.head]
    IN [L EXCEPT !.prev = IF L.head # NULL THEN [p1 EXCEPT ![L.head] = e] ELSE p1,
                 !.next = n1,
                 !.tail = IF L.head # NULL THEN L.tail ELSE e,
                 !.head = e,
                 !.size = L.size + 1]

(* list_remove: nothing on an empty list; otherwise the neighbours (or     *)
(* head and tail) are joined around the element, whose pointers are       *)
(* cleared.                                                                *)
ListRemove(L, e) ==
    IF L.size = 0 THEN L
    ELSE LET pe == L.prev[e]
             ne == L.next[e]
             n1 == IF pe # NULL THEN [L.next EXCEPT ![pe] = ne] ELSE L.next
             p1 == IF ne # NULL THEN [L.prev EXCEPT ![ne] = pe] ELSE L.prev
         IN [L EXCEPT !.head = IF pe # NULL THEN L.head ELSE ne,
                      !.tail = IF ne # NULL THEN L.tail ELSE pe,
                      !.next = [n1 EXCEPT ![e] = NULL],
                      !.prev = [p1 EXCEPT ![e] = NULL],
                      !.size = L.size - 1]

(* list_insert_after: the element takes after's place before after's      *)
(* successor, or becomes the tail.                                         *)
ListInsertAfter(L, a, e) ==
    LET an == L.next[a]
        p1 == [L.prev EXCEPT ![e] = a]
        n1 == [L.next EXCEPT ![e] = an]
        p2 == IF an # NULL THEN [p1 EXCEPT ![an] = e] ELSE p1
    IN [L EXCEPT !.prev = p2,
                 !.next = [n1 EXCEPT ![a] = e],
                 !.tail = IF an # NULL THEN L.tail ELSE e,
                 !.size = L.size + 1]

(* A plausible bug in list_insert_before: before's prev is not updated.    *)
ListInsertBefore_NoBackLink(L, b, e) ==
    LET bp == L.prev[b]
        n1 == [L.next EXCEPT ![e] = b]
        p1 == [L.prev EXCEPT ![e] = bp]
        n2 == IF bp # NULL THEN [n1 EXCEPT ![bp] = e] ELSE n1
    IN [L EXCEPT !.next = n2,
                 !.prev = p1,
                 !.head = IF bp # NULL THEN L.head ELSE e,
                 !.size = L.size + 1]

(* list_insert_before: the mirror image of list_insert_after.              *)
ListInsertBefore(L, b, e) ==
    LET bp == L.prev[b]
        n1 == [L.next EXCEPT ![e] = b]
        p1 == [L.prev EXCEPT ![e] = bp]
        n2 == IF bp # NULL THEN [n1 EXCEPT ![bp] = e] ELSE n1
    IN [L EXCEPT !.next = n2,
                 !.prev = [p1 EXCEPT ![b] = e],
                 !.head = IF bp # NULL THEN L.head ELSE e,
                 !.size = L.size + 1]

(* The loop of list_insert_sorted: from cur on, the first element the new  *)
(* one compares <= to, or NULL when it runs off the end.                   *)
RECURSIVE SortedPosFrom(_, _, _, _)
SortedPosFrom(L, cur, e, n) ==
    IF cur = NULL \/ n = 0 THEN NULL
    ELSE IF CompareLe(e, cur) THEN cur
    ELSE SortedPosFrom(L, L.next[cur], e, n - 1)

(* A plausible bug in list_insert_sorted: the return after appending to an *)
(* empty list left out, so the loop then meets the element itself.         *)
ListInsertSorted_NoReturn(L, e) ==
    IF L.size = 0
    THEN LET L1 == ListAppend(L, e) IN ListInsertBefore(L1, L1.head, e)
    ELSE LET pos == SortedPosFrom(L, L.head, e, N)
         IN IF pos # NULL THEN ListInsertBefore(L, pos, e) ELSE ListAppend(L, e)

(* list_insert_sorted: append to an empty list; otherwise insert before    *)
(* the first element the new one compares <= to, else append.             *)
ListInsertSorted(L, e) ==
    IF L.size = 0 THEN ListAppend(L, e)
    ELSE LET pos == SortedPosFrom(L, L.head, e, N)
         IN IF pos # NULL THEN ListInsertBefore(L, pos, e) ELSE ListAppend(L, e)

-----------------------------------------------------------------------------
(* list_init on a list_t whose elements were allocated but never linked.  *)
Init ==
    \E nx, pv \in [Elems -> Ptr] :
        lst = [head |-> NULL, tail |-> NULL, size |-> 0, next |-> nx, prev |-> pv]

Free == Elems \ Members

list_append(e)           == e \in Free /\ lst' = ListAppend(lst, e)
list_prepend(e)          == e \in Free /\ lst' = ListPrepend(lst, e)
list_remove_head         == lst' = ListRemoveHead(lst)
list_remove_tail         == lst' = ListRemoveTail(lst)
list_remove(e)           == e \in Members /\ lst' = ListRemove(lst, e)
list_insert_after(a, e)  == a \in Members /\ e \in Free /\ lst' = ListInsertAfter(lst, a, e)
list_insert_before(b, e) == b \in Members /\ e \in Free /\ lst' = ListInsertBefore(lst, b, e)
list_insert_sorted(e)    == e \in Free /\ lst' = ListInsertSorted(lst, e)

Next ==
    \/ list_remove_head \/ list_remove_tail
    \/ \E e \in Elems :
          \/ list_append(e) \/ list_prepend(e) \/ list_remove(e)
          \/ list_insert_sorted(e)
          \/ \E x \in Elems : list_insert_after(x, e) \/ list_insert_before(x, e)

Spec == Init /\ [][Next]_lst

-----------------------------------------------------------------------------
TypeOK ==
    /\ lst.head \in Ptr /\ lst.tail \in Ptr
    /\ lst.size \in 0 .. N
    /\ lst.next \in [Elems -> Ptr] /\ lst.prev \in [Elems -> Ptr]

(* The list is well formed after any sequence of calls, as its accessors  *)
(* see it: the list_next chain from list_head ends in NULL at list_tail    *)
(* without repeating an element, list_size counts it and list_is_empty     *)
(* agrees, and the list_prev chain from list_tail meets the same elements  *)
(* backwards and ends in NULL.                                             *)
WellLinked ==
    LET s == Walk(lst) IN
    /\ IsInjective(s)
    /\ list_size(lst) = Len(s)
    /\ list_is_empty(lst) <=> list_head(lst) = NULL
    /\ IF s = <<>>
       THEN list_tail(lst) = NULL
       ELSE /\ list_tail(lst) = s[Len(s)]
            /\ list_next(lst, s[Len(s)]) = NULL
            /\ WalkBackFrom(lst, list_tail(lst), N + 1) = Reverse(s)

(* The pointer operations implement the sequence operations of KListSeq:  *)
(* every call changes the list read from head exactly as the corresponding *)
(* sequence operation would; list_insert_sorted puts a new element before *)
(* the elements with an equal key, not after them.                        *)
Abs == INSTANCE KListSeq WITH seq <- Walk(lst)

ImplementsSeq == Abs!Spec
=============================================================================
