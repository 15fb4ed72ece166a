------------------------------- MODULE MCKList -------------------------------
(* Three elements, two of them with equal keys, so that list_insert_sorted *)
(* meets an equal key, a smaller one and a larger one.                     *)
EXTENDS KList

CONSTANTS e1, e2, e3

MCElems == {e1, e2, e3}
MCKey   == [e \in MCElems |-> IF e = e3 THEN 2 ELSE 1]
=============================================================================
