------------------------------ MODULE OnceValue ------------------------------
(***************************************************************************)
(* What users of a segmentation may assume of its layer information: it is *)
(* chosen once, and every caller who gets it gets that one, for good.      *)
(***************************************************************************)
CONSTANTS Callers, Values, None

VARIABLES
  chosen,         \* None, then one of Values
  got             \* what each caller has in its hands

Init == chosen = None /\ got = [c \in Callers |-> None]

Decide == chosen = None /\ chosen' \in Values /\ UNCHANGED got

Get(c) == chosen # None /\ got' = [got EXCEPT ![c] = chosen] /\ UNCHANGED chosen

Drop(c) == got' = [got EXCEPT ![c] = None] /\ UNCHANGED chosen

Next == Decide \/ \E c \in Callers : Get(c) \/ Drop(c)

Spec == Init /\ [][Next]_<<chosen, got>>
=============================================================================
