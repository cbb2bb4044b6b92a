------------------------------- MODULE KbMap -------------------------------
(***************************************************************************)
(* What a knowledge base promises its users, whatever table stores it: one *)
(* value per key, a set that changes the value of its own key and of no    *)
(* other, and no way to take a key out again.                              *)
(***************************************************************************)
CONSTANTS
    Key,        \* the keys a program may use
    Value,      \* the values a set accepts
    NotFound    \* what get answers for a key that was never set

VARIABLE map

MapInit == map = [k \in Key |-> NotFound]

\* A set that shows: one key gets another value, the others keep what they have.
MapSet ==
    \E k \in Key :
        /\ map'[k] \in Value \ {map[k]}
        /\ map' = [map EXCEPT ![k] = map'[k]]

MapSpec == MapInit /\ [][MapSet]_map

=============================================================================
