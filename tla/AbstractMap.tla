------------------------------ MODULE AbstractMap ------------------------------
(***************************************************************************)
(* What a concurrent table promises: a map from keys to values on which    *)
(* every call takes effect, with its result, in one instant.               *)
(***************************************************************************)
CONSTANTS Thread, Key, Value, NULL

VARIABLES
    map,        \* the value of each key, NULL for none
    result      \* what the last operation of each thread returned

Init == map = [k \in Key |-> NULL] /\ result = [t \in Thread |-> NULL]

Put(t, k, v) ==
    /\ result' = [result EXCEPT ![t] = map[k]]
    /\ map' = IF map[k] = NULL THEN [map EXCEPT ![k] = v] ELSE map

Get(t, k) ==
    /\ result' = [result EXCEPT ![t] = map[k]]
    /\ UNCHANGED map

Remove(t, k) ==
    /\ result' = [result EXCEPT ![t] = map[k]]
    /\ map' = [map EXCEPT ![k] = NULL]

(* Values may be replaced in place, keys neither come nor go. *)
Apply ==
    /\ UNCHANGED result
    /\ map' \in [Key -> Value \cup {NULL}]
    /\ \A k \in Key : map[k] = NULL <=> map'[k] = NULL

Next ==
    \/ \E t \in Thread, k \in Key :
          Get(t, k) \/ Remove(t, k) \/ \E v \in Value : Put(t, k, v)
    \/ Apply

Spec == Init /\ [][Next]_<<map, result>>
================================================================================
