-------------------------------- MODULE Maps --------------------------------
(***************************************************************************)
(* std::unordered_map as the sources and the context use it: a function    *)
(* from the keys that are present.                                         *)
(***************************************************************************)
EXTENDS Functions

EmptyMap == [x \in {} |-> x]

(* erase, for the keys that are there, and operator[] = *)
Drop(f, keys) == Restrict(f, DOMAIN f \ keys)
Put(f, k, v) == [x \in DOMAIN f \cup {k} |-> IF x = k THEN v ELSE f[x]]

IsMap(f, S, T) ==
    /\ f = [x \in DOMAIN f |-> f[x]]
    /\ DOMAIN f \subseteq S
    /\ \A x \in DOMAIN f : f[x] \in T
=============================================================================
