-------------------------------- MODULE Maps --------------------------------
(***************************************************************************)
(* Go maps: the empty map, insert or overwrite, delete.                    *)
(***************************************************************************)
EXTENDS Integers, Functions

Empty == [x \in {} |-> x]
Put(m, k, v) == [x \in DOMAIN m \cup {k} |-> IF x = k THEN v ELSE m[x]]
Del(m, k) == Restrict(m, DOMAIN m \ {k})
=============================================================================
