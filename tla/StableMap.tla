----------------------------- MODULE StableMap -----------------------------
(***************************************************************************)
(* The StableBTreeMap of ic-stable-structures as main uses it: a function  *)
(* from the keys present to their values.                                  *)
(***************************************************************************)

\* StableBTreeMap::init on fresh memory.
EmptyMap == [x \in {} |-> x]

\* insert: the map f with the value v at the key k.
Insert(f, k, v) ==
    [x \in DOMAIN f \cup {k} |-> IF x = k THEN v ELSE f[x]]
=============================================================================
