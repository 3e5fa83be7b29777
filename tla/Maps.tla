-------------------------------- MODULE Maps --------------------------------
(***************************************************************************)
(* The maps of the program (std::unordered_map), and what else is indexed, *)
(* as functions on their keys.                                             *)
(***************************************************************************)

(* map[k] = v: k becomes a key, if it is none, and its value v.            *)
Put(map, k, v) ==
  [x \in DOMAIN map \cup {k} |-> IF x = k THEN v ELSE map[x]]

=============================================================================
