----------------------------- MODULE MCFoxtails -----------------------------
(* Foxtails on small instances: see the MCFoxtails*.cfg. *)
EXTENDS Foxtails

(* Connections and descriptors are only compared for equality. *)
Symmetry == Permutations(Conns) \cup Permutations(Fds)
=============================================================================
