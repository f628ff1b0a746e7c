--------------------------- MODULE MCServiceManager ---------------------------
(***************************************************************************)
(* Two clients, two profiles, two ids, two bind hosts and two ports.       *)
(* Nothing in the specification orders the members of these sets, and the  *)
(* properties of the runs are invariants and an action property, so        *)
(* symmetry is sound.                                                      *)
(***************************************************************************)
EXTENDS ServiceManager, TLC

Interchangeable ==
  Permutations(Clients) \union Permutations(Profiles)
    \union Permutations(Ids) \union Permutations(Hosts) \union Permutations(Ports)
===============================================================================
