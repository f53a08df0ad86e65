--------------------------- MODULE MCFileStorage ----------------------------
(***************************************************************************)
(* Model of FileStorage: a table, a temporary file that may become it, and *)
(* a descriptor that no method accepts; two processes; two handles, so     *)
(* that one outlives its storage while another is in use.                  *)
(***************************************************************************)
EXTENDS FileStorage, TLC

MCFds == {[type |-> TypeTable, num |-> 0], [type |-> TypeTemp, num |-> 0],
          [type |-> 0, num |-> 0]}

Symmetric == Permutations(Files) \cup Permutations(Stores)
             \cup Permutations(Handles) \cup Permutations(Locks)

=============================================================================
