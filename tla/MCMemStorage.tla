---------------------------- MODULE MCMemStorage ----------------------------
(***************************************************************************)
(* Model of MemStorage: three numbers of one type, the first and the last  *)
(* of which share a key, and a descriptor that no method accepts.  Two     *)
(* handles are enough for a stale handle to meet a live one; three objects *)
(* allow a removed file to live on while both keys are in use.             *)
(***************************************************************************)
EXTENDS MemStorage, TLC

MCFds == {[type |-> TypeTemp, num |-> 0], [type |-> TypeTemp, num |-> 1],
          [type |-> TypeTemp, num |-> 2], [type |-> TypeTable, num |-> -1]}

Symmetric == Permutations(Objs) \cup Permutations(Handles) \cup Permutations(Locks)

=============================================================================
