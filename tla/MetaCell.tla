------------------------------ MODULE MetaCell ------------------------------
(***************************************************************************)
(* What Storage.SetMeta and GetMeta promise (taudb/storage/storage.go), as *)
(* a cell that survives crashes.  A SetMeta that failed or was interrupted *)
(* leaves its descriptor in doubt: the cell may hold it or not, until the  *)
(* next SetMeta that succeeds or GetMeta that returns settles the matter.  *)
(***************************************************************************)
CONSTANTS Nums,  \* descriptors
          None   \* no descriptor

VARIABLES val,    \* what GetMeta would return
          meta,   \* the settled descriptor
          doubt   \* the descriptors of unsettled SetMeta calls

Init == val = None /\ meta = None /\ doubt = {}

SetBegin(n) == doubt' = doubt \cup {n} /\ UNCHANGED <<val, meta>>

\* an unsettled write takes effect, or turns out not to have taken effect
Flip == val' \in {meta} \cup doubt /\ UNCHANGED <<meta, doubt>>

SetOK(n) == n \in doubt /\ val' = n /\ meta' = n /\ doubt' = {}

GetOK == val # None /\ meta' = val /\ doubt' = {} /\ UNCHANGED val

Next == Flip \/ GetOK \/ \E n \in Nums : SetBegin(n) \/ SetOK(n)

Spec == Init /\ [][Next]_<<val, meta, doubt>>

=============================================================================
