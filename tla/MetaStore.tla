----------------------------- MODULE MetaStore ------------------------------
(***************************************************************************)
(* How fileStorage keeps its meta descriptor in the files CURRENT,         *)
(* CURRENT.bak and CURRENT.<num> (taudb/storage/file_storage.go): setMeta  *)
(* one file operation at a time, the recovery that GetMeta does, I/O       *)
(* errors, and crashes between any two file operations.                    *)
(*                                                                         *)
(* A descriptor is a manifest number.  A file that was opened for writing  *)
(* and is not yet synced holds Bad.  The mutex of fileStorage and the lock *)
(* file make the operations sequential.  A rename is durable only once the *)
(* directory was synced: a crash may undo it.                              *)
(***************************************************************************)
EXTENDS Integers, Sequences, FiniteSets

CONSTANTS Nums,          \* the descriptor numbers in play
          Increasing,    \* the client never stores a smaller number than before
          Faults,        \* where I/O errors happen: "set" in the file operations of
                         \*   SetMeta, "sync" in its directory sync, "get" in GetMeta
          RemoveDoubted  \* the client removes the manifest of a SetMeta that failed

None == -1
Bad  == -2

ASSUME MetaAssumption ==
    /\ Nums \subseteq Nat
    /\ Increasing \in BOOLEAN /\ RemoveDoubted \in BOOLEAN
    /\ Faults \subseteq {"set", "sync", "get"}

VARIABLES
    cur, bak,  \* contents of CURRENT and CURRENT.bak
    pend,      \* contents of the pending files CURRENT.<num>
    files,     \* the manifests that exist
    undo,      \* CURRENT before each rename that is not yet durable, oldest first
    kind,      \* operation in progress: "none", "set", "get", or "down"
    target,    \* the descriptor it writes
    step,      \* its next file operation
    todo,      \* pending files GetMeta still has to remove
    meta,      \* history: the settled descriptor, see MetaCell
    doubt      \* history: descriptors of unsettled SetMeta calls

disk == <<cur, bak, pend, files, undo>>
op   == <<kind, target, step, todo>>
hist == <<meta, doubt>>
vars == <<disk, op, hist>>

-----------------------------------------------------------------------------
(* What GetMeta finds. *)

\* tryCurrent: the content is a descriptor and its file exists
Ok(content) == content \in files

\* the first usable pending file, in descending order
Greatest(S) == CHOOSE x \in S : \A y \in S : y <= x
PendNums == {n \in Nums : pend[n] # None}
PendCur == LET S == {n \in PendNums : Ok(pend[n])}
           IN  IF S = {} THEN None ELSE pend[Greatest(S)]

\* CURRENT, else CURRENT.bak
CurCur == IF Ok(cur) THEN cur ELSE IF Ok(bak) THEN bak ELSE None

\* variant: a pending file always takes precedence
PickPending == IF PendCur # None THEN PendCur ELSE CurCur

\* "pendCur takes precedence, but guards against obsolete pendCur"
Pick == IF PendCur # None /\ (CurCur = None \/ PendCur > CurCur)
        THEN PendCur ELSE CurCur

\* the pick is not CURRENT itself, or there are pending files
NeedsRestore == Pick # cur \/ PendNums # {}

-----------------------------------------------------------------------------
Init ==
    /\ cur = None /\ bak = None /\ pend = [n \in Nums |-> None]
    /\ files = {} /\ undo = << >>
    /\ kind = "none" /\ target = None /\ step = "none" /\ todo = {}
    /\ meta = None /\ doubt = {}

\* the operation is over
Idle == kind' = "none" /\ target' = None /\ step' = "none" /\ todo' = {}

Goto(s) == step' = s /\ UNCHANGED <<kind, target, todo>>

(* The client. *)

\* Create of a manifest; with Increasing its number is new
Create(n) ==
    /\ kind = "none" /\ n \notin files
    /\ Increasing => n > meta /\ \A m \in doubt : n > m
    /\ files' = files \cup {n}
    /\ UNCHANGED <<cur, bak, pend, undo>> /\ UNCHANGED op /\ UNCHANGED hist

\* Remove of a manifest that is not the settled one
Remove(n) ==
    /\ kind = "none" /\ n \in files
    /\ n # meta /\ (n \in doubt => RemoveDoubted)
    /\ files' = files \ {n}
    /\ UNCHANGED <<cur, bak, pend, undo>> /\ UNCHANGED op /\ UNCHANGED hist

\* SetMeta, for a descriptor whose file exists
SetMeta(n) ==
    /\ kind = "none" /\ n \in files
    /\ Increasing => n > meta /\ \A m \in doubt : n > m
    /\ kind' = "set" /\ target' = n /\ step' = "check" /\ todo' = {}
    /\ doubt' = doubt \cup {n}
    /\ UNCHANGED meta /\ UNCHANGED disk

\* GetMeta finds a descriptor: return it, or restore CURRENT first
GetMeta ==
    /\ kind = "none" /\ Pick # None
    /\ \/ /\ ~NeedsRestore
          /\ meta' = Pick /\ doubt' = {}
          /\ UNCHANGED op
       \/ /\ NeedsRestore
          /\ kind' = "get" /\ target' = Pick /\ step' = "check" /\ todo' = PendNums
          /\ UNCHANGED hist
    /\ UNCHANGED disk

-----------------------------------------------------------------------------
(* setMeta, called by SetMeta and by GetMeta's restore. *)

\* setMeta returned nil: SetMeta returns, GetMeta removes the pending files
SetDone ==
    \/ kind = "set" /\ Idle /\ meta' = target /\ doubt' = {}
    \/ kind = "get" /\ Goto("clean") /\ UNCHANGED hist

\* CURRENT has the content already
CheckSame ==
    /\ step = "check" /\ cur = target
    /\ SetDone
    /\ UNCHANGED disk

\* Back up CURRENT, if there is one.
CheckOther ==
    /\ step = "check" /\ cur # target
    /\ Goto(IF cur = None THEN "pend" ELSE "bak")
    /\ UNCHANGED disk /\ UNCHANGED hist

BakOpen ==
    /\ step = "bak"
    /\ bak' = Bad
    /\ Goto("bakwrite")
    /\ UNCHANGED <<cur, pend, files, undo>> /\ UNCHANGED hist

BakWrite ==
    /\ step = "bakwrite"
    /\ bak' = cur
    /\ Goto("pend")
    /\ UNCHANGED <<cur, pend, files, undo>> /\ UNCHANGED hist

PendOpen ==
    /\ step = "pend"
    /\ pend' = [pend EXCEPT ![target] = Bad]
    /\ Goto("pendwrite")
    /\ UNCHANGED <<cur, bak, files, undo>> /\ UNCHANGED hist

PendWrite ==
    /\ step = "pendwrite"
    /\ pend' = [pend EXCEPT ![target] = target]
    /\ Goto("rename")
    /\ UNCHANGED <<cur, bak, files, undo>> /\ UNCHANGED hist

Rename ==
    /\ step = "rename"
    /\ cur' = pend[target]
    /\ pend' = [pend EXCEPT ![target] = None]
    /\ undo' = Append(undo, cur)
    /\ Goto("sync")
    /\ UNCHANGED <<bak, files>> /\ UNCHANGED hist

SyncDir ==
    /\ step = "sync"
    /\ undo' = << >>
    /\ SetDone
    /\ UNCHANGED <<cur, bak, pend, files>>

\* An I/O error before the next file operation of setMeta takes effect:
\* SetMeta returns it, GetMeta ignores it and returns what it picked.
IOError ==
    /\ kind \in {"set", "get"} /\ step # "clean"
    /\ (IF kind = "set" /\ step = "sync" THEN "sync" ELSE kind) \in Faults
    /\ Idle
    /\ IF kind = "set" THEN UNCHANGED hist ELSE meta' = target /\ doubt' = {}
    /\ UNCHANGED disk

\* GetMeta removes the pending files it saw; a failure is logged only.
CleanOne(n) ==
    /\ step = "clean" /\ n \in todo
    /\ \/ pend' = [pend EXCEPT ![n] = None]
       \/ "get" \in Faults /\ UNCHANGED pend
    /\ todo' = todo \ {n}
    /\ UNCHANGED <<cur, bak, files, undo, kind, target, step>> /\ UNCHANGED hist

GetDone ==
    /\ step = "clean" /\ todo = {}
    /\ Idle
    /\ meta' = target /\ doubt' = {}
    /\ UNCHANGED disk

-----------------------------------------------------------------------------
(* The process or the machine stops at any point ... *)
Crash ==
    /\ kind # "down"
    /\ kind' = "down" /\ target' = None /\ step' = "none" /\ todo' = {}
    /\ UNCHANGED disk /\ UNCHANGED hist

\* ... which may undo the last rename that was not durable ...
LoseRename ==
    /\ kind = "down" /\ undo # << >>
    /\ cur' = undo[Len(undo)]
    /\ pend' = [pend EXCEPT ![cur] = cur]
    /\ undo' = SubSeq(undo, 1, Len(undo) - 1)
    /\ UNCHANGED <<bak, files>> /\ UNCHANGED op /\ UNCHANGED hist

\* ... and the storage is opened again.
Reopen ==
    /\ kind = "down"
    /\ Idle
    /\ undo' = << >>
    /\ UNCHANGED <<cur, bak, pend, files>> /\ UNCHANGED hist

Next ==
    \/ \E n \in Nums : Create(n) \/ Remove(n) \/ SetMeta(n)
    \/ GetMeta
    \/ CheckSame \/ CheckOther \/ BakOpen \/ BakWrite
    \/ PendOpen \/ PendWrite \/ Rename \/ SyncDir
    \/ IOError
    \/ \E n \in Nums : CleanOne(n)
    \/ GetDone
    \/ Crash \/ LoseRename \/ Reopen

Spec == Init /\ [][Next]_vars

-----------------------------------------------------------------------------
Content == Nums \cup {None, Bad}

TypeOK ==
    /\ cur \in Nums \cup {None}
    /\ bak \in Content
    /\ pend \in [Nums -> Content]
    /\ files \subseteq Nums
    /\ undo \in Seq(Nums \cup {None})
    /\ kind \in {"none", "set", "get", "down"}
    /\ target \in Nums \cup {None}
    /\ step \in {"none", "check", "bak", "bakwrite", "pend", "pendwrite", "rename",
                 "sync", "clean"}
    /\ todo \subseteq Nums
    /\ meta \in Nums \cup {None}
    /\ doubt \subseteq Nums

(***************************************************************************)
(* SetMeta is atomic and durable: whatever operation is interrupted        *)
(* wherever, what GetMeta would find is the descriptor of the last SetMeta *)
(* that succeeded or GetMeta that returned, or one of a SetMeta that was   *)
(* interrupted since; never nothing, and never something older.            *)
(***************************************************************************)
Register == Pick \in {meta} \cup doubt

(***************************************************************************)
(* The files implement the abstract cell: SetMeta that returns nil leaves  *)
(* its descriptor for GetMeta, and GetMeta settles what it returns.        *)
(***************************************************************************)
Cell == INSTANCE MetaCell WITH val <- Pick
ImplementsCell == Cell!Spec

=============================================================================
