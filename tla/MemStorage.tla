----------------------------- MODULE MemStorage -----------------------------
(***************************************************************************)
(* The storage that keeps its files in memory (taudb/storage/              *)
(* mem_storage.go): its lock, its map from packed descriptors to memFile   *)
(* objects, and the readers and writers its clients hold.  Every method    *)
(* holds the mutex from its first access to its last, so each is one step; *)
(* a Write goes to the memFile without it.  Calls that return an error     *)
(* change nothing and are not steps.                                       *)
(*                                                                         *)
(* A reader is a view of the memFile's own buffer, not a copy.             *)
(***************************************************************************)
EXTENDS StorageTypes, Sequences, FiniteSets

CONSTANTS Fds,         \* descriptors clients pass, records [type, num]
          Nums,        \* numbers a key has room for: 2^60, four of its 64 bits
                       \*   being the type's
          Objs,        \* memFile objects
          Handles,     \* reader and writer objects
          Locks,       \* memStorageLock objects
          None,        \* nil
          MaxLen,      \* bound on the chunks written to a file
          UseClosed    \* clients may write to a handle they closed, or close it again

ASSUME MemAssumption ==
    /\ Fds \subseteq [type : Int, num : Int]
    /\ Nums \in Nat \ {0} /\ MaxLen \in Nat /\ UseClosed \in BOOLEAN
    /\ None \notin Objs \cup Locks

GoodFds == {fd \in Fds : FileDescOk(fd)}

-----------------------------------------------------------------------------
\* variant: the type does not fit into the shift
packFileNarrow(fd) == (fd.num * 2^3 + fd.type) % (2^4 * Nums)

\* uint64(fd.Num)<<typeShift | uint64(fd.Type), with typeShift = 4: a type has
\* four bits, so the two parts can be added, and what the shift pushes out of
\* the key is lost
packFile(fd) == (fd.num * 2^4 + fd.type) % (2^4 * Nums)

unpackFile(x) == [type |-> x % 2^4, num |-> x \div 2^4]

Keys == {packFile(fd) : fd \in GoodFds}

\* the descriptor the storage takes fd for: two numbers that agree in what a
\* key has room for are one
Taken(fd) == [type |-> fd.type, num |-> fd.num % Nums]

TakenFds == {Taken(fd) : fd \in GoodFds}

VARIABLES
    files,   \* the map from keys to memFile objects
    open,    \* memFile.open of each object
    data,    \* the buffer of each object: the writer of each chunk
    st,      \* handles: "free", "open", or "closed" and still with its client
    kind,    \* handles: "reader" or "writer"
    obj,     \* the memFile a handle points to
    view,    \* history: what a reader's file held when it was opened
    slock,   \* the lock object of the storage
    lk,      \* lock objects: "free", "held", or "released" and still with its client
    meta     \* the descriptor SetMeta stored

fvars == <<files, open, data>>
hvars == <<st, kind, obj, view>>
lvars == <<slock, lk>>
vars  == <<fvars, hvars, lvars, meta>>

Init ==
    /\ files = [x \in Keys |-> None]
    /\ open = [o \in Objs |-> FALSE]
    /\ data = [o \in Objs |-> << >>]
    /\ st = [h \in Handles |-> "free"]
    /\ kind = [h \in Handles |-> "reader"]
    /\ obj = [h \in Handles |-> None]
    /\ view = [h \in Handles |-> << >>]
    /\ slock = None
    /\ lk = [l \in Locks |-> "free"]
    /\ meta = None

-----------------------------------------------------------------------------
(* Lock and Unlock *)

\* Lock succeeds; the lock object is new
Lock(l) ==
    /\ lk[l] = "free"
    /\ slock = None
    /\ slock' = l
    /\ lk' = [lk EXCEPT ![l] = "held"]
    /\ UNCHANGED <<fvars, hvars, meta>>

\* only the lock object of the storage releases it
Unlocks(l) == slock = l

\* Unlock, which a client may call again later
Unlock(l) ==
    /\ lk[l] # "free"
    /\ slock' = IF Unlocks(l) THEN None ELSE slock
    /\ lk' = [lk EXCEPT ![l] = "released"]
    /\ UNCHANGED <<fvars, hvars, meta>>

\* the client drops its released lock object
ForgetLock(l) ==
    /\ lk[l] = "released"
    /\ lk' = [lk EXCEPT ![l] = "free"]
    /\ UNCHANGED <<fvars, hvars, slock, meta>>

SetMeta(fd) ==
    /\ FileDescOk(fd)
    /\ meta' = fd
    /\ UNCHANGED <<fvars, hvars, lvars>>

-----------------------------------------------------------------------------
(* Files *)

\* a new handle h on object o
NewHandle(h, k, o, v) ==
    /\ st[h] = "free"
    /\ st' = [st EXCEPT ![h] = "open"]
    /\ kind' = [kind EXCEPT ![h] = k]
    /\ obj' = [obj EXCEPT ![h] = o]
    /\ view' = [view EXCEPT ![h] = v]

\* the file exists and has no handle
Usable(o) == o # None /\ ~open[o]

Open(fd, h) ==
    /\ FileDescOk(fd)
    /\ LET o == files[packFile(fd)]
       IN  /\ Usable(o)
           /\ open' = [open EXCEPT ![o] = TRUE]
           /\ NewHandle(h, "reader", o, data[o])
    /\ UNCHANGED <<files, data, lvars, meta>>

\* an object nothing refers to, as &memFile{} returns
Fresh(o) == (\A x \in Keys : files[x] # o) /\ (\A h \in Handles : obj[h] # o)

\* Create resets the file of that name, or makes one.
Create(fd, h) ==
    /\ FileDescOk(fd)
    /\ LET x == packFile(fd)
       IN \E o \in Objs :
            /\ IF files[x] # None THEN o = files[x] /\ Usable(o) ELSE Fresh(o)
            /\ files' = [files EXCEPT ![x] = o]
            /\ open' = [open EXCEPT ![o] = TRUE]
            /\ data' = [data EXCEPT ![o] = << >>]
            /\ NewHandle(h, "writer", o, << >>)
    /\ UNCHANGED <<lvars, meta>>

\* variant: Remove frees the buffer as well
RemoveResets(fd) ==
    /\ FileDescOk(fd)
    /\ files[packFile(fd)] # None
    /\ files' = [files EXCEPT ![packFile(fd)] = None]
    /\ data' = [data EXCEPT ![files[packFile(fd)]] = << >>]
    /\ UNCHANGED <<open, hvars, lvars, meta>>

\* Remove takes the name away, also from an open file.
Remove(fd) ==
    /\ FileDescOk(fd)
    /\ files[packFile(fd)] # None
    /\ files' = [files EXCEPT ![packFile(fd)] = None]
    /\ UNCHANGED <<open, data, hvars, lvars, meta>>

\* neither file is open, and the old one exists
Renames(old, new) == old # None /\ ~open[old] /\ (new # None => ~open[new])

Rename(oldfd, newfd) ==
    /\ FileDescOk(oldfd) /\ FileDescOk(newfd)
    /\ oldfd # newfd
    /\ LET oldx == packFile(oldfd)
           newx == packFile(newfd)
       IN  /\ Renames(files[oldx], files[newx])
           /\ files' = [files EXCEPT ![oldx] = None, ![newx] = files[oldx]]
    /\ UNCHANGED <<open, data, hvars, lvars, meta>>

\* the client still uses h
InUse(h) == st[h] = "open" \/ (st[h] = "closed" /\ UseClosed)

\* Write of a writer, straight into the memFile
Write(h) ==
    /\ InUse(h) /\ kind[h] = "writer"
    /\ Len(data[obj[h]]) < MaxLen
    /\ data' = [data EXCEPT ![obj[h]] = Append(@, h)]
    /\ UNCHANGED <<files, open, hvars, lvars, meta>>

\* Close of a reader or a writer.  The field closed is tested and never set.
Close(h) ==
    /\ InUse(h)
    /\ open' = [open EXCEPT ![obj[h]] = FALSE]
    /\ st' = [st EXCEPT ![h] = "closed"]
    /\ UNCHANGED <<files, data, kind, obj, view, lvars, meta>>

\* the client drops a closed handle
Forget(h) ==
    /\ st[h] = "closed"
    /\ st' = [st EXCEPT ![h] = "free"]
    /\ kind' = [kind EXCEPT ![h] = "reader"]
    /\ obj' = [obj EXCEPT ![h] = None]
    /\ view' = [view EXCEPT ![h] = << >>]
    /\ UNCHANGED <<fvars, lvars, meta>>

\* List: what range ms.files finds
Listed == {unpackFile(x) : x \in {y \in Keys : files[y] # None}}

Next ==
    \/ \E l \in Locks : Lock(l) \/ Unlock(l) \/ ForgetLock(l)
    \/ \E fd \in Fds : SetMeta(fd) \/ Remove(fd)
    \/ \E fd \in Fds, h \in Handles : Open(fd, h) \/ Create(fd, h)
    \/ \E oldfd, newfd \in Fds : Rename(oldfd, newfd)
    \/ \E h \in Handles : Write(h) \/ Close(h) \/ Forget(h)

Spec == Init /\ [][Next]_vars

-----------------------------------------------------------------------------
TypeOK ==
    /\ files \in [Keys -> Objs \cup {None}]
    /\ open \in [Objs -> BOOLEAN]
    /\ data \in [Objs -> Seq(Handles)]
    /\ st \in [Handles -> {"free", "open", "closed"}]
    /\ kind \in [Handles -> {"reader", "writer"}]
    /\ obj \in [Handles -> Objs \cup {None}]
    /\ view \in [Handles -> Seq(Handles)]
    /\ slock \in Locks \cup {None}
    /\ lk \in [Locks -> {"free", "held", "released"}]
    /\ meta \in GoodFds \cup {None}

(***************************************************************************)
(* The storage is locked by at most one client, whose lock object it       *)
(* knows: a lock that was released before is of no use to its old owner    *)
(* when Unlock is called a second time (Lock, memStorageLock.Unlock).      *)
(***************************************************************************)
LockExclusive == \A l \in Locks : lk[l] = "held" <=> slock = l

(***************************************************************************)
(* A file has at most one open handle, as TestMemStorage expects of a      *)
(* second Open, also after Remove, Rename and Create have changed what the *)
(* name stands for: only the flag memFile.open sees to it (Open, Create,   *)
(* the two Close methods).                                                 *)
(***************************************************************************)
OneHandle ==
    \A g, h \in Handles :
        st[g] = "open" /\ st[h] = "open" /\ obj[g] = obj[h] => g = h

(***************************************************************************)
(* What a reader reads is what the file held when it was opened, although  *)
(* it looks at the file's own buffer: nobody writes or resets that buffer  *)
(* before the reader is closed, also when the file was removed, renamed or *)
(* created again meanwhile (Open, Create, memWriter).                      *)
(***************************************************************************)
ReaderStable ==
    \A h \in Handles : st[h] = "open" /\ kind[h] = "reader" => data[obj[h]] = view[h]

(***************************************************************************)
(* The memory storage is a Storage of the descriptors it takes its clients *)
(* to mean: each stands for what Create, Remove and Rename of any          *)
(* descriptor with the same type and the same low 60 bits of the number    *)
(* made it stand for, and List returns the ones that stand for a file.     *)
(* Packing loses nothing else (packFile, unpackFile, Create, Remove,       *)
(* Rename, List).                                                          *)
(***************************************************************************)
Interface == INSTANCE Storage WITH
    Fds <- TakenFds, Files <- Objs,
    dir <- [fd \in TakenFds |-> files[packFile(fd)]], listed <- Listed
ImplementsStorage == Interface!Spec

-----------------------------------------------------------------------------
(* What the interface promises and the code does not keep: TLC refutes it. *)

(***************************************************************************)
(* Two descriptors that FileDescOk accepts never stand for one file        *)
(* (packFile shifts a number of 63 bits by four).                          *)
(***************************************************************************)
OwnFile ==
    \A a, b \in GoodFds :
        a # b /\ files[packFile(a)] # None => files[packFile(a)] # files[packFile(b)]

=============================================================================
