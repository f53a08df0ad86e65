---------------------------- MODULE FileStorage -----------------------------
(***************************************************************************)
(* The storage that keeps its files in a directory (taudb/storage/         *)
(* file_storage.go with file_storage_unix.go): the lock file between       *)
(* processes, the lock and the open counter of each storage, the handles,  *)
(* and the names of files, tables under their old name included.  Several  *)
(* processes open, use and close the directory, and may be killed.         *)
(*                                                                         *)
(* Every method holds the storage's mutex from its first access to its     *)
(* last and does one directory operation that changes something, so it is  *)
(* one step; OpenFile is two, the lock file and the rest.  Calls that      *)
(* return an error change nothing and are not steps.  CURRENT and its like *)
(* are in module MetaStore; the log is left out.                           *)
(***************************************************************************)
EXTENDS StorageTypes, FiniteSets

CONSTANTS Fds,           \* descriptors clients pass
          Files,         \* files of the file system
          Stores,        \* fileStorage objects, each in a process of its own
          Handles,       \* fileWrap objects
          Locks,         \* fileStorageLock objects
          None           \* nil, or no file

ASSUME FileAssumption ==
    /\ Fds \subseteq [type : Int, num : Int]
    /\ IsFiniteSet(Handles)
    /\ None \notin Files \cup Stores \cup Locks

GoodFds == {fd \in Fds : FileDescOk(fd)}

-----------------------------------------------------------------------------
(* Names.  A name is its number and what stands around it. *)

\* fsGenName
Ext(type) == CASE type = TypeManifest -> "MANIFEST-" [] type = TypeJournal -> "log"
               [] type = TypeTable -> "ldb"          [] type = TypeTemp -> "tmp"
fsGenName(fd) == [num |-> fd.num, ext |-> Ext(fd.type)]

fsHasOldName(fd) == fd.type = TypeTable
fsGenOldName(fd) == IF fsHasOldName(fd) THEN [num |-> fd.num, ext |-> "sst"]
                                        ELSE fsGenName(fd)

\* fsParseName: "ldb" and "sst" both stand for tables
fsParseName(name) ==
    [num  |-> name.num,
     type |-> CASE name.ext = "MANIFEST-" -> TypeManifest [] name.ext = "log" -> TypeJournal
                [] name.ext \in {"ldb", "sst"} -> TypeTable [] name.ext = "tmp" -> TypeTemp]

Names == {fsGenName(fd) : fd \in GoodFds} \cup {fsGenOldName(fd) : fd \in GoodFds}

VARIABLES
    root,    \* the directory: the file of each name
    flock,   \* what each storage holds of the lock file: "none", "sh", "ex"
    st,      \* storages: "none", "opening", "open", "closed"
    ro,      \* fileStorage.readOnly
    open,    \* fileStorage.open
    slock,   \* fileStorage.slock
    hst,     \* handles: "free", "open", or "closed" and still with its client
    hfs,     \* fileWrap.fs
    lk,      \* lock objects: "free", "held", or "released" and still with its client
    lfs      \* fileStorageLock.fs, None for a read-only storage

svars == <<flock, st, ro, open>>
hvars == <<hst, hfs>>
lvars == <<slock, lk, lfs>>
vars  == <<root, svars, hvars, lvars>>

\* A directory that an older version left has tables under their old names.
Init ==
    /\ \E old \in SUBSET {fd \in GoodFds : fsHasOldName(fd)} :
          /\ root \in [Names -> Files \cup {None}]
          /\ \A x \in Names : root[x] # None <=> \E fd \in old : x = fsGenOldName(fd)
          /\ \A x, y \in Names : root[x] = root[y] /\ root[x] # None => x = y
    /\ flock = [i \in Stores |-> "none"] /\ st = [i \in Stores |-> "none"]
    /\ ro = [i \in Stores |-> FALSE] /\ open = [i \in Stores |-> 0]
    /\ slock = [i \in Stores |-> None]
    /\ hst = [h \in Handles |-> "free"] /\ hfs = [h \in Handles |-> None]
    /\ lk = [l \in Locks |-> "free"] /\ lfs = [l \in Locks |-> None]

-----------------------------------------------------------------------------
(* OpenFile and Close *)

\* flock(2) with LOCK_NB: granted if no other open file excludes it
Flock(i, how) ==
    /\ \A j \in Stores \ {i} : flock[j] = "none" \/ (flock[j] = "sh" /\ how = "sh")
    /\ flock' = [flock EXCEPT ![i] = how]

\* unixFileLock.release; that LOCK_UN itself fails, and the file is not closed
\* then, is left out
release(i) == flock' = [flock EXCEPT ![i] = "none"]

\* newFileLock on LOCK; on failure OpenFile returns the error
OpenLock(i, readOnly) ==
    /\ st[i] = "none"
    /\ Flock(i, IF readOnly THEN "sh" ELSE "ex")
    /\ st' = [st EXCEPT ![i] = "opening"]
    /\ ro' = [ro EXCEPT ![i] = readOnly]
    /\ UNCHANGED <<root, open, hvars, lvars>>

\* the log was opened and OpenFile returns the storage
OpenFile(i) ==
    /\ st[i] = "opening"
    /\ st' = [st EXCEPT ![i] = "open"]
    /\ open' = [open EXCEPT ![i] = 0]
    /\ UNCHANGED <<root, flock, ro, hvars, lvars>>

\* variant: an error after the lock was taken keeps it
OpenFailKeeps(i) ==
    /\ st[i] = "opening" /\ ~ro[i]
    /\ st' = [st EXCEPT ![i] = "none"]
    /\ UNCHANGED <<root, flock, ro, open, hvars, lvars>>

\* the log cannot be opened: the deferred function releases the lock file
OpenFail(i) ==
    /\ st[i] = "opening" /\ ~ro[i]
    /\ st' = [st EXCEPT ![i] = "none"]
    /\ release(i)
    /\ UNCHANGED <<root, ro, open, hvars, lvars>>

\* the test of every method: the client has the storage and open is not negative
Alive(i) == st[i] \in {"open", "closed"} /\ open[i] >= 0

\* variant: the counter goes back to zero
ClosedCountZero(i) == 0

\* "if open < 0 means closed"
ClosedCount(i) == -1

\* Close, called by a client or as finalizer, also when files are still open
Close(i) ==
    /\ Alive(i)
    /\ st' = [st EXCEPT ![i] = "closed"]
    /\ open' = [open EXCEPT ![i] = ClosedCount(i)]
    /\ release(i)
    /\ UNCHANGED <<root, ro, hvars, lvars>>

\* the last reference to a closed storage is gone
Forget(i) ==
    /\ st[i] = "closed"
    /\ \A h \in Handles : hfs[h] # i
    /\ \A l \in Locks : lfs[l] # i
    /\ st' = [st EXCEPT ![i] = "none"]
    /\ open' = [open EXCEPT ![i] = 0]
    /\ UNCHANGED <<root, flock, ro, hvars, lvars>>

\* The process of a storage is killed: the system closes its files, which
\* releases its lock on LOCK.
Kill(i) ==
    /\ st[i] # "none"
    /\ st' = [st EXCEPT ![i] = "none"]
    /\ flock' = [flock EXCEPT ![i] = "none"]
    /\ open' = [open EXCEPT ![i] = 0]
    /\ slock' = [slock EXCEPT ![i] = None]
    /\ hst' = [h \in Handles |-> IF hfs[h] = i THEN "free" ELSE hst[h]]
    /\ hfs' = [h \in Handles |-> IF hfs[h] = i THEN None ELSE hfs[h]]
    /\ lk' = [l \in Locks |-> IF lfs[l] = i THEN "free" ELSE lk[l]]
    /\ lfs' = [l \in Locks |-> IF lfs[l] = i THEN None ELSE lfs[l]]
    /\ UNCHANGED <<root, ro>>

-----------------------------------------------------------------------------
(* Lock and Unlock *)

Lock(i, l) ==
    /\ Alive(i)
    /\ lk[l] = "free"
    /\ lk' = [lk EXCEPT ![l] = "held"]
    /\ \/ /\ ro[i]
          /\ UNCHANGED <<slock, lfs>>
       \/ /\ ~ro[i] /\ slock[i] = None
          /\ slock' = [slock EXCEPT ![i] = l]
          /\ lfs' = [lfs EXCEPT ![l] = i]
    /\ UNCHANGED <<root, svars, hvars>>

\* variant: whoever calls Unlock releases the storage
UnlocksAny(l) == lfs[l] # None

\* only the lock object of the storage releases it
Unlocks(l) == lfs[l] # None /\ slock[lfs[l]] = l

\* Unlock, which a client may call again later
Unlock(l) ==
    /\ lk[l] # "free"
    /\ slock' = [i \in Stores |-> IF lfs[l] = i /\ Unlocks(l) THEN None ELSE slock[i]]
    /\ lk' = [lk EXCEPT ![l] = "released"]
    /\ UNCHANGED <<root, svars, hvars, lfs>>

\* the client drops its released lock object
ForgetLock(l) ==
    /\ lk[l] = "released"
    /\ lk' = [lk EXCEPT ![l] = "free"]
    /\ lfs' = [lfs EXCEPT ![l] = None]
    /\ UNCHANGED <<root, svars, hvars, slock>>

-----------------------------------------------------------------------------
(* Files *)

\* the name under which Open and Remove find a descriptor: the new one, else
\* the old one
Lookup(fd) == IF root[fsGenName(fd)] # None THEN fsGenName(fd) ELSE fsGenOldName(fd)

\* the tests that begin every method, and the one that keeps readers out
Usable(i, fd) == FileDescOk(fd) /\ Alive(i)
Writable(i, fd) == Usable(i, fd) /\ ~ro[i]

\* a new handle h, which the storage counts
NewHandle(i, h) ==
    /\ hst[h] = "free"
    /\ hst' = [hst EXCEPT ![h] = "open"]
    /\ hfs' = [hfs EXCEPT ![h] = i]
    /\ open' = [open EXCEPT ![i] = @ + 1]

Open(i, fd, h) ==
    /\ Usable(i, fd)
    /\ root[Lookup(fd)] # None
    /\ NewHandle(i, h)
    /\ UNCHANGED <<root, flock, st, ro, lvars>>

\* O_CREATE | O_TRUNC, always under the new name: beside the file of a table
\* that has its old name there is a second one then
Create(i, fd, h) ==
    /\ Writable(i, fd)
    /\ \E f \in Files :
          /\ IF root[fsGenName(fd)] # None THEN f = root[fsGenName(fd)]
                                           ELSE \A x \in Names : root[x] # f
          /\ root' = [root EXCEPT ![fsGenName(fd)] = f]
    /\ NewHandle(i, h)
    /\ UNCHANGED <<flock, st, ro, lvars>>

\* the file with the new name, else the one with the old name, never both
Remove(i, fd) ==
    /\ Writable(i, fd)
    /\ root[Lookup(fd)] # None
    /\ root' = [root EXCEPT ![Lookup(fd)] = None]
    /\ UNCHANGED <<svars, hvars, lvars>>

\* variant: the file keeps its old name as well
RenameCopies(i, oldfd, newfd) ==
    /\ Writable(i, oldfd) /\ FileDescOk(newfd) /\ oldfd # newfd
    /\ root[fsGenName(oldfd)] # None
    /\ root' = [root EXCEPT ![fsGenName(newfd)] = root[fsGenName(oldfd)]]
    /\ UNCHANGED <<svars, hvars, lvars>>

\* from new name to new name: a table that Open finds under its old name
\* cannot be renamed, and one that has it as the target keeps it
Rename(i, oldfd, newfd) ==
    /\ Writable(i, oldfd) /\ FileDescOk(newfd) /\ oldfd # newfd
    /\ root[fsGenName(oldfd)] # None
    /\ root' = [root EXCEPT ![fsGenName(oldfd)] = None,
                            ![fsGenName(newfd)] = root[fsGenName(oldfd)]]
    /\ UNCHANGED <<svars, hvars, lvars>>

\* fileWrap.Close, also after the storage was closed
CloseHandle(h) ==
    /\ hst[h] = "open"
    /\ hst' = [hst EXCEPT ![h] = "closed"]
    /\ open' = [open EXCEPT ![hfs[h]] = @ - 1]
    /\ UNCHANGED <<root, flock, st, ro, hfs, lvars>>

\* the client drops a closed handle
ForgetHandle(h) ==
    /\ hst[h] = "closed"
    /\ hst' = [hst EXCEPT ![h] = "free"]
    /\ hfs' = [hfs EXCEPT ![h] = None]
    /\ UNCHANGED <<root, svars, lvars>>

\* variant: tables under their old name are overlooked
ListedNamesNew == {x \in Names : root[x] # None /\ x.ext # "sst"}

\* List(TypeAll) returns a descriptor for each of these names
ListedNames == {x \in Names : root[x] # None}
Listed == {fsParseName(x) : x \in ListedNames}

Next ==
    \/ \E i \in Stores, readOnly \in BOOLEAN : OpenLock(i, readOnly)
    \/ \E i \in Stores : OpenFile(i) \/ OpenFail(i) \/ Close(i) \/ Forget(i) \/ Kill(i)
    \/ \E i \in Stores, l \in Locks : Lock(i, l)
    \/ \E l \in Locks : Unlock(l) \/ ForgetLock(l)
    \/ \E i \in Stores, fd \in Fds, h \in Handles : Open(i, fd, h) \/ Create(i, fd, h)
    \/ \E i \in Stores, fd \in Fds : Remove(i, fd)
    \/ \E i \in Stores, oldfd, newfd \in Fds : Rename(i, oldfd, newfd)
    \/ \E h \in Handles : CloseHandle(h) \/ ForgetHandle(h)

Spec == Init /\ [][Next]_vars

-----------------------------------------------------------------------------
TypeOK ==
    /\ root \in [Names -> Files \cup {None}]
    /\ flock \in [Stores -> {"none", "sh", "ex"}]
    /\ st \in [Stores -> {"none", "opening", "open", "closed"}]
    /\ ro \in [Stores -> BOOLEAN]
    /\ open \in [Stores -> (-1 - Cardinality(Handles))..Cardinality(Handles)]
    /\ slock \in [Stores -> Locks \cup {None}]
    /\ hst \in [Handles -> {"free", "open", "closed"}]
    /\ hfs \in [Handles -> Stores \cup {None}]
    /\ lk \in [Locks -> {"free", "held", "released"}]
    /\ lfs \in [Locks -> Stores \cup {None}]

(***************************************************************************)
(* The lock file is held by exactly the storages that are open or being    *)
(* opened: a failed OpenFile, Close and the death of a process all give it *)
(* back, and none of them gives back another's (OpenFile's deferred        *)
(* release, Close).                                                        *)
(***************************************************************************)
FlockHeld ==
    \A i \in Stores : flock[i] # "none" <=> st[i] \in {"opening", "open"}

(***************************************************************************)
(* Of all the clients that locked a writable storage of the directory and  *)
(* did not unlock it, in whatever process, at most one works on a storage  *)
(* that is open: the lock file and slock together make Lock exclusive, and *)
(* an Unlock that comes twice or too late does not break it (OpenFile,     *)
(* Lock, Unlock, Close).                                                   *)
(***************************************************************************)
LockExclusive ==
    \A l, m \in {k \in Locks : lk[k] = "held" /\ lfs[k] # None} :
        st[lfs[l]] = "open" /\ st[lfs[m]] = "open" => l = m

\* the steps in which storage i changes what is behind fd
Changes(i, fd) ==
    \/ \E h \in Handles : Create(i, fd, h)
    \/ Remove(i, fd)
    \/ \E newfd \in Fds : Rename(i, fd, newfd)

(***************************************************************************)
(* The storage that creates, removes or renames a file is open and holds   *)
(* the lock file, alone: one that was closed, or opened read-only, never   *)
(* changes what another one may rely on, and nothing else changes a name   *)
(* (every method's test of open, Create, Remove, Rename).                  *)
(***************************************************************************)
OnlyOwnerWrites ==
    [][/\ root' # root => \E i \in Stores, fd \in Fds : Changes(i, fd)
       /\ \A i \in Stores, fd \in Fds : Changes(i, fd) =>
             /\ st[i] = "open" /\ flock[i] = "ex"
             /\ \A j \in Stores \ {i} : flock[j] = "none"]_vars

\* a table has files under both its names, of which Open finds the newer
Shadowed(fd) ==
    fsHasOldName(fd) /\ root[fsGenName(fd)] # None /\ root[fsGenOldName(fd)] # None

(***************************************************************************)
(* List returns every descriptor that Open would find, and twice only a    *)
(* table that has files under both its names (List, Open, fsParseName).    *)
(***************************************************************************)
ListFaithful ==
    /\ Listed = {fd \in GoodFds : root[Lookup(fd)] # None}
    /\ \A x, y \in ListedNames :
          fsParseName(x) = fsParseName(y) => x = y \/ Shadowed(fsParseName(x))

\* what Open finds behind each descriptor
Dir == [fd \in GoodFds |-> root[Lookup(fd)]]

Interface == INSTANCE Storage WITH Fds <- GoodFds, dir <- Dir, listed <- Listed

\* Remove or Rename took the newer file of a table away: the older one is back
Uncovers(fd) ==
    /\ Shadowed(fd)
    /\ \/ Dir' = [Dir EXCEPT ![fd] = root[fsGenOldName(fd)]]
       \/ \E newfd \in GoodFds \ {fd} :
             Dir' = [Dir EXCEPT ![fd] = root[fsGenOldName(fd)], ![newfd] = Dir[fd]]
    /\ Listed' = Interface!Present'

(***************************************************************************)
(* What Open and List find behind the descriptors changes as the interface *)
(* Storage says, with one exception: a table that was created, or renamed  *)
(* to, while a file with its old name was there comes back as that file    *)
(* when it is removed or renamed.  Old names do no other harm (Create,     *)
(* Remove, Rename, List; a Rename that fails, as it does for a table with  *)
(* its old name only, changes nothing).                                    *)
(***************************************************************************)
ImplementsStorage ==
    /\ Interface!Init
    /\ [][Interface!Next \/ \E fd \in GoodFds : Uncovers(fd)]_<<Dir, Listed>>

-----------------------------------------------------------------------------
(* What the interface promises and the code does not keep: TLC refutes it. *)

(***************************************************************************)
(* No table has files under both its names, so that none is listed twice   *)
(* or comes back after Remove (Create, Rename).                            *)
(***************************************************************************)
OneName == \A fd \in GoodFds : ~Shadowed(fd)

(***************************************************************************)
(* What Open finds Rename finds as well.                                   *)
(***************************************************************************)
RenameFinds ==
    \A fd \in GoodFds : root[Lookup(fd)] # None => root[fsGenName(fd)] # None

=============================================================================
