-------------------------- MODULE FileStorageProofs --------------------------
(***************************************************************************)
(* Proofs about module FileStorage, for any number of processes, handles,  *)
(* locks, files and descriptors: the lock file is held by exactly the      *)
(* storages in use, Lock is exclusive across processes, only the storage   *)
(* that holds the lock file alone changes names, the counter of open files *)
(* is exact, List is faithful, and what Open finds follows Storage, older  *)
(* files of tables that come back excepted.                                *)
(***************************************************************************)
EXTENDS FileStorage, FiniteSetTheorems, TLAPS

(***************************************************************************)
(* The types that do not depend on the counting argument.                  *)
(***************************************************************************)
Typed ==
    /\ root \in [Names -> Files \cup {None}]
    /\ flock \in [Stores -> {"none", "sh", "ex"}]
    /\ st \in [Stores -> {"none", "opening", "open", "closed"}]
    /\ ro \in [Stores -> BOOLEAN]
    /\ open \in [Stores -> Int]
    /\ slock \in [Stores -> Locks \cup {None}]
    /\ hst \in [Handles -> {"free", "open", "closed"}]
    /\ hfs \in [Handles -> Stores \cup {None}]
    /\ lk \in [Locks -> {"free", "held", "released"}]
    /\ lfs \in [Locks -> Stores \cup {None}]

\* the storages a client may have a handle or a lock of
Handed == {i \in Stores : st[i] \in {"open", "closed"}}

(***************************************************************************)
(* A handle that a client has belongs to a storage that was handed out.    *)
(***************************************************************************)
HandlesOwned ==
    \A h \in Handles : /\ hst[h] = "free" <=> hfs[h] = None
                       /\ hfs[h] # None => hfs[h] \in Handed

(***************************************************************************)
(* A lock object that names a storage was made by a storage that was       *)
(* handed out for writing; while it is held it is the one slock names.     *)
(***************************************************************************)
LocksOwned ==
    \A l \in Locks : lfs[l] # None =>
        /\ lk[l] # "free"
        /\ lfs[l] \in Handed
        /\ ro[lfs[l]] = FALSE
        /\ lk[l] = "held" => slock[lfs[l]] = l

(***************************************************************************)
(* A storage in use holds the lock file the way it was opened, and a       *)
(* writer holds it alone.                                                  *)
(***************************************************************************)
FlockKind ==
    \A i \in Stores :
        flock[i] = IF st[i] \in {"opening", "open"}
                   THEN IF ro[i] = TRUE THEN "sh" ELSE "ex"
                   ELSE "none"

FlockAlone ==
    \A i, j \in Stores : flock[i] = "ex" /\ i # j => flock[j] = "none"

(***************************************************************************)
(* The counter of open files.  OpenOf(i) are the handles of storage i that *)
(* are not closed.  The counter is their number until the storage is       *)
(* closed; from then on it is negative, for ever: the handles that outlive *)
(* the storage only take it further down, and never below the bound.       *)
(***************************************************************************)
OpenOf(i) == {h \in Handles : hst[h] = "open" /\ hfs[h] = i}

CountOf(i) ==
    /\ st[i] = "open" => open[i] = Cardinality(OpenOf(i))
    /\ st[i] = "closed" =>
           /\ open[i] <= -1
           /\ Cardinality(OpenOf(i)) - 1 - Cardinality(Handles) <= open[i]
    /\ st[i] \in {"none", "opening"} => open[i] = 0

CountExact == \A i \in Stores : CountOf(i)

HInv == Typed /\ HandlesOwned /\ CountExact
FInv == HInv /\ LocksOwned /\ FlockKind /\ FlockAlone

-----------------------------------------------------------------------------
(***************************************************************************)
(* The handles are finitely many, so are those of a storage.               *)
(***************************************************************************)
LEMMA OpenOfFinite ==
    ASSUME NEW i
    PROVE  /\ IsFiniteSet(OpenOf(i))
           /\ Cardinality(OpenOf(i)) \in Nat
           /\ Cardinality(OpenOf(i)) <= Cardinality(Handles)
           /\ Cardinality(Handles) \in Nat
<1>1. OpenOf(i) \in SUBSET Handles
  BY DEF OpenOf
<1> QED
  BY <1>1, FileAssumption, FS_Subset, FS_CardinalityType

(***************************************************************************)
(* A storage that passes the test of every method is open: the counter of  *)
(* a closed one is negative ("if open < 0 means closed").                  *)
(***************************************************************************)
LEMMA AliveIsOpen ==
    ASSUME HInv, NEW i \in Stores
    PROVE  Alive(i) <=> st[i] = "open"
BY OpenOfFinite DEF HInv, Typed, CountExact, CountOf, Alive

(***************************************************************************)
(* A descriptor that every method accepts has its names in the directory.  *)
(***************************************************************************)
LEMMA LookupNames ==
    ASSUME NEW fd \in Fds, FileDescOk(fd)
    PROVE  /\ fd \in GoodFds
           /\ fsGenName(fd) \in Names /\ fsGenOldName(fd) \in Names
           /\ Lookup(fd) \in Names
BY DEF GoodFds, Names, Lookup

(***************************************************************************)
(* Every step keeps the types.                                             *)
(***************************************************************************)
LEMMA TypedStep == HInv /\ [Next]_vars => Typed'
<1> SUFFICES ASSUME HInv, [Next]_vars PROVE Typed'
  OBVIOUS
<1>0. Typed
  BY DEF HInv
<1>1. ASSUME NEW i \in Stores, NEW readOnly \in BOOLEAN, OpenLock(i, readOnly)
      PROVE  Typed'
  <2>1. ro' \in [Stores -> BOOLEAN]
    BY <1>0, <1>1, Zenon DEF Typed, OpenLock
  <2> QED
    BY <1>0, <1>1, <2>1 DEF Typed, OpenLock, Flock, hvars, lvars
<1>2. ASSUME NEW i \in Stores,
             OpenFile(i) \/ OpenFail(i) \/ Close(i) \/ Forget(i)
      PROVE  Typed'
  BY <1>0, <1>2 DEF Typed, OpenFile, OpenFail, Close, Forget, ClosedCount, release,
     hvars, lvars
<1>3. ASSUME NEW i \in Stores, Kill(i) PROVE Typed'
  BY <1>0, <1>3 DEF Typed, Kill
<1>4. ASSUME NEW i \in Stores, NEW l \in Locks, Lock(i, l) PROVE Typed'
  BY <1>0, <1>4 DEF Typed, Lock, svars, hvars
<1>5. ASSUME NEW l \in Locks, Unlock(l) \/ ForgetLock(l) PROVE Typed'
  BY <1>0, <1>5 DEF Typed, Unlock, ForgetLock, svars, hvars
<1>6. ASSUME NEW i \in Stores, NEW h \in Handles, NewHandle(i, h),
             UNCHANGED <<flock, st, ro, lvars>>, root' \in [Names -> Files \cup {None}]
      PROVE  Typed'
  BY <1>0, <1>6 DEF Typed, NewHandle, lvars
<1>7. ASSUME NEW i \in Stores, NEW fd \in Fds, NEW h \in Handles,
             Open(i, fd, h) \/ Create(i, fd, h)
      PROVE  Typed'
  <2>1. root' \in [Names -> Files \cup {None}]
    BY <1>0, <1>7, LookupNames DEF Typed, Open, Create, Writable, Usable
  <2> QED
    BY <1>6, <1>7, <2>1 DEF Open, Create
<1>8. ASSUME NEW i \in Stores, NEW fd \in Fds, Remove(i, fd) PROVE Typed'
  <2>1. root' \in [Names -> Files \cup {None}]
    BY <1>0, <1>8 DEF Typed, Remove
  <2> QED
    BY <1>0, <1>8, <2>1 DEF Typed, Remove, svars, hvars, lvars
<1>9. ASSUME NEW i \in Stores, NEW oldfd \in Fds, NEW newfd \in Fds,
             Rename(i, oldfd, newfd)
      PROVE  Typed'
  <2>1. root' \in [Names -> Files \cup {None}]
    BY <1>0, <1>9, LookupNames DEF Typed, Rename, Writable, Usable
  <2> QED
    BY <1>0, <1>9, <2>1 DEF Typed, Rename, svars, hvars, lvars
<1>10. ASSUME NEW h \in Handles, CloseHandle(h) PROVE Typed'
  <2>1. hfs[h] \in Stores
    BY <1>0, <1>10 DEF HInv, HandlesOwned, Handed, CloseHandle
  <2> QED
    BY <1>0, <1>10, <2>1 DEF Typed, CloseHandle, lvars
<1>11. ASSUME NEW h \in Handles, ForgetHandle(h) PROVE Typed'
  BY <1>0, <1>11 DEF Typed, ForgetHandle, svars, lvars
<1>12. CASE UNCHANGED vars
  BY <1>0, <1>12 DEF Typed, vars, svars, hvars, lvars
<1> QED
  BY <1>1, <1>2, <1>3, <1>4, <1>5, <1>7, <1>8, <1>9, <1>10, <1>11, <1>12 DEF Next

(***************************************************************************)
(* Every step keeps the handles with storages that were handed out.        *)
(***************************************************************************)
LEMMA HandlesStep == HInv /\ [Next]_vars => HandlesOwned'
<1> SUFFICES ASSUME HInv, [Next]_vars PROVE HandlesOwned'
  OBVIOUS
<1>0. Typed /\ HandlesOwned
  BY DEF HInv
<1> USE DEF HandlesOwned, Handed
<1>1. ASSUME UNCHANGED hvars, \A j \in Handed : (\E h \in Handles : hfs[h] = j) => j \in Handed'
      PROVE  HandlesOwned'
  BY <1>0, <1>1 DEF Typed, hvars
<1>2. ASSUME NEW i \in Stores, NEW readOnly \in BOOLEAN, OpenLock(i, readOnly)
      PROVE  HandlesOwned'
  BY <1>0, <1>1, <1>2 DEF Typed, OpenLock
<1>3. ASSUME NEW i \in Stores,
             OpenFile(i) \/ OpenFail(i) \/ Close(i) \/ Forget(i)
      PROVE  HandlesOwned'
  BY <1>0, <1>1, <1>3 DEF Typed, OpenFile, OpenFail, Close, Forget
<1>4. ASSUME NEW i \in Stores, Kill(i) PROVE HandlesOwned'
  BY <1>0, <1>4, FileAssumption DEF Typed, Kill
<1>5. ASSUME NEW i \in Stores, NEW l \in Locks, Lock(i, l) PROVE HandlesOwned'
  BY <1>0, <1>1, <1>5 DEF Lock, svars
<1>6. ASSUME NEW l \in Locks, Unlock(l) \/ ForgetLock(l) PROVE HandlesOwned'
  BY <1>0, <1>1, <1>6 DEF Unlock, ForgetLock, svars
<1>7. ASSUME NEW i \in Stores, NEW fd \in Fds, NEW h \in Handles,
             Open(i, fd, h) \/ Create(i, fd, h)
      PROVE  HandlesOwned'
  <2>1. Alive(i) /\ NewHandle(i, h) /\ st' = st
    BY <1>7 DEF Open, Create, Writable, Usable
  <2> QED
    BY <1>0, <2>1, FileAssumption DEF Typed, NewHandle, Alive
<1>8. ASSUME NEW i \in Stores, NEW fd \in Fds, Remove(i, fd) PROVE HandlesOwned'
  BY <1>0, <1>1, <1>8 DEF Remove, svars
<1>9. ASSUME NEW i \in Stores, NEW oldfd \in Fds, NEW newfd \in Fds,
             Rename(i, oldfd, newfd)
      PROVE  HandlesOwned'
  BY <1>0, <1>1, <1>9 DEF Rename, svars
<1>10. ASSUME NEW h \in Handles, CloseHandle(h) \/ ForgetHandle(h) PROVE HandlesOwned'
  BY <1>0, <1>10, FileAssumption DEF Typed, CloseHandle, ForgetHandle, svars
<1>11. CASE UNCHANGED vars
  BY <1>0, <1>1, <1>11 DEF vars, svars
<1> QED
  BY <1>2, <1>3, <1>4, <1>5, <1>6, <1>7, <1>8, <1>9, <1>10, <1>11 DEF Next

(***************************************************************************)
(* Every step keeps the counters of open files exact: each new handle and  *)
(* each closed one moves the counter of its own storage by one, in         *)
(* whatever order handles and storages are closed (fileWrap.Close, Close). *)
(***************************************************************************)
LEMMA CountStep == HInv /\ [Next]_vars => CountExact'
<1> SUFFICES ASSUME HInv, [Next]_vars PROVE CountExact'
  OBVIOUS
<1>0. Typed /\ HandlesOwned /\ \A j \in Stores : CountOf(j)
  BY DEF HInv, CountExact
<1> SUFFICES ASSUME NEW j \in Stores PROVE CountOf(j)'
  BY DEF CountExact
<1>1. ASSUME st'[j] = st[j], open'[j] = open[j], OpenOf(j)' = OpenOf(j)
      PROVE  CountOf(j)'
  BY <1>0, <1>1 DEF CountOf
<1>2. ASSUME UNCHANGED <<st, open, hvars>> PROVE CountOf(j)'
  BY <1>1, <1>2 DEF OpenOf, hvars
<1>3. ASSUME NEW i \in Stores, UNCHANGED hvars, st[i] \in {"none", "opening"},
             \E s \in {"none", "opening"} : st' = [st EXCEPT ![i] = s],
             open' = open
      PROVE  CountOf(j)'
  BY <1>0, <1>3 DEF Typed, OpenOf, hvars, CountOf
<1>4. ASSUME NEW i \in Stores,
             (\E readOnly \in BOOLEAN : OpenLock(i, readOnly)) \/ OpenFail(i)
      PROVE  CountOf(j)'
  BY <1>3, <1>4 DEF OpenLock, OpenFail
<1>5. ASSUME NEW i \in Stores, OpenFile(i) PROVE CountOf(j)'
  <2>1. OpenOf(i) = {}
    BY <1>0, <1>5 DEF OpenFile, OpenOf, HandlesOwned, Handed, Typed
  <2>2. OpenOf(j)' = OpenOf(j)
    BY <1>5 DEF OpenFile, OpenOf, hvars
  <2> QED
    BY <1>0, <1>1, <1>5, <2>1, <2>2, FS_EmptySet DEF OpenFile, Typed, CountOf
<1>6. ASSUME NEW i \in Stores, Close(i) PROVE CountOf(j)'
  <2>1. OpenOf(j)' = OpenOf(j)
    BY <1>6 DEF Close, OpenOf, hvars
  <2>2. CASE j = i
    <3>1. st'[j] = "closed" /\ open'[j] = -1
      BY <1>0, <1>6, <2>2 DEF Close, Typed, ClosedCount
    <3> QED
      BY <2>1, <3>1, OpenOfFinite DEF CountOf
  <2>3. CASE j # i
    BY <1>0, <1>1, <1>6, <2>1, <2>3 DEF Close, Typed
  <2> QED
    BY <2>2, <2>3
<1>7. ASSUME NEW i \in Stores, Forget(i) PROVE CountOf(j)'
  <2>1. OpenOf(j)' = OpenOf(j)
    BY <1>7 DEF Forget, OpenOf, hvars
  <2> QED
    BY <1>0, <1>1, <1>7, <2>1 DEF Forget, Typed, CountOf
<1>8. ASSUME NEW i \in Stores, Kill(i) PROVE CountOf(j)'
  <2>1. CASE j = i
    BY <1>0, <1>8, <2>1 DEF Kill, Typed, CountOf
  <2>2. CASE j # i
    <3>1. OpenOf(j)' = OpenOf(j)
      BY <1>0, <1>8, <2>2, FileAssumption DEF Kill, OpenOf, Typed
    <3> QED
      BY <1>0, <1>1, <1>8, <2>2, <3>1 DEF Kill, Typed
  <2> QED
    BY <2>1, <2>2
<1>9. ASSUME NEW i \in Stores, NEW l \in Locks, Lock(i, l) PROVE CountOf(j)'
  BY <1>2, <1>9 DEF Lock, svars
<1>10. ASSUME NEW l \in Locks, Unlock(l) \/ ForgetLock(l) PROVE CountOf(j)'
  BY <1>2, <1>10 DEF Unlock, ForgetLock, svars
<1>11. ASSUME NEW i \in Stores, NEW fd \in Fds, NEW h \in Handles,
             Open(i, fd, h) \/ Create(i, fd, h)
      PROVE  CountOf(j)'
  <2>1. Alive(i) /\ NewHandle(i, h) /\ st' = st
    BY <1>11 DEF Open, Create, Writable, Usable
  <2>2. CASE j = i
    <3>1. OpenOf(j)' = OpenOf(j) \cup {h} /\ h \notin OpenOf(j)
      BY <1>0, <2>1, <2>2 DEF NewHandle, OpenOf, Typed, HandlesOwned
    <3>2. Cardinality(OpenOf(j)') = Cardinality(OpenOf(j)) + 1
      BY <3>1, OpenOfFinite, FS_AddElement
    <3>3. st[j] = "open" /\ open[j] = Cardinality(OpenOf(j)) /\ open'[j] = open[j] + 1
      BY <1>0, <2>1, <2>2, AliveIsOpen DEF NewHandle, Typed, CountOf
    <3> QED
      BY <2>1, <3>2, <3>3 DEF CountOf
  <2>3. CASE j # i
    <3>1. OpenOf(j)' = OpenOf(j)
      BY <1>0, <2>1, <2>3, FileAssumption DEF NewHandle, OpenOf, Typed, HandlesOwned
    <3> QED
      BY <1>0, <1>1, <2>1, <2>3, <3>1 DEF NewHandle, Typed
  <2> QED
    BY <2>2, <2>3
<1>12. ASSUME NEW i \in Stores, NEW fd \in Fds, Remove(i, fd) PROVE CountOf(j)'
  BY <1>2, <1>12 DEF Remove, svars
<1>13. ASSUME NEW i \in Stores, NEW oldfd \in Fds, NEW newfd \in Fds,
             Rename(i, oldfd, newfd)
      PROVE  CountOf(j)'
  BY <1>2, <1>13 DEF Rename, svars
<1>14. ASSUME NEW h \in Handles, CloseHandle(h) PROVE CountOf(j)'
  <2>1. hfs[h] \in Stores /\ hfs[h] \in Handed
    BY <1>0, <1>14 DEF CloseHandle, HandlesOwned, Handed
  <2>2. CASE j = hfs[h]
    <3>1. OpenOf(j)' = OpenOf(j) \ {h} /\ h \in OpenOf(j)
      BY <1>0, <1>14, <2>2 DEF CloseHandle, OpenOf, Typed
    <3>2. Cardinality(OpenOf(j)') = Cardinality(OpenOf(j)) - 1
      BY <3>1, OpenOfFinite, FS_RemoveElement
    <3>3. open'[j] = open[j] - 1 /\ open[j] \in Int /\ st' = st /\ st[j] \in {"open", "closed"}
      BY <1>0, <1>14, <2>1, <2>2 DEF CloseHandle, Typed, Handed
    <3> QED
      BY <1>0, <3>2, <3>3, OpenOfFinite DEF CountOf
  <2>3. CASE j # hfs[h]
    <3>1. OpenOf(j)' = OpenOf(j)
      BY <1>0, <1>14, <2>3 DEF CloseHandle, OpenOf, Typed
    <3> QED
      BY <1>0, <1>1, <1>14, <2>1, <2>3, <3>1 DEF CloseHandle, Typed
  <2> QED
    BY <2>2, <2>3
<1>15. ASSUME NEW h \in Handles, ForgetHandle(h) PROVE CountOf(j)'
  <2>1. OpenOf(j)' = OpenOf(j)
    BY <1>0, <1>15, FileAssumption DEF ForgetHandle, OpenOf, Typed
  <2> QED
    BY <1>1, <1>15, <2>1 DEF ForgetHandle, svars
<1>16. CASE UNCHANGED vars
  BY <1>2, <1>16 DEF vars, svars
<1> QED
  BY <1>4, <1>5, <1>6, <1>7, <1>8, <1>9, <1>10, <1>11, <1>12, <1>13, <1>14, <1>15, <1>16
     DEF Next

-----------------------------------------------------------------------------
(* The lock file and the lock of a storage. *)

(***************************************************************************)
(* Every step keeps the lock file with exactly the storages in use.        *)
(***************************************************************************)
LEMMA FlockStep == FInv /\ [Next]_vars => (FlockKind /\ FlockAlone)'
<1> SUFFICES ASSUME FInv, [Next]_vars PROVE (FlockKind /\ FlockAlone)'
  OBVIOUS
<1>0. Typed /\ HInv /\ FlockKind /\ FlockAlone
  BY DEF FInv, HInv
<1> USE DEF FlockKind, FlockAlone
<1>1. ASSUME NEW i \in Stores, NEW readOnly \in BOOLEAN, OpenLock(i, readOnly)
      PROVE  (FlockKind /\ FlockAlone)'
  <2>1. /\ flock' = [flock EXCEPT ![i] = IF readOnly = TRUE THEN "sh" ELSE "ex"]
        /\ st' = [st EXCEPT ![i] = "opening"]
        /\ ro' = [ro EXCEPT ![i] = readOnly]
    BY <1>1 DEF OpenLock, Flock
  <2>2. FlockKind'
    BY <1>0, <2>1 DEF Typed
  <2>3. \A j \in Stores \ {i} :
            flock[j] = "none" \/ (flock[j] = "sh" /\ flock'[i] = "sh")
    BY <1>0, <1>1, <2>1 DEF OpenLock, Flock, Typed
  <2>4. FlockAlone'
    BY <1>0, <2>1, <2>3 DEF Typed
  <2> QED
    BY <2>2, <2>4
<1>2. ASSUME NEW i \in Stores, OpenFile(i) PROVE (FlockKind /\ FlockAlone)'
  BY <1>0, <1>2 DEF OpenFile, Typed
<1>3. ASSUME NEW i \in Stores, OpenFail(i) \/ Close(i) \/ Kill(i)
      PROVE  (FlockKind /\ FlockAlone)'
  <2>1. /\ flock' = [flock EXCEPT ![i] = "none"] /\ ro' = ro
        /\ \E s \in {"none", "closed"} : st' = [st EXCEPT ![i] = s]
    BY <1>3 DEF OpenFail, Close, Kill, release
  <2> QED
    BY <1>0, <2>1 DEF Typed
<1>4. ASSUME NEW i \in Stores, Forget(i) PROVE (FlockKind /\ FlockAlone)'
  BY <1>0, <1>4 DEF Forget, Typed
<1>5. ASSUME UNCHANGED <<flock, st, ro>> PROVE (FlockKind /\ FlockAlone)'
  BY <1>0, <1>5
<1>6. ASSUME NEW i \in Stores, NEW l \in Locks, Lock(i, l)
      PROVE  (FlockKind /\ FlockAlone)'
  BY <1>5, <1>6 DEF Lock, svars
<1>7. ASSUME NEW l \in Locks, Unlock(l) \/ ForgetLock(l)
      PROVE  (FlockKind /\ FlockAlone)'
  BY <1>5, <1>7 DEF Unlock, ForgetLock, svars
<1>8. ASSUME NEW i \in Stores, NEW fd \in Fds,
             \/ \E h \in Handles : Open(i, fd, h) \/ Create(i, fd, h)
             \/ Remove(i, fd)
             \/ \E newfd \in Fds : Rename(i, fd, newfd)
      PROVE  (FlockKind /\ FlockAlone)'
  BY <1>5, <1>8 DEF Open, Create, Remove, Rename, svars
<1>9. ASSUME NEW h \in Handles, CloseHandle(h) \/ ForgetHandle(h)
      PROVE  (FlockKind /\ FlockAlone)'
  BY <1>5, <1>9 DEF CloseHandle, ForgetHandle, svars
<1>10. CASE UNCHANGED vars
  BY <1>5, <1>10 DEF vars, svars
<1> QED
  BY <1>1, <1>2, <1>3, <1>4, <1>6, <1>7, <1>8, <1>9, <1>10 DEF Next

(***************************************************************************)
(* Every step keeps slock with the lock object that is held: an Unlock     *)
(* that comes again, or after another client locked, releases nothing.     *)
(***************************************************************************)
LEMMA LocksStep == FInv /\ [Next]_vars => LocksOwned'
<1> SUFFICES ASSUME FInv, [Next]_vars PROVE LocksOwned'
  OBVIOUS
<1>0. Typed /\ HInv /\ LocksOwned
  BY DEF FInv, HInv
<1> USE DEF LocksOwned, Handed
<1>1. ASSUME UNCHANGED <<st, ro, lvars>> PROVE LocksOwned'
  BY <1>0, <1>1 DEF lvars
<1>2. ASSUME UNCHANGED lvars, NEW i \in Stores, \A l \in Locks : lfs[l] # i,
             \E s : st' = [st EXCEPT ![i] = s],
             ro' = ro \/ \E b : ro' = [ro EXCEPT ![i] = b]
      PROVE  LocksOwned'
  BY <1>0, <1>2 DEF Typed, lvars
<1>3. ASSUME NEW i \in Stores,
             \/ \E readOnly \in BOOLEAN : OpenLock(i, readOnly)
             \/ OpenFile(i) \/ OpenFail(i) \/ Forget(i)
      PROVE  LocksOwned'
  <2>1. \A l \in Locks : lfs[l] # i
    BY <1>0, <1>3, FileAssumption DEF Typed, OpenLock, OpenFile, OpenFail, Forget
  <2> QED
    BY <1>2, <1>3, <2>1 DEF OpenLock, OpenFile, OpenFail, Forget
<1>4. ASSUME NEW i \in Stores, Close(i) PROVE LocksOwned'
  BY <1>0, <1>4 DEF Close, Typed, lvars
<1>5. ASSUME NEW i \in Stores, Kill(i) PROVE LocksOwned'
  BY <1>0, <1>5, FileAssumption DEF Kill, Typed
<1>6. ASSUME NEW i \in Stores, NEW l \in Locks, Lock(i, l) PROVE LocksOwned'
  <2>1. st' = st /\ ro' = ro /\ i \in Handed /\ lfs[l] = None
    BY <1>0, <1>6, FileAssumption DEF Lock, Alive, Typed, svars
  <2>2. CASE ro[i] = TRUE /\ UNCHANGED <<slock, lfs>>
    BY <1>0, <1>6, <2>1, <2>2 DEF Lock, Typed
  <2>3. CASE /\ ro[i] = FALSE /\ slock[i] = None
             /\ slock' = [slock EXCEPT ![i] = l] /\ lfs' = [lfs EXCEPT ![l] = i]
    <3>1. \A m \in Locks : lk[m] = "held" => lfs[m] # i
      BY <1>0, <2>3, FileAssumption DEF Typed
    <3> QED
      BY <1>0, <1>6, <2>1, <2>3, <3>1 DEF Lock, Typed
  <2> QED
    BY <1>0, <1>6, <2>2, <2>3 DEF Lock, Typed
<1>7. ASSUME NEW l \in Locks, Unlock(l) PROVE LocksOwned'
  BY <1>0, <1>7 DEF Unlock, Unlocks, Typed, svars
<1>8. ASSUME NEW l \in Locks, ForgetLock(l) PROVE LocksOwned'
  BY <1>0, <1>8 DEF ForgetLock, Typed, svars
<1>9. ASSUME NEW i \in Stores, NEW fd \in Fds,
             \/ \E h \in Handles : Open(i, fd, h) \/ Create(i, fd, h)
             \/ Remove(i, fd)
             \/ \E newfd \in Fds : Rename(i, fd, newfd)
      PROVE  LocksOwned'
  BY <1>1, <1>9 DEF Open, Create, Remove, Rename, svars
<1>10. ASSUME NEW h \in Handles, CloseHandle(h) \/ ForgetHandle(h) PROVE LocksOwned'
  BY <1>1, <1>10 DEF CloseHandle, ForgetHandle, svars
<1>11. CASE UNCHANGED vars
  BY <1>1, <1>11 DEF vars, svars
<1> QED
  BY <1>3, <1>4, <1>5, <1>6, <1>7, <1>8, <1>9, <1>10, <1>11 DEF Next

(***************************************************************************)
(* A directory that no process has open satisfies the invariant.           *)
(***************************************************************************)
LEMMA InitFInv == Init => FInv
<1> SUFFICES ASSUME Init PROVE FInv
  OBVIOUS
<1>1. ro \in [Stores -> BOOLEAN]
  BY Zenon DEF Init
<1>2. Typed
  BY <1>1 DEF Init, Typed
<1>3. HandlesOwned /\ LocksOwned
  BY FileAssumption DEF Init, HandlesOwned, LocksOwned
<1>4. CountExact
  BY DEF Init, CountExact, CountOf
<1>5. FlockKind /\ FlockAlone
  BY DEF Init, FlockKind, FlockAlone
<1> QED
  BY <1>2, <1>3, <1>4, <1>5 DEF FInv, HInv

(***************************************************************************)
(* The invariant holds in every reachable state.                           *)
(***************************************************************************)
LEMMA FInvariance == Spec => []FInv
<1>1. FInv /\ [Next]_vars => FInv'
  BY TypedStep, HandlesStep, CountStep, FlockStep, LocksStep DEF FInv, HInv
<1> QED
  BY <1>1, InitFInv, PTL DEF Spec

(***************************************************************************)
(* The state of the storages is well typed; in particular the counter of   *)
(* open files stays within the number of handles on both sides of -1.      *)
(***************************************************************************)
THEOREM TypeCorrect == Spec => []TypeOK
<1>1. FInv => TypeOK
  <2> SUFFICES ASSUME FInv PROVE TypeOK
    OBVIOUS
  <2>1. \A i \in Stores : open[i] \in (-1 - Cardinality(Handles))..Cardinality(Handles)
    BY OpenOfFinite DEF FInv, HInv, Typed, CountExact, CountOf
  <2> QED
    BY <2>1 DEF FInv, HInv, Typed, TypeOK
<1> QED
  BY <1>1, FInvariance, PTL

(***************************************************************************)
(* The lock file is held by exactly the storages that are open or being    *)
(* opened (OpenFile with its deferred release, Close, a killed process).   *)
(***************************************************************************)
THEOREM FlockHeldHolds == Spec => []FlockHeld
<1>1. FInv => FlockHeld
  BY DEF FInv, HInv, Typed, FlockKind, FlockHeld
<1> QED
  BY <1>1, FInvariance, PTL

(***************************************************************************)
(* Of the clients that hold the lock of a writable storage, in whatever    *)
(* process, at most one has an open storage (Lock, Unlock, OpenFile).      *)
(***************************************************************************)
THEOREM LockExclusiveHolds == Spec => []LockExclusive
<1>1. FInv => LockExclusive
  <2> SUFFICES ASSUME FInv,
                      NEW l \in Locks, lk[l] = "held", lfs[l] # None, st[lfs[l]] = "open",
                      NEW m \in Locks, lk[m] = "held", lfs[m] # None, st[lfs[m]] = "open"
               PROVE  l = m
    BY DEF LockExclusive
  <2>1. lfs[l] \in Stores /\ lfs[m] \in Stores /\ slock[lfs[l]] = l /\ slock[lfs[m]] = m
    BY DEF FInv, LocksOwned, Handed
  <2>2. flock[lfs[l]] = "ex" /\ flock[lfs[m]] = "ex"
    BY <2>1 DEF FInv, LocksOwned, FlockKind
  <2>3. lfs[l] = lfs[m]
    BY <2>1, <2>2 DEF FInv, FlockAlone
  <2> QED
    BY <2>1, <2>3
<1> QED
  BY <1>1, FInvariance, PTL

(***************************************************************************)
(* Every other step leaves the directory alone.                            *)
(***************************************************************************)
LEMMA OthersKeepNames ==
    /\ \A i \in Stores :
          \/ \E readOnly \in BOOLEAN : OpenLock(i, readOnly)
          \/ OpenFile(i) \/ OpenFail(i) \/ Close(i) \/ Forget(i) \/ Kill(i)
          \/ \E l \in Locks : Lock(i, l)
          \/ \E fd \in Fds, h \in Handles : Open(i, fd, h)
          => root' = root
    /\ \A l \in Locks : Unlock(l) \/ ForgetLock(l) => root' = root
    /\ \A h \in Handles : CloseHandle(h) \/ ForgetHandle(h) => root' = root
    /\ UNCHANGED vars => root' = root
<1>1. ASSUME NEW i \in Stores,
             \/ \E readOnly \in BOOLEAN : OpenLock(i, readOnly)
             \/ OpenFile(i) \/ OpenFail(i) \/ Close(i) \/ Forget(i) \/ Kill(i)
             \/ \E l \in Locks : Lock(i, l)
             \/ \E fd \in Fds, h \in Handles : Open(i, fd, h)
      PROVE  root' = root
  BY <1>1 DEF OpenLock, OpenFile, OpenFail, Close, Forget, Kill, Lock, Open
<1>2. ASSUME NEW l \in Locks, Unlock(l) \/ ForgetLock(l) PROVE root' = root
  BY <1>2 DEF Unlock, ForgetLock
<1>3. ASSUME NEW h \in Handles, CloseHandle(h) \/ ForgetHandle(h) PROVE root' = root
  BY <1>3 DEF CloseHandle, ForgetHandle
<1>4. UNCHANGED vars => root' = root
  BY DEF vars
<1> QED
  BY <1>1, <1>2, <1>3, <1>4

(***************************************************************************)
(* The storage that changes a name is open and holds the lock file alone,  *)
(* and only Create, Remove and Rename change names (every method's test of *)
(* open, Create, Remove, Rename).                                          *)
(***************************************************************************)
THEOREM OnlyOwnerWritesHolds == Spec => OnlyOwnerWrites
<1> DEFINE A == /\ root' # root => \E i \in Stores, fd \in Fds : Changes(i, fd)
                /\ \A i \in Stores, fd \in Fds : Changes(i, fd) =>
                      /\ st[i] = "open" /\ flock[i] = "ex"
                      /\ \A j \in Stores \ {i} : flock[j] = "none"
<1>1. ASSUME FInv, NEW i \in Stores, NEW fd \in Fds, Changes(i, fd)
      PROVE  /\ st[i] = "open" /\ flock[i] = "ex"
             /\ \A j \in Stores \ {i} : flock[j] = "none"
  <2>1. Writable(i, fd)
    BY <1>1 DEF Changes, Create, Remove, Rename
  <2>2. st[i] = "open" /\ ro[i] = FALSE
    BY <1>1, <2>1, AliveIsOpen DEF FInv, HInv, Typed, Writable, Usable
  <2>3. flock[i] = "ex"
    BY <1>1, <2>2 DEF FInv, FlockKind
  <2> QED
    BY <1>1, <2>2, <2>3 DEF FInv, FlockAlone
<1>2. ASSUME [Next]_vars, root' # root
      PROVE  \E i \in Stores, fd \in Fds : Changes(i, fd)
  BY <1>2, OthersKeepNames DEF Next, Changes
<1>3. FInv /\ [Next]_vars => [A]_vars
  BY <1>1, <1>2
<1>4. Spec => [][A]_vars
  <2> HIDE DEF A
  <2> QED
    BY <1>3, FInvariance, PTL DEF Spec
<1> QED
  BY <1>4 DEF OnlyOwnerWrites

(***************************************************************************)
(* A storage accepts calls exactly while it is open, and until then its    *)
(* counter is the number of its handles that are not closed ("if open < 0  *)
(* means closed"): a handle that is closed after its storage never makes a *)
(* closed storage look open again.                                         *)
(***************************************************************************)
UsableIffOpen ==
    \A i \in Stores : /\ Alive(i) <=> st[i] = "open"
                      /\ st[i] = "open" => open[i] = Cardinality(OpenOf(i))

(***************************************************************************)
(* The counter of open files tells an open storage from a closed one, in   *)
(* whatever order handles and storages are closed (Close, fileWrap.Close). *)
(***************************************************************************)
THEOREM UsableIffOpenHolds == Spec => []UsableIffOpen
<1>1. FInv => UsableIffOpen
  BY AliveIsOpen DEF FInv, HInv, CountExact, CountOf, UsableIffOpen
<1> QED
  BY <1>1, FInvariance, PTL

-----------------------------------------------------------------------------
(* Names. *)

(***************************************************************************)
(* fsParseName undoes fsGenName and fsGenOldName.                          *)
(***************************************************************************)
LEMMA ParseGen ==
    ASSUME NEW fd \in GoodFds
    PROVE  /\ fsParseName(fsGenName(fd)) = fd
           /\ fsParseName(fsGenOldName(fd)) = fd
<1>1. /\ fd = [type |-> fd.type, num |-> fd.num]
      /\ fd.type \in {TypeManifest, TypeJournal, TypeTable, TypeTemp}
  BY FileAssumption DEF GoodFds, FileDescOk, TypeAll
<1> USE DEF TypeManifest, TypeJournal, TypeTable, TypeTemp, fsParseName, fsGenName,
            fsGenOldName, fsHasOldName, Ext
<1>2. CASE fd.type = TypeTable
  BY <1>1, <1>2
<1>3. CASE fd.type = TypeManifest
  BY <1>1, <1>3
<1>4. CASE fd.type = TypeJournal
  BY <1>1, <1>4
<1>5. CASE fd.type = TypeTemp
  BY <1>1, <1>5
<1> QED
  BY <1>1, <1>2, <1>3, <1>4, <1>5

(***************************************************************************)
(* Different descriptors have different names, and the old name of a table *)
(* is the new name of no descriptor.                                       *)
(***************************************************************************)
LEMMA NamesApart ==
    ASSUME NEW fd \in GoodFds, NEW gd \in GoodFds
    PROVE  /\ fsGenName(fd) = fsGenName(gd) => fd = gd
           /\ fsGenName(fd) = fsGenOldName(gd) => fd = gd /\ ~fsHasOldName(gd)
           /\ fsGenOldName(fd) = fsGenOldName(gd) => fd = gd
           /\ ~fsHasOldName(fd) => fsGenOldName(fd) = fsGenName(fd)
<1>1. fsGenName(fd) = fsGenName(gd) => fd = gd
  BY ParseGen
<1>2. fsGenOldName(fd) = fsGenOldName(gd) => fd = gd
  BY ParseGen
<1>3. fsGenName(fd) = fsGenOldName(gd) => fd = gd
  BY ParseGen
<1>4. fsHasOldName(fd) => fsGenName(fd) # fsGenOldName(fd)
  BY DEF fsHasOldName, fsGenName, fsGenOldName, Ext, TypeManifest, TypeJournal,
         TypeTable, TypeTemp
<1> QED
  BY <1>1, <1>2, <1>3, <1>4 DEF fsGenOldName

\* what a step does to the directory of descriptors
DirStep ==
    \/ Dir' = Dir
    \/ \E fd \in GoodFds, f \in Files :
          /\ \A g \in GoodFds : Dir[g] # f
          /\ Dir' = [Dir EXCEPT ![fd] = f]
    \/ \E fd \in GoodFds :
          /\ Dir[fd] # None
          /\ \E f : /\ f = None \/ (Shadowed(fd) /\ f = root[fsGenOldName(fd)])
                   /\ \/ Dir' = [Dir EXCEPT ![fd] = f]
                      \/ \E newfd \in GoodFds \ {fd} :
                            Dir' = [Dir EXCEPT ![fd] = f, ![newfd] = Dir[fd]]

(***************************************************************************)
(* A descriptor both of whose names keep their file stands for the same    *)
(* file as before.                                                         *)
(***************************************************************************)
LEMMA DirFrame ==
    ASSUME NEW g \in GoodFds,
           root'[fsGenName(g)] = root[fsGenName(g)],
           root'[fsGenOldName(g)] = root[fsGenOldName(g)]
    PROVE  Dir'[g] = Dir[g]
BY DEF Dir, Lookup

(***************************************************************************)
(* The directory of descriptors is a function, before and after a step.    *)
(***************************************************************************)
LEMMA DirFunction ==
    /\ Dir = [g \in GoodFds |-> Dir[g]]
    /\ Dir' = [g \in GoodFds |-> Dir'[g]]
BY DEF Dir

(***************************************************************************)
(* Create makes one new file, which Open finds from then on, or leaves     *)
(* every name with its file.                                               *)
(***************************************************************************)
LEMMA CreateNames ==
    ASSUME Typed, NEW i \in Stores, NEW fd \in Fds, NEW h \in Handles, Create(i, fd, h)
    PROVE  DirStep
<1> DEFINE x == fsGenName(fd)
<1>1. fd \in GoodFds /\ x \in Names
  BY LookupNames DEF Create, Writable, Usable
<1>2. PICK f \in Files :
          /\ IF root[x] # None THEN f = root[x] ELSE \A z \in Names : root[z] # f
          /\ root' = [root EXCEPT ![x] = f]
  BY DEF Create
<1>3. CASE root[x] # None
  <2>1. root' = root
    BY <1>1, <1>2, <1>3 DEF Typed
  <2> QED
    BY <2>1 DEF DirStep, Dir, Lookup
<1>4. CASE root[x] = None
  <2>1. f # None
    BY FileAssumption
  <2> HIDE DEF x
  <2>2. ASSUME NEW g \in GoodFds, g # fd PROVE Dir'[g] = Dir[g]
    <3>1. fsGenName(g) # x /\ fsGenOldName(g) # x
      BY <1>1, <2>2, NamesApart DEF x
    <3>2. fsGenName(g) \in Names /\ fsGenOldName(g) \in Names
      BY LookupNames DEF GoodFds
    <3> QED
      BY <1>1, <1>2, <3>1, <3>2, DirFrame DEF Typed
  <2>3. root'[x] = f
    BY <1>1, <1>2 DEF Typed
  <2>4. Dir'[fd] = f
    BY <1>1, <2>1, <2>3 DEF Dir, Lookup, x
  <2>5. \A g \in GoodFds : Dir[g] # f
    <3>1. \A g \in GoodFds : Lookup(g) \in Names
      BY LookupNames DEF GoodFds
    <3> QED
      BY <1>2, <1>4, <3>1 DEF Dir
  <2>6. Dir' = [Dir EXCEPT ![fd] = f]
    BY <1>1, <2>2, <2>4, DirFunction
  <2> QED
    BY <1>1, <1>2, <2>5, <2>6 DEF DirStep
<1> QED
  BY <1>3, <1>4

(***************************************************************************)
(* Remove takes the file that Open found of one descriptor; what it leaves *)
(* is nothing, or the older file of a table that has two.                  *)
(***************************************************************************)
LEMMA RemoveNames ==
    ASSUME Typed, NEW i \in Stores, NEW fd \in Fds, Remove(i, fd)
    PROVE  DirStep
<1> DEFINE x == fsGenName(fd)
           y == fsGenOldName(fd)
           z == Lookup(fd)
<1>1. /\ fd \in GoodFds /\ x \in Names /\ y \in Names /\ z \in Names
      /\ root[z] # None /\ root' = [root EXCEPT ![z] = None]
      /\ z = IF root[x] # None THEN x ELSE y
      /\ fsHasOldName(fd) => x # y
      /\ ~fsHasOldName(fd) => y = x
  BY LookupNames, NamesApart DEF Remove, Writable, Usable, Lookup
<1>2. Shadowed(fd) <=> fsHasOldName(fd) /\ root[x] # None /\ root[y] # None
  BY DEF Shadowed
<1> HIDE DEF x, y, z
<1>3. ASSUME NEW g \in GoodFds, g # fd PROVE Dir'[g] = Dir[g]
  <2>1. fsGenName(g) # z /\ fsGenOldName(g) # z
    BY <1>1, <1>3, NamesApart DEF x, y
  <2>2. fsGenName(g) \in Names /\ fsGenOldName(g) \in Names
    BY LookupNames DEF GoodFds
  <2> QED
    BY <1>1, <2>1, <2>2, DirFrame DEF Typed
<1>4. root'[x] = None /\ (root'[y] = None \/ (Shadowed(fd) /\ root'[y] = root[y]))
  BY <1>1, <1>2 DEF Typed
<1>5. Dir[fd] # None /\ Dir'[fd] = root'[y]
  BY <1>1, <1>4 DEF Dir, Lookup, x, y, z
<1>6. Dir' = [Dir EXCEPT ![fd] = root'[y]]
  BY <1>1, <1>3, <1>5, DirFunction
<1> QED
  BY <1>1, <1>4, <1>5, <1>6 DEF DirStep, y

(***************************************************************************)
(* Rename moves the file that Open found of one descriptor to another.     *)
(***************************************************************************)
LEMMA RenameNames ==
    ASSUME Typed, NEW i \in Stores, NEW oldfd \in Fds, NEW newfd \in Fds,
           Rename(i, oldfd, newfd)
    PROVE  DirStep
<1> DEFINE x == fsGenName(oldfd)
           y == fsGenOldName(oldfd)
           v == fsGenName(newfd)
           f == root[x]
<1>1. /\ oldfd \in GoodFds /\ newfd \in GoodFds /\ oldfd # newfd
      /\ x \in Names /\ y \in Names /\ v \in Names
      /\ f # None /\ root' = [root EXCEPT ![x] = None, ![v] = f]
  BY LookupNames DEF Rename, Writable, Usable
<1>2. /\ x # v /\ y # v
      /\ fsHasOldName(oldfd) => x # y
      /\ ~fsHasOldName(oldfd) => y = x
  BY <1>1, NamesApart
<1>3. Shadowed(oldfd) <=> fsHasOldName(oldfd) /\ f # None /\ root[y] # None
  BY DEF Shadowed
<1> HIDE DEF x, y, v, f
<1>4. root'[x] = None /\ root'[v] = f
  BY <1>1, <1>2 DEF Typed
<1>5. root'[y] = None \/ (Shadowed(oldfd) /\ root'[y] = root[y])
  BY <1>1, <1>2, <1>3, <1>4 DEF Typed
<1>6. ASSUME NEW g \in GoodFds \ {oldfd, newfd} PROVE Dir'[g] = Dir[g]
  <2>1. /\ fsGenName(g) # x /\ fsGenName(g) # v
        /\ fsGenOldName(g) # x /\ fsGenOldName(g) # v
    BY <1>1, <1>6, NamesApart DEF x, v
  <2>2. fsGenName(g) \in Names /\ fsGenOldName(g) \in Names
    BY LookupNames DEF GoodFds
  <2> QED
    BY <1>1, <2>1, <2>2, DirFrame DEF Typed
<1>7. Dir[oldfd] = f /\ Dir'[oldfd] = root'[y] /\ Dir'[newfd] = f
  BY <1>1, <1>4 DEF Dir, Lookup, x, y, v, f
<1>8. Dir' = [Dir EXCEPT ![oldfd] = root'[y], ![newfd] = Dir[oldfd]]
  BY <1>1, <1>6, <1>7, DirFunction
<1> QED
  BY <1>1, <1>5, <1>7, <1>8 DEF DirStep, y

(***************************************************************************)
(* Every step is a step of the directory of descriptors.                   *)
(***************************************************************************)
LEMMA NamesStep ==
    ASSUME Typed, [Next]_vars
    PROVE  DirStep
<1>1. ASSUME root' = root PROVE DirStep
  BY <1>1 DEF DirStep, Dir, Lookup
<1> QED
  BY <1>1, OthersKeepNames, CreateNames, RemoveNames, RenameNames DEF Next

(***************************************************************************)
(* List returns what Open finds, and twice only a table with two files.    *)
(***************************************************************************)
LEMMA ListedIsFound == ListFaithful
<1>1. ASSUME NEW x \in ListedNames
      PROVE  \E fd \in GoodFds : /\ fsParseName(x) = fd
                                 /\ x = fsGenName(fd) \/ x = fsGenOldName(fd)
                                 /\ root[Lookup(fd)] # None
  BY ParseGen DEF ListedNames, Names, Lookup
<1>2. Listed \subseteq {fd \in GoodFds : root[Lookup(fd)] # None}
  BY <1>1 DEF Listed
<1>3. ASSUME NEW fd \in GoodFds, root[Lookup(fd)] # None PROVE fd \in Listed
  <2>1. Lookup(fd) \in ListedNames
    BY <1>3, LookupNames DEF GoodFds, ListedNames
  <2>2. fsParseName(Lookup(fd)) = fd
    BY ParseGen DEF Lookup
  <2> QED
    BY <2>1, <2>2 DEF Listed
<1>4. ASSUME NEW x \in ListedNames, NEW y \in ListedNames, fsParseName(x) = fsParseName(y)
      PROVE  x = y \/ Shadowed(fsParseName(x))
  <2>1. PICK fd \in GoodFds : /\ fsParseName(x) = fd
                              /\ x = fsGenName(fd) \/ x = fsGenOldName(fd)
                              /\ y = fsGenName(fd) \/ y = fsGenOldName(fd)
    BY <1>1, <1>4
  <2>2. root[x] # None /\ root[y] # None
    BY DEF ListedNames
  <2> QED
    BY <2>1, <2>2, NamesApart DEF Shadowed
<1> QED
  BY <1>2, <1>3, <1>4 DEF ListFaithful

(***************************************************************************)
(* List returns every descriptor that Open would find, and twice only a    *)
(* table with files under both its names (List, fsParseName, Open).        *)
(***************************************************************************)
THEOREM ListFaithfulHolds == Spec => []ListFaithful
BY ListedIsFound, PTL

(***************************************************************************)
(* What Open and List find behind the descriptors follows Storage, except  *)
(* that the removal or renaming of a table uncovers an older file that has *)
(* the table's old name (Create, Remove, Rename, List).                    *)
(***************************************************************************)
THEOREM StorageImplemented == Spec => ImplementsStorage
<1> DEFINE B == Interface!Next \/ \E fd \in GoodFds : Uncovers(fd)
<1>1. Init => Interface!Init
  <2> SUFFICES ASSUME Init PROVE Interface!Init
    OBVIOUS
  <2>1. \A a \in GoodFds : Lookup(a) \in Names
    BY LookupNames DEF GoodFds
  <2>2. Dir \in [GoodFds -> Files \cup {None}]
    BY <2>1 DEF Init, Dir
  <2>3. ASSUME NEW a \in GoodFds, NEW b \in GoodFds, Dir[a] = Dir[b], Dir[a] # None
        PROVE  a = b
    <3>1. Lookup(a) = Lookup(b)
      BY <2>1, <2>3 DEF Init, Dir
    <3> QED
      BY <3>1, ParseGen DEF Lookup
  <2> QED
    BY <2>2, <2>3, ListedIsFound
       DEF Interface!Init, Interface!Injective, Interface!Present, Dir, ListFaithful
<1>2. ASSUME FInv, ListFaithful, ListFaithful', [Next]_vars
      PROVE  [B]_<<Dir, Listed>>
  <2>1. DirStep
    BY <1>2, NamesStep DEF FInv, HInv
  <2>2. /\ Listed = {fd \in GoodFds : Dir[fd] # None}
        /\ Listed' = {fd \in GoodFds : Dir'[fd] # None}
    BY <1>2 DEF ListFaithful, Dir
  <2>3. CASE Dir' = Dir
    BY <2>2, <2>3
  <2>4. Listed' = Interface!Present'
    BY <2>2 DEF Interface!Present
  <2>5. ASSUME NEW fd \in GoodFds, NEW f \in Files,
               \A g \in GoodFds : Dir[g] # f, Dir' = [Dir EXCEPT ![fd] = f]
        PROVE  B
    BY <2>4, <2>5 DEF Interface!Next, Interface!Create
  <2>6. ASSUME NEW fd \in GoodFds, Dir[fd] # None,
               NEW f, f = None \/ (Shadowed(fd) /\ f = root[fsGenOldName(fd)]),
               \/ Dir' = [Dir EXCEPT ![fd] = f]
               \/ \E newfd \in GoodFds \ {fd} :
                     Dir' = [Dir EXCEPT ![fd] = f, ![newfd] = Dir[fd]]
        PROVE  B
    <3>1. CASE f = None
      BY <2>4, <2>6, <3>1 DEF Interface!Next, Interface!Remove, Interface!Rename
    <3>2. CASE Shadowed(fd) /\ f = root[fsGenOldName(fd)]
      BY <2>4, <2>6, <3>2 DEF Uncovers
    <3> QED
      BY <2>6, <3>1, <3>2
  <2> HIDE DEF B
  <2> QED
    BY <2>1, <2>3, <2>5, <2>6 DEF DirStep
<1>3. Spec => Interface!Init /\ [][B]_<<Dir, Listed>>
  <2> HIDE DEF B
  <2> QED
    BY <1>1, <1>2, ListedIsFound, FInvariance, PTL DEF Spec
<1> QED
  BY <1>3 DEF ImplementsStorage

=============================================================================
