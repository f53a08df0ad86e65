-------------------------- MODULE MemStorageProofs ---------------------------
(***************************************************************************)
(* Proofs about module MemStorage, for any descriptors, files, handles and *)
(* locks: typing, the exclusive lock, and that the storage implements      *)
(* Storage; and, for clients that do not use a handle they closed, that a  *)
(* file has one open handle at most and that what a reader looks at stands *)
(* still.                                                                  *)
(*                                                                         *)
(* ReaderStable is not inductive: that nobody else writes the buffer needs *)
(* OneHandle, and that needs OpenFlag, the promise of the flag memFile.open*)
(* on which Open and Create decide.  A second Close breaks OpenFlag, a     *)
(* Write to a closed handle breaks ReaderStable.                           *)
(***************************************************************************)
EXTENDS MemStorage, SequenceTheorems, TLAPS

(***************************************************************************)
(* A handle that a client has points to a memFile.                         *)
(***************************************************************************)
HandleBound == \A h \in Handles : st[h] # "free" => obj[h] \in Objs

(***************************************************************************)
(* The file of an open handle has its flag set.                            *)
(***************************************************************************)
OpenFlag == \A h \in Handles : st[h] = "open" => open[obj[h]] = TRUE

MInv == TypeOK /\ HandleBound /\ LockExclusive

RInv == OpenFlag /\ OneHandle /\ ReaderStable

-----------------------------------------------------------------------------
(***************************************************************************)
(* Quotient and remainder of a division.                                   *)
(***************************************************************************)
LEMMA DivMod ==
    ASSUME NEW a \in Nat, NEW d \in Nat \ {0}
    PROVE  /\ a \div d \in Nat /\ a % d \in Nat /\ a % d < d
           /\ a = d * (a \div d) + (a % d)
<1>1. a \div d \in Int /\ a % d \in Int /\ a % d >= 0 /\ a % d < d
  OBVIOUS
<1>2. a = d * (a \div d) + (a % d)
  OBVIOUS
<1>3. a \div d >= 0
  <2>1. PICK q \in Int : q = a \div d
    BY <1>1
  <2>2. q < 0 => d * q <= -d
    OBVIOUS
  <2>3. d * q \in Int
    OBVIOUS
  <2> QED
    BY <1>1, <1>2, <2>1, <2>2, <2>3
<1> QED
  BY <1>1, <1>2, <1>3

(***************************************************************************)
(* They are the only ones.                                                 *)
(***************************************************************************)
LEMMA DivModIs ==
    ASSUME NEW q \in Nat, NEW d \in Nat \ {0}, NEW r \in 0..(d - 1)
    PROVE  (d * q + r) \div d = q /\ (d * q + r) % d = r
OBVIOUS

(***************************************************************************)
(* A key keeps the type and, of the number, what it has room for.          *)
(***************************************************************************)
LEMMA PackIs ==
    ASSUME NEW t \in {1, 2, 4, 8}, NEW n \in Nat
    PROVE  /\ n % Nums \in Nat /\ n % Nums < Nums
           /\ (n * 16 + t) % (16 * Nums) = (n % Nums) * 16 + t
<1>1. Nums \in Nat \ {0}
  BY MemAssumption
<1>2. PICK q \in Nat, m \in Nat : q = n \div Nums /\ m = n % Nums /\ m < Nums /\ n = Nums * q + m
  BY <1>1, DivMod
<1>3. PICK W \in Nat \ {0} : W = 16 * Nums
  BY <1>1
<1>4. PICK s \in Nat : s = m * 16 + t
  BY <1>2
<1>5. s \in 0..(W - 1)
  BY <1>1, <1>2, <1>3, <1>4
<1>6. n * 16 + t = W * q + s
  <2>1. PICK p \in Nat : p = Nums * q
    BY <1>1, <1>2
  <2>2. W * q = 16 * p
    BY <1>1, <1>3, <2>1
  <2>3. n = p + m
    BY <1>2, <2>1
  <2>4. n * 16 + t = 16 * p + s
    BY <1>4, <2>3
  <2> QED
    BY <2>2, <2>4
<1>7. (W * q + s) % W = s
  BY <1>5, DivModIs
<1> QED
  BY <1>1, <1>2, <1>3, <1>4, <1>6, <1>7

(***************************************************************************)
(* What an accepted descriptor is taken for has the same key, and is what  *)
(* List makes of that key (packFile, unpackFile).                          *)
(***************************************************************************)
LEMMA PackUnpack ==
    ASSUME NEW fd \in GoodFds
    PROVE  /\ unpackFile(packFile(fd)) = Taken(fd)
           /\ packFile(Taken(fd)) = packFile(fd)
<1>1. fd.type \in {1, 2, 4, 8} /\ fd.num \in Nat
  BY MemAssumption DEF GoodFds, FileDescOk, TypeAll, TypeManifest, TypeJournal, TypeTable,
                       TypeTemp
<1>2. PICK t \in {1, 2, 4, 8}, n \in Nat : t = fd.type /\ n = fd.num
  BY <1>1
<1>3. PICK m \in Nat : m = n % Nums /\ m < Nums /\ (n * 16 + t) % (16 * Nums) = m * 16 + t
  BY PackIs
<1>4. Taken(fd) = [type |-> t, num |-> m]
  BY <1>2, <1>3 DEF Taken
<1>5. packFile(fd) = m * 16 + t
  BY <1>2, <1>3 DEF packFile
<1>6. m % Nums = m
  BY <1>3, MemAssumption
<1>7. (m * 16 + t) % (16 * Nums) = m * 16 + t
  BY <1>6, PackIs
<1>8. packFile(Taken(fd)) = m * 16 + t
  BY <1>4, <1>7 DEF packFile
<1>9. (m * 16 + t) % 16 = t /\ (m * 16 + t) \div 16 = m
  OBVIOUS
<1>10. unpackFile(m * 16 + t) = [type |-> t, num |-> m]
  BY <1>9 DEF unpackFile
<1> QED
  BY <1>4, <1>5, <1>8, <1>10

(***************************************************************************)
(* The descriptors the storage knows have keys, each its own.              *)
(***************************************************************************)
LEMMA PackInjective ==
    /\ \A a \in TakenFds : packFile(a) \in Keys /\ unpackFile(packFile(a)) = a
    /\ \A a, b \in TakenFds : packFile(a) = packFile(b) => a = b
<1>1. ASSUME NEW a \in TakenFds PROVE packFile(a) \in Keys /\ unpackFile(packFile(a)) = a
  <2>1. PICK fd \in GoodFds : a = Taken(fd)
    BY DEF TakenFds
  <2>2. unpackFile(packFile(fd)) = Taken(fd) /\ packFile(Taken(fd)) = packFile(fd)
    BY PackUnpack
  <2>3. packFile(fd) \in Keys
    BY DEF Keys
  <2> QED
    BY <2>1, <2>2, <2>3, Zenon
<1> QED
  BY <1>1

(***************************************************************************)
(* A descriptor the methods accept has a key.                              *)
(***************************************************************************)
LEMMA HasKey ==
    ASSUME NEW fd \in Fds, FileDescOk(fd)
    PROVE  /\ fd \in GoodFds /\ packFile(fd) \in Keys
           /\ Taken(fd) \in TakenFds /\ packFile(Taken(fd)) = packFile(fd)
<1>1. fd \in GoodFds
  BY DEF GoodFds
<1> QED
  BY <1>1, PackUnpack DEF Keys, TakenFds

-----------------------------------------------------------------------------
(***************************************************************************)
(* An empty storage satisfies the invariants.                              *)
(***************************************************************************)
LEMMA InitMem == Init => MInv /\ RInv
<1> SUFFICES ASSUME Init PROVE MInv /\ RInv
  OBVIOUS
<1>1. open \in [Objs -> BOOLEAN]
  BY Zenon DEF Init
<1>2. << >> \in Seq(Handles)
  BY EmptySeq
<1>3. TypeOK
  BY <1>1, <1>2 DEF Init, TypeOK
<1> QED
  BY <1>3, MemAssumption DEF Init, MInv, RInv, HandleBound, LockExclusive, OpenFlag, OneHandle,
                             ReaderStable

(***************************************************************************)
(* Every step keeps the types, the handles bound and the lock exclusive.   *)
(***************************************************************************)
LEMMA MInvStep == MInv /\ [Next]_vars => MInv'
<1> SUFFICES ASSUME MInv, [Next]_vars PROVE MInv'
  OBVIOUS
<1>0. TypeOK /\ HandleBound /\ LockExclusive
  BY DEF MInv
<1> USE DEF MInv
<1>1. ASSUME NEW l \in Locks, Lock(l) \/ Unlock(l) \/ ForgetLock(l) PROVE MInv'
  <2>1. TypeOK'
    BY <1>0, <1>1 DEF TypeOK, Lock, Unlock, ForgetLock, fvars, hvars
  <2>2. HandleBound'
    BY <1>0, <1>1 DEF HandleBound, Lock, Unlock, ForgetLock, hvars
  <2>3. LockExclusive'
    BY <1>0, <1>1, MemAssumption
       DEF LockExclusive, TypeOK, Lock, Unlock, ForgetLock, Unlocks
  <2> QED
    BY <2>1, <2>2, <2>3
<1>2. ASSUME TypeOK', UNCHANGED lvars, HandleBound' PROVE MInv'
  BY <1>0, <1>2 DEF LockExclusive, lvars
<1>3. ASSUME NEW fd \in Fds, SetMeta(fd) PROVE MInv'
  <2>1. TypeOK' /\ HandleBound'
    BY <1>0, <1>3 DEF SetMeta, TypeOK, HandleBound, GoodFds, fvars, hvars, lvars
  <2> QED
    BY <1>2, <1>3, <2>1 DEF SetMeta
<1>4. ASSUME NEW fd \in Fds, Remove(fd) PROVE MInv'
  <2>1. TypeOK' /\ HandleBound'
    BY <1>0, <1>4 DEF Remove, TypeOK, HandleBound, hvars, lvars
  <2> QED
    BY <1>2, <1>4, <2>1 DEF Remove
<1>5. ASSUME NEW h \in Handles, NEW k \in {"reader", "writer"}, NEW o \in Objs,
             NEW v \in Seq(Handles), NewHandle(h, k, o, v)
      PROVE  /\ st' \in [Handles -> {"free", "open", "closed"}]
             /\ kind' \in [Handles -> {"reader", "writer"}]
             /\ obj' \in [Handles -> Objs \cup {None}]
             /\ view' \in [Handles -> Seq(Handles)]
             /\ HandleBound'
  BY <1>0, <1>5 DEF NewHandle, TypeOK, HandleBound
<1>6. ASSUME NEW fd \in Fds, NEW h \in Handles, Open(fd, h) PROVE MInv'
  <2> DEFINE o == files[packFile(fd)]
  <2>1. o \in Objs
    BY <1>0, <1>6, HasKey DEF Open, Usable, TypeOK
  <2>2. data[o] \in Seq(Handles)
    BY <1>0, <2>1 DEF TypeOK
  <2>3. /\ open' = [open EXCEPT ![o] = TRUE]
        /\ NewHandle(h, "reader", o, data[o])
        /\ UNCHANGED <<files, data, lvars, meta>>
    BY <1>6 DEF Open
  <2> HIDE DEF o
  <2>4. open' \in [Objs -> BOOLEAN]
    BY <1>0, <2>3, Zenon DEF TypeOK
  <2>5. TypeOK' /\ HandleBound'
    BY <1>0, <1>5, <2>1, <2>2, <2>3, <2>4 DEF TypeOK, lvars
  <2> QED
    BY <1>2, <2>3, <2>5
<1>7. ASSUME NEW fd \in Fds, NEW h \in Handles, Create(fd, h) PROVE MInv'
  <2>1. PICK o \in Objs :
            /\ files' = [files EXCEPT ![packFile(fd)] = o]
            /\ open' = [open EXCEPT ![o] = TRUE]
            /\ data' = [data EXCEPT ![o] = << >>]
            /\ NewHandle(h, "writer", o, << >>)
            /\ UNCHANGED <<lvars, meta>>
    BY <1>7 DEF Create
  <2>2. << >> \in Seq(Handles)
    BY EmptySeq
  <2>3. open' \in [Objs -> BOOLEAN]
    BY <1>0, <2>1, Zenon DEF TypeOK
  <2>4. TypeOK' /\ HandleBound'
    BY <1>0, <1>5, <2>1, <2>2, <2>3 DEF TypeOK, lvars
  <2> QED
    BY <1>2, <2>1, <2>4
<1>8. ASSUME NEW oldfd \in Fds, NEW newfd \in Fds, Rename(oldfd, newfd) PROVE MInv'
  <2>1. packFile(oldfd) \in Keys
    BY <1>8, HasKey DEF Rename
  <2>2. files' \in [Keys -> Objs \cup {None}]
    BY <1>0, <1>8, <2>1 DEF Rename, TypeOK
  <2>3. TypeOK' /\ HandleBound'
    BY <1>0, <1>8, <2>2 DEF Rename, TypeOK, HandleBound, hvars, lvars
  <2> QED
    BY <1>2, <1>8, <2>3 DEF Rename
<1>9. ASSUME NEW h \in Handles, Write(h) PROVE MInv'
  <2>1. obj[h] \in Objs /\ data[obj[h]] \in Seq(Handles)
    BY <1>0, <1>9 DEF Write, InUse, HandleBound, TypeOK
  <2>2. Append(data[obj[h]], h) \in Seq(Handles)
    BY <2>1
  <2>3. data' = [data EXCEPT ![obj[h]] = Append(data[obj[h]], h)]
    BY <1>9 DEF Write
  <2>4. data' \in [Objs -> Seq(Handles)]
    BY <1>0, <2>2, <2>3 DEF TypeOK
  <2>5. TypeOK' /\ HandleBound'
    BY <1>0, <1>9, <2>4 DEF Write, TypeOK, HandleBound, hvars, lvars
  <2> QED
    BY <1>2, <1>9, <2>5 DEF Write
<1>10. ASSUME NEW h \in Handles, Close(h) PROVE MInv'
  <2>1. open' \in [Objs -> BOOLEAN]
    BY <1>0, <1>10, Zenon DEF Close, TypeOK
  <2>2. TypeOK' /\ HandleBound'
    BY <1>0, <1>10, <2>1 DEF Close, InUse, TypeOK, HandleBound, lvars
  <2> QED
    BY <1>2, <1>10, <2>2 DEF Close
<1>11. ASSUME NEW h \in Handles, Forget(h) PROVE MInv'
  <2>1. << >> \in Seq(Handles)
    BY EmptySeq
  <2>2. TypeOK' /\ HandleBound'
    BY <1>0, <1>11, <2>1 DEF Forget, TypeOK, HandleBound, fvars, lvars
  <2> QED
    BY <1>2, <1>11, <2>2 DEF Forget
<1>12. CASE UNCHANGED vars
  BY <1>0, <1>12 DEF vars, fvars, hvars, lvars, TypeOK, HandleBound, LockExclusive
<1> QED
  BY <1>1, <1>3, <1>4, <1>6, <1>7, <1>8, <1>9, <1>10, <1>11, <1>12 DEF Next

(***************************************************************************)
(* The flag tells whether a file has an open handle, as long as nobody     *)
(* uses a handle after its Close.                                          *)
(***************************************************************************)
LEMMA RInvStep ==
    ASSUME UseClosed = FALSE, MInv, RInv, [Next]_vars
    PROVE  RInv'
<1>0. /\ TypeOK /\ HandleBound
      /\ OpenFlag /\ OneHandle /\ ReaderStable
  BY DEF MInv, RInv
<1> USE DEF RInv, OpenFlag, OneHandle, ReaderStable
<1>1. ASSUME UNCHANGED <<open, data, hvars>> PROVE RInv'
  BY <1>0, <1>1 DEF hvars
<1>2. ASSUME NEW l \in Locks, Lock(l) \/ Unlock(l) \/ ForgetLock(l) PROVE RInv'
  BY <1>1, <1>2 DEF Lock, Unlock, ForgetLock, fvars
<1>3. ASSUME NEW fd \in Fds, SetMeta(fd) \/ Remove(fd) PROVE RInv'
  BY <1>1, <1>3 DEF SetMeta, Remove, fvars
<1>4. ASSUME NEW oldfd \in Fds, NEW newfd \in Fds, Rename(oldfd, newfd) PROVE RInv'
  BY <1>1, <1>4 DEF Rename
<1>5. ASSUME NEW h \in Handles, NEW k \in {"reader", "writer"}, NEW o \in Objs,
             \A g \in Handles : st[g] = "open" => obj[g] # o,
             \A p \in Objs \ {o} : data'[p] = data[p],
             NewHandle(h, k, o, data'[o]), open' = [open EXCEPT ![o] = TRUE]
      PROVE  RInv'
  <2>1. /\ \A g \in Handles \ {h} : /\ st'[g] = st[g] /\ kind'[g] = kind[g]
                                    /\ obj'[g] = obj[g] /\ view'[g] = view[g]
        /\ obj'[h] = o /\ view'[h] = data'[o] /\ st'[h] = "open"
    BY <1>0, <1>5 DEF NewHandle, TypeOK
  <2>2. /\ open'[o] = TRUE
        /\ \A p \in Objs : open[p] = TRUE => open'[p] = TRUE
    BY <1>0, <1>5 DEF TypeOK
  <2>3. \A g \in Handles \ {h} : st[g] = "open" => obj[g] \in Objs \ {o}
    BY <1>0, <1>5 DEF HandleBound
  <2>4. OpenFlag'
    BY <1>0, <2>1, <2>2, <2>3
  <2>5. OneHandle'
    BY <1>0, <2>1, <2>3
  <2>6. ReaderStable'
    BY <1>0, <1>5, <2>1, <2>3
  <2> QED
    BY <2>4, <2>5, <2>6
<1>6. ASSUME NEW fd \in Fds, NEW h \in Handles, Open(fd, h) PROVE RInv'
  <2> DEFINE o == files[packFile(fd)]
  <2>1. /\ o # None /\ open[o] # TRUE
        /\ open' = [open EXCEPT ![o] = TRUE]
        /\ NewHandle(h, "reader", o, data[o])
        /\ data' = data
    BY <1>6 DEF Open, Usable
  <2>2. o \in Objs
    BY <1>0, <1>6, <2>1, HasKey DEF Open, TypeOK
  <2> HIDE DEF o
  <2>3. \A g \in Handles : st[g] = "open" => obj[g] # o
    BY <1>0, <2>1
  <2> QED
    BY <1>5, <2>1, <2>2, <2>3
<1>7. ASSUME NEW fd \in Fds, NEW h \in Handles, Create(fd, h) PROVE RInv'
  <2>1. PICK o \in Objs :
            /\ IF files[packFile(fd)] # None
               THEN o = files[packFile(fd)] /\ Usable(o) ELSE Fresh(o)
            /\ open' = [open EXCEPT ![o] = TRUE]
            /\ data' = [data EXCEPT ![o] = << >>]
            /\ NewHandle(h, "writer", o, << >>)
    BY <1>7 DEF Create
  <2>2. \A g \in Handles : st[g] = "open" => obj[g] # o
    BY <1>0, <2>1 DEF Usable, Fresh
  <2>3. data'[o] = << >> /\ \A p \in Objs \ {o} : data'[p] = data[p]
    BY <1>0, <2>1 DEF TypeOK
  <2> QED
    BY <1>5, <2>1, <2>2, <2>3
<1>8. ASSUME NEW h \in Handles, Write(h) PROVE RInv'
  <2>1. /\ st[h] = "open" /\ kind[h] = "writer" /\ UNCHANGED <<open, hvars>>
        /\ data' = [data EXCEPT ![obj[h]] = Append(data[obj[h]], h)]
    BY <1>8 DEF Write, InUse
  <2>2. \A g \in Handles : st[g] = "open" /\ kind[g] = "reader" => obj[g] # obj[h]
    BY <1>0, <2>1
  <2>3. \A g \in Handles : st[g] = "open" => obj[g] \in Objs
    BY <1>0 DEF HandleBound
  <2>4. ReaderStable'
    BY <1>0, <2>1, <2>2, <2>3 DEF TypeOK, hvars
  <2> QED
    BY <1>0, <2>1, <2>4 DEF hvars
<1>9. ASSUME NEW h \in Handles, Close(h) PROVE RInv'
  <2>1. /\ st[h] = "open" /\ open' = [open EXCEPT ![obj[h]] = FALSE]
        /\ st' = [st EXCEPT ![h] = "closed"]
        /\ UNCHANGED <<data, kind, obj, view>>
    BY <1>9 DEF Close, InUse
  <2>2. \A g \in Handles : st'[g] = "open" =>
            st[g] = "open" /\ obj[g] # obj[h] /\ obj[g] \in Objs
    BY <1>0, <2>1 DEF TypeOK, HandleBound
  <2>3. \A g \in Handles : st'[g] = "open" => open'[obj[g]] = TRUE
    BY <1>0, <2>1, <2>2 DEF TypeOK
  <2> QED
    BY <1>0, <2>1, <2>2, <2>3
<1>10. ASSUME NEW h \in Handles, Forget(h) PROVE RInv'
  <2>1. \A g \in Handles : st'[g] = "open" =>
            /\ g # h /\ st[g] = "open"
            /\ kind'[g] = kind[g] /\ obj'[g] = obj[g] /\ view'[g] = view[g]
    BY <1>0, <1>10 DEF Forget, TypeOK
  <2>2. UNCHANGED <<open, data>>
    BY <1>10 DEF Forget, fvars
  <2> QED
    BY <1>0, <2>1, <2>2
<1>11. CASE UNCHANGED vars
  BY <1>1, <1>11 DEF vars, fvars
<1> QED
  BY <1>2, <1>3, <1>4, <1>6, <1>7, <1>8, <1>9, <1>10, <1>11 DEF Next

(***************************************************************************)
(* The first invariant holds in every reachable state.                     *)
(***************************************************************************)
LEMMA MInvariance == Spec => []MInv
<1>1. Init => MInv
  BY InitMem
<1> QED
  BY <1>1, MInvStep, PTL DEF Spec

(***************************************************************************)
(* The state of the memory storage is well typed.                          *)
(***************************************************************************)
THEOREM TypeCorrect == Spec => []TypeOK
<1>1. MInv => TypeOK
  BY DEF MInv
<1> QED
  BY <1>1, MInvariance, PTL

(***************************************************************************)
(* The storage is locked by at most one client, whose lock object it       *)
(* knows; an old lock object releases nothing (Lock, Unlock).              *)
(***************************************************************************)
THEOREM LockExclusiveHolds == Spec => []LockExclusive
<1>1. MInv => LockExclusive
  BY DEF MInv
<1> QED
  BY <1>1, MInvariance, PTL

(***************************************************************************)
(* A file has at most one open handle, and what a reader looks at is what  *)
(* its file held when it was opened, for clients that do not use a handle  *)
(* they closed: the field closed of readers and writers is never set, so a *)
(* second Close clears the flag of whoever has the file then, and a late   *)
(* Write reaches its buffer (Open, Create, Write, Close).                  *)
(***************************************************************************)
THEOREM ReaderStableHolds ==
    ASSUME UseClosed = FALSE
    PROVE  Spec => []OneHandle /\ []ReaderStable
<1>1. MInv /\ RInv /\ [Next]_vars => RInv'
  BY RInvStep
<1>2. Init => RInv
  BY InitMem
<1>3. RInv => OneHandle /\ ReaderStable
  BY DEF RInv
<1> QED
  BY <1>1, <1>2, <1>3, MInvariance, PTL DEF Spec

-----------------------------------------------------------------------------
(* The interface Storage. *)

\* what each descriptor stands for
Dir == [fd \in TakenFds |-> files[packFile(fd)]]

\* what a step does to the directory of descriptors
DirStep ==
    \/ Dir' = Dir
    \/ \E fd \in TakenFds, o \in Objs :
          /\ \A g \in TakenFds : Dir[g] # o
          /\ Dir' = [Dir EXCEPT ![fd] = o]
    \/ \E fd \in TakenFds : Dir[fd] # None /\ Dir' = [Dir EXCEPT ![fd] = None]
    \/ \E oldfd, newfd \in TakenFds :
          /\ oldfd # newfd /\ Dir[oldfd] # None
          /\ Dir' = [Dir EXCEPT ![oldfd] = None, ![newfd] = Dir[oldfd]]

(***************************************************************************)
(* Changing the file behind one key changes the file of one descriptor.    *)
(***************************************************************************)
LEMMA DirUpdate ==
    ASSUME TypeOK, NEW fd \in TakenFds, NEW o, files' = [files EXCEPT ![packFile(fd)] = o]
    PROVE  Dir' = [Dir EXCEPT ![fd] = o]
<1>1. \A g \in TakenFds : packFile(g) \in Keys /\ (g # fd => packFile(g) # packFile(fd))
  BY PackInjective
<1>2. \A g \in TakenFds : Dir'[g] = IF g = fd THEN o ELSE Dir[g]
  BY <1>1 DEF Dir, TypeOK
<1>3. Dir = [g \in TakenFds |-> Dir[g]] /\ Dir' = [g \in TakenFds |-> Dir'[g]]
  BY DEF Dir
<1> HIDE DEF Dir
<1> QED
  BY <1>2, <1>3

(***************************************************************************)
(* Every step is a step of the directory of descriptors.                   *)
(***************************************************************************)
LEMMA NamesStep == MInv /\ [Next]_vars => DirStep
<1> SUFFICES ASSUME MInv, [Next]_vars PROVE DirStep
  OBVIOUS
<1>0. TypeOK
  BY DEF MInv
<1>1. ASSUME files' = files PROVE DirStep
  BY <1>1 DEF DirStep, Dir
<1>2. ASSUME NEW fd \in Fds, NEW h \in Handles, Create(fd, h) PROVE DirStep
  <2> DEFINE tfd == Taken(fd)
  <2>1. tfd \in TakenFds /\ packFile(fd) \in Keys /\ packFile(tfd) = packFile(fd)
    BY <1>2, HasKey DEF Create
  <2> HIDE DEF tfd
  <2>2. PICK o \in Objs :
            /\ IF files[packFile(fd)] # None THEN o = files[packFile(fd)] ELSE Fresh(o)
            /\ files' = [files EXCEPT ![packFile(fd)] = o]
    BY <1>2 DEF Create
  <2>3. CASE files[packFile(fd)] # None
    <3>1. files' = files
      BY <1>0, <2>1, <2>2, <2>3 DEF TypeOK
    <3> QED
      BY <1>1, <3>1
  <2>4. CASE files[packFile(fd)] = None
    <3>1. \A g \in TakenFds : Dir[g] # o
      BY <2>1, <2>2, <2>4, PackInjective DEF Dir, Fresh
    <3>2. Dir' = [Dir EXCEPT ![tfd] = o]
      BY <1>0, <2>1, <2>2, DirUpdate
    <3> HIDE DEF Dir
    <3> QED
      BY <2>1, <3>1, <3>2 DEF DirStep
  <2> QED
    BY <2>3, <2>4
<1>3. ASSUME NEW fd \in Fds, Remove(fd) PROVE DirStep
  <2> DEFINE tfd == Taken(fd)
  <2>1. tfd \in TakenFds /\ packFile(tfd) = packFile(fd) /\ files[packFile(fd)] # None
    BY <1>3, HasKey DEF Remove
  <2> HIDE DEF tfd
  <2>2. Dir[tfd] # None
    BY <2>1 DEF Dir
  <2>3. Dir' = [Dir EXCEPT ![tfd] = None]
    BY <1>0, <1>3, <2>1, DirUpdate DEF Remove
  <2> HIDE DEF Dir
  <2> QED
    BY <2>1, <2>2, <2>3 DEF DirStep
<1>4. ASSUME NEW oldfd \in Fds, NEW newfd \in Fds, Rename(oldfd, newfd) PROVE DirStep
  <2> DEFINE x == packFile(oldfd)
             y == packFile(newfd)
             old == Taken(oldfd)
             new == Taken(newfd)
  <2>1. /\ old \in TakenFds /\ new \in TakenFds /\ packFile(old) = x /\ packFile(new) = y
        /\ x \in Keys /\ y \in Keys /\ files[x] # None
        /\ files' = [files EXCEPT ![x] = None, ![y] = files[x]]
    BY <1>4, HasKey DEF Rename, Renames
  <2> HIDE DEF old, new, x, y
  <2>2. CASE x = y
    <3>1. files' = files
      BY <1>0, <2>1, <2>2 DEF TypeOK
    <3> QED
      BY <1>1, <3>1
  <2>3. CASE x # y
    <3>1. \A g \in TakenFds : /\ packFile(g) \in Keys
                              /\ g # old => packFile(g) # x
                              /\ g # new => packFile(g) # y
      BY <2>1, PackInjective
    <3>2. \A k \in Keys : files'[k] = IF k = y THEN files[x]
                                      ELSE IF k = x THEN None ELSE files[k]
      BY <1>0, <2>1 DEF TypeOK
    <3>3. \A g \in TakenFds : Dir'[g] = IF g = new THEN files[x]
                                        ELSE IF g = old THEN None ELSE Dir[g]
      BY <2>1, <3>1, <3>2 DEF Dir
    <3>4. Dir[old] = files[x] /\ Dir = [g \in TakenFds |-> Dir[g]]
          /\ Dir' = [g \in TakenFds |-> Dir'[g]]
      BY <2>1 DEF Dir
    <3> HIDE DEF Dir
    <3>5. Dir' = [Dir EXCEPT ![old] = None, ![new] = Dir[old]]
      BY <2>1, <3>3, <3>4
    <3>6. old # new
      BY <2>1, <2>3
    <3> QED
      BY <2>1, <3>4, <3>5, <3>6 DEF DirStep
  <2> QED
    BY <2>2, <2>3
<1>5. ASSUME NEW l \in Locks, Lock(l) \/ Unlock(l) \/ ForgetLock(l) PROVE DirStep
  BY <1>1, <1>5 DEF Lock, Unlock, ForgetLock, fvars
<1>6. ASSUME NEW fd \in Fds, SetMeta(fd) \/ \E h \in Handles : Open(fd, h) PROVE DirStep
  BY <1>1, <1>6 DEF SetMeta, Open, fvars
<1>7. ASSUME NEW h \in Handles, Write(h) \/ Close(h) \/ Forget(h) PROVE DirStep
  BY <1>1, <1>7 DEF Write, Close, Forget, fvars
<1>8. CASE UNCHANGED vars
  BY <1>1, <1>8 DEF vars, fvars
<1> QED
  BY <1>2, <1>3, <1>4, <1>5, <1>6, <1>7, <1>8 DEF Next

(***************************************************************************)
(* List returns exactly the descriptors that stand for a file: unpacking a *)
(* key gives the descriptor it was made of.                                *)
(***************************************************************************)
ListExact == Listed = {fd \in TakenFds : files[packFile(fd)] # None}

(***************************************************************************)
(* List is exact in every state, because unpackFile undoes packFile.       *)
(***************************************************************************)
LEMMA ListedIsPresent == ListExact
<1>1. \A x \in Keys : unpackFile(x) \in TakenFds /\ packFile(unpackFile(x)) = x
  BY PackUnpack DEF Keys, TakenFds
<1> QED
  BY <1>1, PackInjective DEF ListExact, Listed

(***************************************************************************)
(* The memory storage implements Storage for the descriptors it takes its  *)
(* clients to mean, whatever numbers they use and whether or not they use  *)
(* closed handles: its files behind packed keys are what Create, Remove    *)
(* and Rename made of them, and List returns their descriptors.            *)
(***************************************************************************)
THEOREM StorageImplemented == Spec => ImplementsStorage
<1> DEFINE IVars == <<Dir, Listed>>
<1>1. Init => Interface!Init
  <2> SUFFICES ASSUME Init PROVE Interface!Init
    OBVIOUS
  <2>1. \A fd \in TakenFds : packFile(fd) \in Keys
    BY PackInjective
  <2>2. \A fd \in TakenFds : files[packFile(fd)] = None
    BY <2>1 DEF Init
  <2> QED
    BY <2>2, ListedIsPresent
       DEF Interface!Init, Interface!Injective, Interface!Present, ListExact
<1>2. ASSUME MInv, ListExact, ListExact', [Next]_vars
      PROVE  [Interface!Next]_IVars
  <2>1. DirStep
    BY <1>2, NamesStep
  <2>2. /\ Listed = {fd \in TakenFds : Dir[fd] # None}
        /\ Listed' = {fd \in TakenFds : Dir'[fd] # None}
    BY <1>2 DEF ListExact, Dir
  <2>3. CASE Dir' = Dir
    BY <2>2, <2>3
  <2>4. CASE Dir' # Dir
    <3>1. Listed' = Interface!Present'
      BY <2>2 DEF Interface!Present, Dir
    <3>2. \/ \E fd \in TakenFds : Interface!Create(fd) \/ Interface!Remove(fd)
          \/ \E oldfd, newfd \in TakenFds : Interface!Rename(oldfd, newfd)
      BY <2>1, <2>4 DEF DirStep, Interface!Create, Interface!Remove, Interface!Rename, Dir
    <3> QED
      BY <3>1, <3>2 DEF Interface!Next
  <2> QED
    BY <2>3, <2>4
<1> QED
  <2> HIDE DEF IVars
  <2>1. Spec => Interface!Init /\ [][Interface!Next]_IVars
    BY <1>1, <1>2, ListedIsPresent, MInvariance, PTL DEF Spec
  <2> QED
    BY <2>1, PTL DEF ImplementsStorage, Interface!Spec, IVars, Dir

=============================================================================
