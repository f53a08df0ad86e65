----------------------------- MODULE BufferPool -----------------------------
(***************************************************************************)
(* The buffer pool (taudb/utils/buffer_pool.go): six channels of buffers,  *)
(* chosen by capacity, from which Get takes and to which Put gives back    *)
(* without ever waiting.  Get learns from its hits and misses what         *)
(* capacity to allocate; it does so with single atomic operations, so that *)
(* the calls of several goroutines interleave between them.  A read lock   *)
(* around Get and Put keeps Close away; a goroutine, drain, empties the    *)
(* channels slowly and closes them after Close.                            *)
(*                                                                         *)
(* A goroutine holds at most one buffer, and none when it calls Close.     *)
(* The statistics of String are left out, and so is the cut of a length    *)
(* to 32 bits in the sizes.                                                *)
(***************************************************************************)
EXTENDS Integers, Sequences, FiniteSets, SequencesExt

CONSTANTS Threads,     \* goroutines that use the pool
          baseline0,   \* the size the pool is made for
          PoolCap,     \* capacity of each channel: 2, 2, 4, 4, 2, 1
          Threshold,   \* half hits or misses before the size changes: 20
          MaxCount,    \* bound: highest value of a counter
          Lengths,     \* bound: lengths asked for
          Foreign      \* bound: length and capacity of slices from elsewhere

ASSUME PoolAssumption ==
    /\ IsFiniteSet(Threads)
    /\ baseline0 \in Nat \ {0} /\ Threshold \in Nat \ {0} /\ MaxCount \in Nat
    /\ PoolCap \in [0..5 -> Nat \ {0}]
    /\ Lengths \subseteq Nat
    /\ \A f \in Foreign : f \in Nat \X Nat /\ f[1] <= f[2]

VARIABLES
    pool,       \* the channels, by class
    size,       \* capacity Get allocates in a class, 0 if not known
    sizeMiss,   \* too small sizes met since the last change
    sizeHalf,   \* buffers met that were twice as long as needed
    closed,     \* BufferPool.closed
    closeC,     \* elements in closeC
    drain,      \* the goroutine drain: "runs", or "closed" at its end
    pc,         \* what a goroutine is at
    want,       \* the length it asked for, or of its slice
    buf,        \* the buffer it holds or works on
    sz          \* the size it has loaded

sizes == <<size, sizeMiss, sizeHalf>>
locals == <<pc, want, buf, sz>>
closing == <<closed, closeC, drain>>
poolVars == <<pool, sizes, closing, locals>>

-----------------------------------------------------------------------------
\* the classes, in the order in which poolNum looks at their upper bounds
baseline == <<baseline0 \div 4, baseline0 \div 2, baseline0 * 2, baseline0 * 4>>

poolNum(n) ==
    IF n <= baseline0 /\ n > baseline0 \div 2 THEN 0
    ELSE IF \E i \in 1..4 : n <= baseline[i]
         THEN CHOOSE i \in 1..4 : n <= baseline[i] /\ \A j \in 1..(i - 1) : n > baseline[j]
         ELSE 5

None == [id |-> 0, cap |-> 0]
InUse == {buf[t].id : t \in Threads} \cup {b.id : b \in UNION {ToSet(pool[k]) : k \in 0..5}}

\* make: an array nobody else has
Make(c) == LET id == CHOOSE i \in 1..(Cardinality(InUse) + 1) :
                        i \notin InUse /\ \A j \in 1..(i - 1) : j \in InUse
           IN  [id |-> id, cap |-> c]

Closers == {t \in Threads : pc[t] \in {"lock", "send"}}
Inside == {t \in Threads : pc[t] \notin {"idle", "lock", "send"}}

\* the read lock is free, and not asked for by a writer
RLock == Closers = {}

\* variant: nobody is waited for
LockAnyway(t) == \A u \in Threads : pc[u] # "send"

\* the write lock is free
Lock(t) == Inside = {} /\ \A u \in Threads : pc[u] # "send"

PoolInit ==
    /\ pool = [k \in 0..5 |-> << >>]
    /\ size = [k \in 1..5 |-> 0] /\ sizeMiss = size /\ sizeHalf = size
    /\ closed = FALSE /\ closeC = 0 /\ drain = "runs"
    /\ pc = [t \in Threads |-> "idle"] /\ want = [t \in Threads |-> 0]
    /\ buf = [t \in Threads |-> None] /\ sz = [t \in Threads |-> 0]

-----------------------------------------------------------------------------
(* The parts of a call *)

At(t, l) == pc[t] = l
Goto(t, l) == pc' = [pc EXCEPT ![t] = l]
Class(t) == poolNum(want[t])

\* Get returns b, Put and a client that lets go return nothing
Return(t, b) ==
    /\ Goto(t, "idle") /\ buf' = [buf EXCEPT ![t] = b] /\ sz' = [sz EXCEPT ![t] = 0]
    /\ want' = [want EXCEPT ![t] = IF b = None THEN 0 ELSE @]

\* a buffer is sent to a channel, or dropped when that is full
Send(k, b) == pool' = IF Len(pool[k]) < PoolCap[k]
                      THEN [pool EXCEPT ![k] = Append(@, b)] ELSE pool

\* a buffer of capacity c is at least twice as long as needed
Twice(c, n) == c - n >= n

-----------------------------------------------------------------------------
(* Get *)

GetEnter(t, n) ==
    /\ At(t, "idle") /\ buf[t] = None /\ RLock
    /\ want' = [want EXCEPT ![t] = n]
    /\ IF closed THEN buf' = [buf EXCEPT ![t] = Make(n)] /\ pc' = pc
                 ELSE Goto(t, "recv") /\ buf' = buf
    /\ UNCHANGED <<pool, sizes, closing, sz>>

\* the channel is empty
GetMiss(t) ==
    /\ At(t, "recv") /\ pool[Class(t)] = << >>
    /\ IF Class(t) = 0 THEN Return(t, Make(baseline0))
                       ELSE Goto(t, "load") /\ UNCHANGED <<want, buf, sz>>
    /\ UNCHANGED <<pool, sizes, closing>>

\* a buffer comes out of it: it fits, is too long, or too short
GetRecv(t) ==
    /\ At(t, "recv") /\ pool[Class(t)] # << >>
    /\ LET k == Class(t)
           b == Head(pool[k])
           keep(l) == Goto(t, l) /\ buf' = [buf EXCEPT ![t] = b] /\ UNCHANGED <<want, sz>>
       IN  /\ pool' = [pool EXCEPT ![k] = Tail(@)]
           /\ IF b.cap > want[t] /\ Twice(b.cap, want[t])
                 THEN keep(IF k = 0 THEN "pushHalf" ELSE "half")
              ELSE IF b.cap >= want[t] THEN Return(t, b)
              ELSE IF k = 0 THEN Return(t, Make(baseline0))
              ELSE keep("short")
    /\ UNCHANGED <<sizes, closing>>

\* too long: counted, and put back unless it is time to halve the size
GetHalf(t) ==
    /\ At(t, "half") /\ sizeHalf[Class(t)] < MaxCount
    /\ sizeHalf' = [sizeHalf EXCEPT ![Class(t)] = @ + 1]
    /\ Goto(t, IF sizeHalf'[Class(t)] = Threshold THEN "setHalf" ELSE "pushHalf")
    /\ UNCHANGED <<pool, size, sizeMiss, closing, want, buf, sz>>

\* variant: the buffer is put back and returned
PushHalfReturns(t) ==
    /\ At(t, "pushHalf")
    /\ Send(Class(t), buf[t]) /\ Return(t, buf[t])
    /\ UNCHANGED <<sizes, closing>>

PushHalf(t) ==
    /\ At(t, "pushHalf")
    /\ Send(Class(t), buf[t]) /\ Return(t, Make(want[t]))
    /\ UNCHANGED <<sizes, closing>>

SetHalf(t) ==
    /\ At(t, "setHalf")
    /\ size' = [size EXCEPT ![Class(t)] = buf[t].cap \div 2]
    /\ Goto(t, "resetHalf")
    /\ UNCHANGED <<pool, sizeMiss, sizeHalf, closing, want, buf, sz>>

ResetHalf(t) ==
    /\ At(t, "resetHalf")
    /\ sizeHalf' = [sizeHalf EXCEPT ![Class(t)] = 0]
    /\ Return(t, Make(want[t]))
    /\ UNCHANGED <<pool, size, sizeMiss, closing>>

\* too short: put back if it has the size of its class
GetShort(t) ==
    /\ At(t, "short")
    /\ IF buf[t].cap >= size[Class(t)]
       THEN Goto(t, "pushShort") /\ buf' = buf
       ELSE Goto(t, "load") /\ buf' = [buf EXCEPT ![t] = None]
    /\ UNCHANGED <<pool, sizes, closing, want, sz>>

PushShort(t) ==
    /\ At(t, "pushShort")
    /\ Send(Class(t), buf[t]) /\ buf' = [buf EXCEPT ![t] = None]
    /\ Goto(t, "load")
    /\ UNCHANGED <<sizes, closing, want, sz>>

\* a new buffer: the size is loaded once, compared, and used
GetLoad(t) ==
    /\ At(t, "load")
    /\ LET s == size[Class(t)]
       IN  /\ Goto(t, IF want[t] <= s THEN "make" ELSE IF s = 0 THEN "cas" ELSE "miss")
           /\ sz' = [sz EXCEPT ![t] = s]
    /\ UNCHANGED <<pool, sizes, closing, want, buf>>

\* variant: the size is loaded again
GetMakeReload(t) ==
    /\ At(t, "make") /\ Return(t, Make(size[Class(t)]))
    /\ UNCHANGED <<pool, sizes, closing>>

GetMake(t) ==
    /\ At(t, "make") /\ Return(t, Make(sz[t]))
    /\ UNCHANGED <<pool, sizes, closing>>

GetCAS(t) ==
    /\ At(t, "cas")
    /\ size' = [size EXCEPT ![Class(t)] = IF @ = 0 THEN want[t] ELSE @]
    /\ Return(t, Make(want[t]))
    /\ UNCHANGED <<pool, sizeMiss, sizeHalf, closing>>

\* the size is too small: counted, and changed when that was often so
GetTooSmall(t) ==
    /\ At(t, "miss") /\ sizeMiss[Class(t)] < MaxCount
    /\ sizeMiss' = [sizeMiss EXCEPT ![Class(t)] = @ + 1]
    /\ IF sizeMiss'[Class(t)] = Threshold
       THEN Goto(t, "setMiss") /\ UNCHANGED <<want, buf, sz>>
       ELSE Return(t, Make(want[t]))
    /\ UNCHANGED <<pool, size, sizeHalf, closing>>

SetMiss(t) ==
    /\ At(t, "setMiss")
    /\ size' = [size EXCEPT ![Class(t)] = want[t]]
    /\ Goto(t, "resetMiss")
    /\ UNCHANGED <<pool, sizeMiss, sizeHalf, closing, want, buf, sz>>

\* variant: the counter is not reset
ResetMissNot(t) ==
    /\ At(t, "resetMiss") /\ Return(t, Make(want[t]))
    /\ UNCHANGED <<pool, sizes, closing>>

ResetMiss(t) ==
    /\ At(t, "resetMiss")
    /\ sizeMiss' = [sizeMiss EXCEPT ![Class(t)] = 0]
    /\ Return(t, Make(want[t]))
    /\ UNCHANGED <<pool, size, sizeHalf, closing>>

-----------------------------------------------------------------------------
(* Put, Close and drain *)

PutEnter(t) ==
    /\ At(t, "idle") /\ buf[t] # None /\ RLock
    /\ IF closed THEN Return(t, None) ELSE Goto(t, "put") /\ UNCHANGED <<want, buf, sz>>
    /\ UNCHANGED <<pool, sizes, closing>>

\* variant: the channel is chosen by length
PutSendLen(t) ==
    /\ At(t, "put")
    /\ Send(Class(t), buf[t]) /\ Return(t, None)
    /\ UNCHANGED <<sizes, closing>>

PutSend(t) ==
    /\ At(t, "put")
    /\ Send(poolNum(buf[t].cap), buf[t]) /\ Return(t, None)
    /\ UNCHANGED <<sizes, closing>>

\* a client gets a slice elsewhere, or lets go of its buffer
Elsewhere(t, f) ==
    /\ At(t, "idle") /\ buf[t] = None
    /\ want' = [want EXCEPT ![t] = f[1]] /\ buf' = [buf EXCEPT ![t] = Make(f[2])]
    /\ UNCHANGED <<pool, sizes, closing, pc, sz>>

LetGo(t) ==
    /\ At(t, "idle") /\ buf[t] # None /\ Return(t, None)
    /\ UNCHANGED <<pool, sizes, closing>>

CloseBegin(t) ==
    /\ At(t, "idle") /\ buf[t] = None /\ Goto(t, "lock")
    /\ UNCHANGED <<pool, sizes, closing, want, buf, sz>>

CloseLock(t) ==
    /\ At(t, "lock") /\ Lock(t)
    /\ closed' = TRUE /\ Goto(t, IF closed THEN "idle" ELSE "send")
    /\ UNCHANGED <<pool, sizes, closeC, drain, want, buf, sz>>

\* closeC has room for one element
CloseSend(t) ==
    /\ At(t, "send") /\ closeC < 1
    /\ closeC' = closeC + 1 /\ Goto(t, "idle")
    /\ UNCHANGED <<pool, sizes, closed, drain, want, buf, sz>>

\* on a tick one buffer is taken out of each channel; when, and in which order,
\* is left open
DrainTick(k) ==
    /\ drain = "runs" /\ pool[k] # << >>
    /\ pool' = [pool EXCEPT ![k] = Tail(@)]
    /\ UNCHANGED <<sizes, closing, locals>>

\* closeC and the channels are closed
DrainClose ==
    /\ drain = "runs" /\ closeC = 1
    /\ closeC' = 0 /\ drain' = "closed"
    /\ UNCHANGED <<pool, sizes, closed, locals>>

GetStep(t) ==
    \/ GetMiss(t) \/ GetRecv(t) \/ GetHalf(t) \/ PushHalf(t) \/ SetHalf(t) \/ ResetHalf(t)
    \/ GetShort(t) \/ PushShort(t) \/ GetLoad(t) \/ GetMake(t) \/ GetCAS(t)
    \/ GetTooSmall(t) \/ SetMiss(t) \/ ResetMiss(t)

PoolNext ==
    \/ \E t \in Threads :
          \/ \E n \in Lengths : GetEnter(t, n)
          \/ GetStep(t)
          \/ PutEnter(t) \/ PutSend(t)
          \/ LetGo(t) \/ \E f \in Foreign : Elsewhere(t, f)
          \/ CloseBegin(t) \/ CloseLock(t) \/ CloseSend(t)
    \/ \E k \in 0..5 : DrainTick(k)
    \/ DrainClose

-----------------------------------------------------------------------------
(***************************************************************************)
(* A buffer has one owner: it is in one channel once, or one goroutine     *)
(* holds it.  In particular a buffer that Get puts back because it is too  *)
(* long or too short is not the one Get returns (Get, Put).                *)
(***************************************************************************)
OneOwner ==
    LET holders == {t \in Threads : buf[t] # None}
        slots   == UNION {{k} \X (1..Len(pool[k])) : k \in 0..5}
    IN  Cardinality(InUse \ {0}) = Cardinality(holders) + Cardinality(slots)

(***************************************************************************)
(* A channel holds buffers of its own class, and the size a class learns,  *)
(* also when it is halved or two goroutines learn at once, is a size of    *)
(* that class: what Get allocates comes back to the channel it looks in.   *)
(***************************************************************************)
RightClass ==
    /\ \A k \in 0..5 : \A b \in ToSet(pool[k]) : poolNum(b.cap) = k
    /\ \A k \in 1..5 : size[k] # 0 => poolNum(size[k]) = k

(***************************************************************************)
(* Get returns a buffer with room for what was asked, although another     *)
(* goroutine may have halved the size since Get compared it (Get).         *)
(***************************************************************************)
LongEnough == \A t \in Threads : At(t, "idle") => buf[t].cap >= want[t]

(***************************************************************************)
(* When drain has closed the channels nobody is inside Get or Put, which   *)
(* would send on a closed channel, and nobody sends on closeC (Close).     *)
(***************************************************************************)
SafeClose == drain = "closed" => Inside = {} /\ \A t \in Threads : ~At(t, "send")

(***************************************************************************)
(* A counter that has reached the threshold is on its way back to zero: it *)
(* is never stuck above, where the test for equality would not see it      *)
(* again (Get).                                                            *)
(***************************************************************************)
CounterResets ==
    \A k \in 1..5 :
        /\ sizeMiss[k] >= Threshold =>
              \E t \in Threads : pc[t] \in {"setMiss", "resetMiss"} /\ Class(t) = k
        /\ sizeHalf[k] >= Threshold =>
              \E t \in Threads : pc[t] \in {"setHalf", "resetHalf"} /\ Class(t) = k

=============================================================================
