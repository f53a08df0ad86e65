----------------------------- MODULE ByteBuffer -----------------------------
(***************************************************************************)
(* The byte buffer of the database (taudb/utils/buffer.go), a modified     *)
(* bytes.Buffer: an array of which the bytes from off to len are unread.   *)
(* Room is made by going back to the start of the array, by moving the     *)
(* unread bytes there, or by a larger array.                               *)
(*                                                                         *)
(* A byte is a number; 0 is what fresh memory holds.  One goroutine uses a *)
(* buffer.  The panic for a length that is not possible is a guard, and a  *)
(* writer that claims to have written more than it was given is left out.  *)
(***************************************************************************)
EXTENDS Integers, Sequences

CONSTANTS Bootstrap,   \* bytes of the array a Buffer starts with: 64
          MinRead,     \* least room ReadFrom reads into: 512
          Chunks,      \* bound: byte sequences written
          MaxCap       \* bound: largest array

ASSUME BufferAssumption ==
    /\ Bootstrap \in Nat \ {0} /\ MinRead \in Nat \ {0} /\ MaxCap \in Nat
    /\ Chunks \subseteq Seq(Nat)

VARIABLES arr,       \* the array behind Buffer.buf, all of its capacity
          blen,      \* len(buf)
          off,       \* Buffer.off
          isNil,     \* buf is nil
          reading,   \* ReadFrom is in its loop
          moved      \* what the last operation took in, gave out or cut off

bufVars == <<arr, blen, off, isNil, reading, moved>>

Cap == Len(arr)
Unread == SubSeq(arr, off + 1, blen)
Least(m, n) == IF m <= n THEN m ELSE n
zeros(n) == [i \in 1..n |-> 0]

\* copy(dst[at:], src), for a src that fits
Overwrite(dst, at, src) ==
    [i \in 1..Len(dst) |-> IF i \in (at + 1)..(at + Len(src)) THEN src[i - at] ELSE dst[i]]

\* new Buffers: the zero value, or NewBuffer of a slice
BufInit ==
    /\ \/ arr = << >> /\ isNil = TRUE
       \/ arr = zeros(MinRead) /\ isNil = FALSE
    /\ blen \in {0, Cap} /\ off = 0 /\ reading = FALSE
    /\ moved = <<"cut", << >>>>

-----------------------------------------------------------------------------
\* variant: the unread bytes stay where they are
SlidNot == arr

\* copy(b.buf[:], b.buf[b.off:])
Slid == Overwrite(arr, 0, Unread)

\* grow: the array and where its unread bytes begin, with room for n more; the
\* bytes it is called for come after the m unread ones
grow(n) ==
    LET m == blen - off
        o == IF m = 0 THEN 0 ELSE off
    IN  IF o + m + n <= Cap THEN [arr |-> arr, off |-> o]
        ELSE [arr |-> IF isNil /\ n <= Bootstrap THEN zeros(Bootstrap)
                      ELSE IF m + n <= Cap \div 2 THEN Slid
                      ELSE Overwrite(zeros(2 * Cap + n), 0, Unread),
              off |-> 0]

\* grow(n), then the bytes s are written and len is set to l
Grown(n, s, l) ==
    LET g == grow(n)
        m == blen - off
    IN  /\ Len(g.arr) <= MaxCap
        /\ arr' = Overwrite(g.arr, g.off + m, s) /\ off' = g.off /\ blen' = g.off + m + l
        /\ isNil' = (isNil /\ g.arr = << >>)
        /\ ~reading /\ UNCHANGED reading

Write(s) == Grown(Len(s), s, Len(s)) /\ moved' = <<"add", s>>

WriteByte(c) == Write(<<c>>)

\* the bytes Alloc returns are whatever the array holds
Alloc(n) ==
    /\ Grown(n, << >>, n)
    /\ moved' = <<"add", SubSeq(arr', blen' - n + 1, blen')>>

Grow(n) == Grown(n, << >>, 0) /\ moved' = <<"add", << >>>>

Truncated(n) ==
    /\ off' = IF n = 0 THEN 0 ELSE off
    /\ blen' = off' + n

\* Truncate, and Reset for n = 0
Truncate(n) ==
    /\ ~reading /\ n <= blen - off
    /\ Truncated(n)
    /\ moved' = <<"cut", SubSeq(Unread, n + 1, blen - off)>>
    /\ UNCHANGED <<arr, isNil, reading>>

-----------------------------------------------------------------------------
\* the next n unread bytes are given out
Out(n) == /\ ~reading
          /\ moved' = <<"take", SubSeq(Unread, 1, n)>>
          /\ UNCHANGED <<arr, isNil, reading>>

\* an empty buffer goes back to its start
Read(n) ==
    IF off >= blen
    THEN Out(0) /\ Truncated(0)
    ELSE Out(Least(n, blen - off)) /\ off' = off + Least(n, blen - off) /\ UNCHANGED blen

ReadByte == Read(1)

Next(n) == Out(Least(n, blen - off)) /\ off' = off + Least(n, blen - off) /\ UNCHANGED blen

\* up to and with the first delim, or all
ReadBytes(delim) ==
    LET at == {i \in 1..(blen - off) : Unread[i] = delim}
        n  == IF at = {} THEN blen - off ELSE CHOOSE i \in at : \A j \in at : i <= j
    IN  Out(n) /\ off' = off + n /\ UNCHANGED blen

\* the writer takes n bytes, and fails or not
WriteTo(n, fails) ==
    /\ n <= blen - off
    /\ Out(n)
    /\ IF off < blen /\ (fails \/ n # blen - off)
       THEN off' = off + n /\ UNCHANGED blen
       ELSE Truncated(0)

-----------------------------------------------------------------------------
(* ReadFrom *)

ReadFromBegin ==
    /\ ~reading /\ reading' = TRUE
    /\ IF off >= blen THEN Truncated(0) ELSE UNCHANGED <<off, blen>>
    /\ moved' = <<"add", << >>>>
    /\ UNCHANGED <<arr, isNil>>

\* a turn of its loop: room is made, then the reader fills part of it
ReadFromTurn(s, ends) ==
    LET free  == Cap - blen
        moves == free < MinRead
        a     == IF ~moves THEN arr
                 ELSE IF off + free < MinRead
                      THEN Overwrite(zeros(2 * Cap + MinRead), 0, Unread)
                      ELSE Slid
        l     == IF moves THEN blen - off ELSE blen
    IN  /\ reading /\ reading' = ~ends
        /\ Len(a) <= MaxCap /\ l + Len(s) <= Len(a)
        /\ arr' = Overwrite(a, l, s) /\ blen' = l + Len(s)
        /\ off' = IF moves THEN 0 ELSE off
        /\ isNil' = (isNil /\ a = << >>)
        /\ moved' = <<"add", s>>

BufNext ==
    \/ \E s \in Chunks : Write(s)
    \/ WriteByte(2) \/ ReadByte
    \/ \E n \in 0..MaxCap : Alloc(n) \/ Grow(n) \/ Truncate(n) \/ Read(n) \/ Next(n)
    \/ \E n \in 0..MaxCap, fails \in BOOLEAN : WriteTo(n, fails)
    \/ \E delim \in 0..2 : ReadBytes(delim)
    \/ ReadFromBegin
    \/ \E s \in Chunks, ends \in BOOLEAN : ReadFromTurn(s, ends)

-----------------------------------------------------------------------------
(***************************************************************************)
(* Refinement: through every move of its bytes a Buffer is a queue of      *)
(* bytes (grow, ReadFrom, Truncate, the read operations).                  *)
(***************************************************************************)
Queue == INSTANCE ByteQueue WITH queue <- Unread
ImplementsQueue == Queue!QueueSpec

=============================================================================
