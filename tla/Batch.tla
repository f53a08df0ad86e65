------------------------------- MODULE Batch --------------------------------
(***************************************************************************)
(* Write batches (taudb/batch.go) and IPFSdb.Write (taudb/taudb.go), which *)
(* stores the records of a batch one by one.  A batch is a byte sequence   *)
(* of encoded records and an index of where their keys and values are; the *)
(* two are kept up to date separately by Put, Delete and append, and the   *)
(* index is computed from the bytes by Load.                               *)
(*                                                                         *)
(* The bytes given to Load are a copy of another batch's, possibly cut off *)
(* (Load keeps the slice it is given, so that a caller who goes on to use  *)
(* it shares the batch's bytes: its comment forbids that).  A batch whose  *)
(* Load failed keeps the bytes it could not read, and may be added to all  *)
(* the same; only the bytes of one that has none of these are loaded       *)
(* again.  Lengths of more than 63 bits are not in play; the capacity of   *)
(* data is left out.                                                       *)
(***************************************************************************)
EXTENDS InternalKey, SequencesExt

CONSTANTS Batches,   \* Batch objects
          Keys,      \* keys in play
          Values,    \* values in play
          MaxRecs,   \* bound: records of a batch, broken ones included
          KeyOverhead  \* the 8 in internalLen

ASSUME BatchAssumption ==
    /\ ByteBase % 2 = 0 /\ ByteBase >= 4
    /\ Keys \subseteq Seq(Byte) /\ Values \subseteq Seq(Byte)
    /\ MaxRecs \in Nat /\ KeyOverhead \in Nat

VARIABLES
    data,      \* Batch.data
    index,     \* Batch.index
    ilen,      \* Batch.internalLen
    recs,      \* history: the operations put into each batch
    broken,    \* history: how often a batch has bytes that a Load could not read
    wb,        \* the batch IPFSdb.Write works on
    wpc,       \* Write: "idle", "loop", "panic", or "ok" and "err" when it returned
    wi         \* its loop variable

bvars == <<data, index, ilen, recs, broken>>
wvars == <<wb, wpc, wi>>
batchVars == <<bvars, wvars>>

-----------------------------------------------------------------------------
(* Encoding *)

\* binary.PutUvarint: low digits first, all but the last marked
VarBase == ByteBase \div 2
uvarint[x \in Nat] == IF x < VarBase THEN <<x>>
                      ELSE <<(x % VarBase) + VarBase>> \o uvarint[x \div VarBase]

\* binary.Uvarint: the number s begins with and how many bytes it takes, 0 if
\* it is cut off
Uvarint[s \in Seq(Byte)] ==
    IF s = << >> THEN [n |-> 0, x |-> 0]
    ELSE IF Head(s) < VarBase THEN [n |-> 1, x |-> Head(s)]
    ELSE LET more(r) == IF r.n = 0 THEN r
                        ELSE [n |-> r.n + 1, x |-> (Head(s) % VarBase) + VarBase * r.x]
         IN  more(Uvarint[Tail(s)])

\* a value is encoded only for keyTypeVal
encode(kt, key, value) ==
    <<kt>> \o uvarint[Len(key)] \o key
           \o (IF kt = keyTypeVal THEN uvarint[Len(value)] \o value ELSE << >>)

\* the index entry of a record that begins at offset o
batchIndex(o, kt, key, value) ==
    LET kp == o + 1 + Len(uvarint[Len(key)])
    IN  [keyType |-> kt, keyPos |-> kp, keyLen |-> Len(key),
         valuePos |-> IF kt = keyTypeVal
                      THEN kp + Len(key) + Len(uvarint[Len(value)]) ELSE 0,
         valueLen |-> Len(value)]

Slice(s, pos, len) == SubSeq(s, pos + 1, pos + len)

\* batchIndex.kv: the operation an index entry describes
kv(d, e) == <<e.keyType, Slice(d, e.keyPos, e.keyLen), Slice(d, e.valuePos, e.valueLen)>>

\* the operations that Replay passes on
Replay(b) == [i \in 1..Len(index[b]) |-> kv(data[b], index[b][i])]

InternalLen(idx) ==
    LET sum[i \in 0..Len(idx)] ==
            IF i = 0 THEN 0 ELSE sum[i - 1] + idx[i].keyLen + idx[i].valueLen + KeyOverhead
    IN  sum[Len(idx)]

-----------------------------------------------------------------------------
(* Decoding *)

\* variant: what a length measures may not reach the end of the data
FitsOffByOne(u, o, d) == u.n > 0 /\ o + u.n + u.x < Len(d)

\* the length u read at offset o is complete, and so is what it measures
Fits(u, o, d) == u.n > 0 /\ o + u.n + u.x <= Len(d)

\* errBatchCorrupted: there is no next offset
Bad == [o |-> -1]

\* the value of a record at o whose key has the length ku: the entry and the
\* offset after it; vu is the length of the value, read at vo
decodeValue(d, o, ku, vo, vu) ==
    IF ~Fits(vu, vo, d) THEN Bad
    ELSE [e |-> [keyType |-> d[o + 1], keyPos |-> o + 1 + ku.n, keyLen |-> ku.x,
                 valuePos |-> vo + vu.n, valueLen |-> vu.x],
          o |-> vo + vu.n + vu.x]

\* the record at o, whose key has the length ku; vo is the offset after the key
decodeKey(d, o, ku, vo) ==
    IF d[o + 1] > keyTypeVal \/ ~Fits(ku, o + 1, d) THEN Bad
    ELSE IF d[o + 1] = keyTypeVal
         THEN decodeValue(d, o, ku, vo, Uvarint[SubSeq(d, vo + 1, Len(d))])
         ELSE [e |-> [keyType |-> d[o + 1], keyPos |-> o + 1 + ku.n, keyLen |-> ku.x,
                      valuePos |-> 0, valueLen |-> 0],
               o |-> vo]

\* one turn of decodeBatch's loop at offset o
decodeRec(d, o) ==
    LET ku == Uvarint[SubSeq(d, o + 2, Len(d))]
    IN  decodeKey(d, o, ku, o + 1 + ku.n + ku.x)

\* decodeBatch: the entries up to the first bad record, and whether there is one
decodeBatch(d) ==
    LET dec[o \in 0..Len(d)] ==
            LET rest(r) == IF r = Bad THEN [ok |-> FALSE, idx |-> << >>]
                           ELSE [ok |-> dec[r.o].ok, idx |-> <<r.e>> \o dec[r.o].idx]
            IN  IF o = Len(d) THEN [ok |-> TRUE, idx |-> << >>] ELSE rest(decodeRec(d, o))
    IN  dec[0]

-----------------------------------------------------------------------------
BatchInit ==
    /\ data = [b \in Batches |-> << >>] /\ index = [b \in Batches |-> << >>]
    /\ ilen = [b \in Batches |-> 0] /\ recs = [b \in Batches |-> << >>]
    /\ broken = [b \in Batches |-> 0]
    /\ wb = CHOOSE b \in Batches : TRUE
    /\ wpc = "idle" /\ wi = 0

\* the batches that consist of records
sound == {b \in Batches : broken[b] = 0}

\* what MaxRecs bounds
Pieces(b) == Len(index[b]) + broken[b]

\* Batch b gets new contents; k parts of d are not records.
SetBatch(b, d, idx, n, ops, k) ==
    /\ data' = [data EXCEPT ![b] = d] /\ index' = [index EXCEPT ![b] = idx]
    /\ ilen' = [ilen EXCEPT ![b] = n] /\ recs' = [recs EXCEPT ![b] = ops]
    /\ broken' = [broken EXCEPT ![b] = k]
    /\ UNCHANGED wvars

\* the client has one goroutine: it changes a batch when it is not in Write
Idle == wpc = "idle"

appendRec(b, kt, key, value) ==
    /\ Idle /\ Pieces(b) < MaxRecs
    /\ SetBatch(b, data[b] \o encode(kt, key, value),
                Append(index[b], batchIndex(Len(data[b]), kt, key, value)),
                ilen[b] + Len(key) + Len(value) + KeyOverhead,
                Append(recs[b], <<kt, key, value>>), broken[b])

Put(b, key, value) == appendRec(b, keyTypeVal, key, value)
Delete(b, key) == appendRec(b, keyTypeDel, key, << >>)

Reset(b) ==
    /\ Idle
    /\ SetBatch(b, << >>, << >>, 0, << >>, 0)

\* variant: only keys are moved
ShiftKeys(e, ob) == [e EXCEPT !.keyPos = @ + ob]

\* an entry of the appended batch moves by the length of the data before it; a
\* value that is empty has no position
Shift(e, ob) == [e EXCEPT !.keyPos = @ + ob,
                          !.valuePos = IF e.valueLen # 0 THEN @ + ob ELSE @]

append(b, p) ==
    /\ Idle /\ Pieces(b) + Pieces(p) <= MaxRecs
    /\ SetBatch(b, data[b] \o data[p],
                index[b] \o [i \in 1..Len(index[p]) |-> Shift(index[p][i], Len(data[b]))],
                ilen[b] + ilen[p], recs[b] \o recs[p], broken[b] + broken[p])

\* b gets the entries of r, those before the first bad record of d, also when
\* the error is returned; ops are the operations d was made of
decode(b, d, r, ops) ==
    SetBatch(b, d, r.idx, InternalLen(r.idx), SubSeq(ops, 1, Len(r.idx)),
             IF r.ok THEN 0 ELSE 1)

\* Load of the first n bytes of p's Dump
Load(b, p, n) ==
    /\ Idle /\ p \in sound
    /\ LET d == SubSeq(data[p], 1, n) IN decode(b, d, decodeBatch(d), recs[p])

-----------------------------------------------------------------------------
(* IPFSdb.Write *)

WriteBegin(b) ==
    /\ Idle
    /\ wb' = b /\ wi' = 0
    /\ wpc' = IF Len(index[b]) = 0 THEN "ok" ELSE "loop"
    /\ UNCHANGED bvars

\* IPFSdb.Put: the daemon stores the value as a block, or the loop is left with
\* its error; the key is not used
PutBlock(fails) == IF fails THEN wpc' = "err" /\ wi' = wi
                            ELSE wpc' = wpc /\ wi' = wi + 1

\* a turn of the loop that finds its entry
WritePut(fails) ==
    /\ wpc = "loop" /\ wi < ilen[wb] /\ wi < Len(index[wb])
    /\ PutBlock(fails)
    /\ UNCHANGED <<bvars, wb>>

\* the loop ends, or runs past the index
WriteEnd ==
    /\ wpc = "loop" /\ (wi >= ilen[wb] \/ wi >= Len(index[wb]))
    /\ wpc' = IF wi >= ilen[wb] THEN "ok" ELSE "panic"
    /\ UNCHANGED <<bvars, wb, wi>>

\* the caller of Write goes on
WriteReturn ==
    /\ wpc \in {"ok", "err"}
    /\ wb' = CHOOSE b \in Batches : TRUE
    /\ wpc' = "idle" /\ wi' = 0
    /\ UNCHANGED bvars

BatchNext ==
    \/ \E b \in Batches, key \in Keys : Delete(b, key) \/ \E value \in Values : Put(b, key, value)
    \/ \E b \in Batches : Reset(b) \/ WriteBegin(b)
    \/ \E b, p \in Batches : append(b, p) \/ \E n \in 0..Len(data[p]) : Load(b, p, n)
    \/ \E fails \in BOOLEAN : WritePut(fails)
    \/ WriteEnd \/ WriteReturn

-----------------------------------------------------------------------------
(***************************************************************************)
(* Replay passes on the operations that were put into a batch, in order,   *)
(* and internalLen is their size: after Put and Delete, after append has   *)
(* moved the entries of another batch, after a Load, for the part that was *)
(* read when Load failed, and for what is added behind the bytes that were *)
(* not (appendRec, append, decode, Replay).                                *)
(***************************************************************************)
Recorded ==
    \A b \in Batches :
        /\ Replay(b) = recs[b]
        /\ ilen[b] = InternalLen(index[b])

\* the bytes of the first m of ops
Bytes(ops, m) == FlattenSeq([i \in 1..m |-> encode(ops[i][1], ops[i][2], ops[i][3])])

\* d, the first bytes of ops, decodes as r: the records that are complete in d,
\* all of them, and no error if there is nothing behind them
Loads(d, r, ops) ==
    /\ [i \in 1..Len(r.idx) |-> kv(d, r.idx[i])] = SubSeq(ops, 1, Len(r.idx))
    /\ \A m \in 0..Len(ops) : Len(Bytes(ops, m)) <= Len(d) <=> m <= Len(r.idx)
    /\ r.ok <=> \E m \in 0..Len(ops) : d = Bytes(ops, m)

(***************************************************************************)
(* Dump and Load are inverse: the bytes of a batch, cut off anywhere, load *)
(* as all the records that are complete and no other, and without error    *)
(* exactly if the cut is between two records (Dump, decodeBatch).          *)
(***************************************************************************)
TornLoad ==
    \A b \in sound :
        /\ \A n \in 0..Len(data[b]) :
               LET d == SubSeq(data[b], 1, n) IN Loads(d, decodeBatch(d), recs[b])
        /\ Len(decodeBatch(data[b]).idx) = Len(recs[b])

-----------------------------------------------------------------------------
(* A statement of the source that the code does not meet. *)

(***************************************************************************)
(* "internalLen is sums of key/value pair length plus 8-bytes internal     *)
(* key": it is no bound for a loop over the records, which must end with   *)
(* the last of them (Write).                                               *)
(***************************************************************************)
WriteStaysInIndex == wpc # "panic"

=============================================================================
