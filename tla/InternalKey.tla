---------------------------- MODULE InternalKey -----------------------------
(***************************************************************************)
(* Internal keys (taudb/key.go): a user key followed by a number of fixed  *)
(* width, in which a sequence number and a key type are packed together.   *)
(* A client makes keys, or is given bytes that may not be one.             *)
(*                                                                         *)
(* A byte is a number below ByteBase and a key is a sequence of bytes.     *)
(***************************************************************************)
EXTENDS Integers, Sequences

CONSTANTS ByteBase,   \* values of a byte: 256
          NumLen,     \* bytes of the packed number: 8
          KeyLens,    \* bound: lengths of the user keys in play
          Seqs        \* bound: sequence numbers in play

ASSUME KeyAssumption ==
    /\ ByteBase \in Nat /\ ByteBase >= 2 /\ NumLen \in Nat /\ NumLen >= 1
    /\ KeyLens \subseteq Nat /\ Seqs \subseteq Nat

Byte == 0..(ByteBase - 1)
Strings(lens) == UNION {[1..n -> Byte] : n \in lens}

keyTypeDel == 0
keyTypeVal == 1

\* what one of byte i of a number counts: ByteBase to the power i
Weight[i \in Nat] == IF i = 0 THEN 1 ELSE ByteBase * Weight[i - 1]

\* seven of the eight bytes are left to the sequence number
keyMaxSeq == Weight[NumLen - 1] - 1

\* binary.LittleEndian.PutUint64 and Uint64
PutUint(num) == [i \in 1..NumLen |-> (num \div Weight[i - 1]) % ByteBase]
UintFrom[bs \in Seq(Byte)] ==
    IF bs = << >> THEN 0 ELSE Head(bs) + ByteBase * UintFrom[Tail(bs)]

\* variant: the largest sequence number is one too large
MakeableOffByOne(seq, kt) == seq <= keyMaxSeq + 1 /\ kt <= keyTypeVal

\* makeInternalKey panics otherwise
Makeable(seq, kt) == seq <= keyMaxSeq /\ kt <= keyTypeVal

\* (seq<<8) | uint64(kt)
pack(seq, kt) == seq * ByteBase + kt

makeInternalKey(ukey, seq, kt) == ukey \o PutUint(pack(seq, kt))

\* the parts of an internal key, and whether its length and type are valid
ukeyOf(ik) == SubSeq(ik, 1, Len(ik) - NumLen)
numOf(ik)  == UintFrom[SubSeq(ik, Len(ik) - NumLen + 1, Len(ik))]
seqOf(ik)  == numOf(ik) \div ByteBase
typeOf(ik) == numOf(ik) % ByteBase

validInternalKey(ik) == Len(ik) >= NumLen /\ typeOf(ik) <= keyTypeVal

VARIABLES ikey,   \* the bytes at hand
          made    \* the arguments they were made of, << >> for foreign bytes

KeyInit == ikey = << >> /\ made = << >>

MakeKey(ukey, seq, kt) ==
    /\ Makeable(seq, kt)
    /\ ikey' = makeInternalKey(ukey, seq, kt)
    /\ made' = <<ukey, seq, kt>>

Receive(bytes) == ikey' = bytes /\ made' = << >>

KeyNext ==
    \/ \E ukey \in Strings(KeyLens), seq \in Seqs, kt \in Byte : MakeKey(ukey, seq, kt)
    \/ \E n \in KeyLens : \E bytes \in Strings({n, n + NumLen}) : Receive(bytes)

-----------------------------------------------------------------------------
(***************************************************************************)
(* Keys are made and taken apart without loss, up to the largest sequence  *)
(* number: a key gives back what it was made of, number and type share     *)
(* eight bytes and never meet, and bytes that parseInternalKey accepts are *)
(* bytes that makeInternalKey makes, without its panics (makeInternalKey,  *)
(* parseInternalKey, validInternalKey).                                    *)
(***************************************************************************)
KeyRoundTrip ==
    LET parts == <<ukeyOf(ikey), seqOf(ikey), typeOf(ikey)>>
    IN  /\ made # << >> => validInternalKey(ikey) /\ parts = made
        /\ validInternalKey(ikey) => /\ Makeable(parts[2], parts[3])
                                    /\ ikey = makeInternalKey(parts[1], parts[2], parts[3])

=============================================================================
