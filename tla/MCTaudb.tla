------------------------------ MODULE MCTaudb -------------------------------
(***************************************************************************)
(* Instances of the parts of the database package that keep no state in    *)
(* common.  A behaviour uses one of them, chosen at the beginning.         *)
(***************************************************************************)
EXTENDS Batch, BufferPool, ByteBuffer

VARIABLE part   \* the part in use: "key", "batch", "pool" or "buffer"

keyVars == <<ikey, made>>
taudbVars == <<part, keyVars, batchVars, poolVars, bufVars>>

TaudbInit ==
    /\ part \in {"key", "batch", "pool", "buffer"}
    /\ KeyInit /\ BatchInit /\ PoolInit
    /\ BufInit /\ (part # "buffer" => isNil)

KeyStep    == part = "key" /\ KeyNext /\ UNCHANGED <<part, batchVars, poolVars, bufVars>>
BatchStep  == part = "batch" /\ BatchNext /\ UNCHANGED <<part, keyVars, poolVars, bufVars>>
PoolStep   == part = "pool" /\ PoolNext /\ UNCHANGED <<part, keyVars, batchVars, bufVars>>
BufferStep == part = "buffer" /\ BufNext /\ UNCHANGED <<part, keyVars, batchVars, poolVars>>

TaudbNext == KeyStep \/ BatchStep \/ PoolStep \/ BufferStep

TaudbSpec == TaudbInit /\ [][TaudbNext]_taudbVars

\* numbers at the edges of what a packed number holds
MCSeqs == {0, 1, keyMaxSeq, keyMaxSeq + 1}

\* an empty key, and one whose length takes two digits
MCKeys == {<< >>, <<0, 3>>}
MCValues == {<< >>, <<1>>}

MCPoolCap == [k \in 0..5 |-> 1]
MCForeign == {<<1, 9>>}
MCChunks == {<< >>, <<1>>, <<1, 2>>}

ThreadSymmetry == Permutations(Threads)

=============================================================================
