----------------------------- MODULE ByteQueue ------------------------------
(***************************************************************************)
(* What a Buffer promises (taudb/utils/buffer.go): bytes come out in the   *)
(* order in which they went in, each once, or are cut off at the end.      *)
(***************************************************************************)
EXTENDS Sequences, Naturals

VARIABLES queue,   \* the unread bytes
          moved    \* what the last operation took in, gave out or cut off

QueueInit == moved = <<"cut", << >>>>

Add  == moved'[1] = "add"  /\ queue' = queue \o moved'[2]
Take == moved'[1] = "take" /\ queue = moved'[2] \o queue'
Cut  == moved'[1] = "cut"  /\ queue = queue' \o moved'[2]

QueueNext == Add \/ Take \/ Cut

QueueSpec == QueueInit /\ [][QueueNext]_<<queue, moved>>

=============================================================================
