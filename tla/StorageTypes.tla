---------------------------- MODULE StorageTypes ----------------------------
(* File descriptors (taudb/storage/storage.go), shared by both storages.    *)
EXTENDS Integers

TypeManifest == 1
TypeJournal  == 2
TypeTable    == 4
TypeTemp     == 8
TypeAll      == {TypeManifest, TypeJournal, TypeTable, TypeTemp}

\* a descriptor is a record [type, num]
FileDescOk(fd) == fd.type \in TypeAll /\ fd.num >= 0

=============================================================================
