------------------------------- MODULE Storage ------------------------------
(***************************************************************************)
(* What the interface Storage (taudb/storage/storage.go) promises of the   *)
(* files behind the descriptors, whatever keeps them: Create makes a new   *)
(* file of its descriptor or truncates the one that is there, Remove leaves*)
(* no file under it, Rename moves a file and replaces the one it meets,    *)
(* nothing else changes what a descriptor stands for, and List returns the *)
(* descriptors that stand for a file.                                      *)
(***************************************************************************)
CONSTANTS Fds,    \* valid file descriptors
          Files,  \* the files they may stand for
          None    \* no file

VARIABLES dir,    \* what each descriptor stands for
          listed  \* what List returns

\* no file has two descriptors
Injective == \A a, b \in Fds : dir[a] = dir[b] /\ dir[a] # None => a = b

\* List(TypeAll)
Present == {fd \in Fds : dir[fd] # None}

Init == dir \in [Fds -> Files \cup {None}] /\ Injective /\ listed = Present

\* a truncated file stays where it is, which changes nothing here
Create(fd) ==
    \E f \in Files :
        /\ \A g \in Fds : dir[g] # f
        /\ dir' = [dir EXCEPT ![fd] = f]

Remove(fd) == dir[fd] # None /\ dir' = [dir EXCEPT ![fd] = None]

Rename(oldfd, newfd) ==
    /\ oldfd # newfd /\ dir[oldfd] # None
    /\ dir' = [dir EXCEPT ![oldfd] = None, ![newfd] = dir[oldfd]]

Next ==
    /\ \/ \E fd \in Fds : Create(fd) \/ Remove(fd)
       \/ \E oldfd, newfd \in Fds : Rename(oldfd, newfd)
    /\ listed' = Present'

Spec == Init /\ [][Next]_<<dir, listed>>

=============================================================================
