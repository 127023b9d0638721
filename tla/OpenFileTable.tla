--------------------------- MODULE OpenFileTable ---------------------------
(***************************************************************************)
(* What the file descriptor table of TokuFS promises its callers, as an   *)
(* abstract specification: a descriptor names at most one open file, an   *)
(* open in progress holds its descriptor alone until it publishes a file   *)
(* there or gives the descriptor back, only close takes a file away, and   *)
(* a mount starts with every descriptor free.  How the table is locked,    *)
(* and that allocation and publication are separate critical sections,    *)
(* is left to the implementation.                                          *)
(***************************************************************************)
CONSTANTS Slots, Threads, Paths, Free

VARIABLES
    files,    \* descriptor -> the open file's name, or Free
    claimed   \* descriptor -> the threads whose open holds it

Init ==
    /\ files = [i \in Slots |-> Free]
    /\ claimed = [i \in Slots |-> {}]

(* An open takes a descriptor that is neither open nor held.              *)
Reserve(t, i) ==
    /\ files[i] = Free /\ claimed[i] = {}
    /\ claimed' = [claimed EXCEPT ![i] = {t}]
    /\ UNCHANGED files

(* The open succeeds and the file appears under its descriptor.           *)
Publish(t, i, p) ==
    /\ claimed[i] = {t}
    /\ files' = [files EXCEPT ![i] = p]
    /\ claimed' = [claimed EXCEPT ![i] = {}]

(* The open fails and gives the descriptor back.                          *)
Abandon(t, i) ==
    /\ claimed[i] = {t}
    /\ claimed' = [claimed EXCEPT ![i] = {}]
    /\ UNCHANGED files

Close(i) ==
    /\ files[i] # Free
    /\ files' = [files EXCEPT ![i] = Free]
    /\ UNCHANGED claimed

Mount ==
    /\ files' = [i \in Slots |-> Free]
    /\ claimed' = [i \in Slots |-> {}]

Next ==
    \/ \E t \in Threads, i \in Slots :
          Reserve(t, i) \/ Abandon(t, i) \/ \E p \in Paths : Publish(t, i, p)
    \/ \E i \in Slots : Close(i)
    \/ Mount

Spec == Init /\ [][Next]_<<files, claimed>>

=============================================================================
