------------------------------ MODULE MCSockets ------------------------------
(* Instances of Sockets for TLC. *)
EXTENDS Sockets, TLC

\* Descriptors, SSL objects and storage of one kind are interchangeable.
MCSymmetry ==
    Permutations(Fds) \cup Permutations(Ssls) \cup Permutations(IOObjs)
=============================================================================
