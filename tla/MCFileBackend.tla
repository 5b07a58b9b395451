--------------------------- MODULE MCFileBackend ---------------------------
(***************************************************************************)
(* Instances of FileBackend: two handles, of two processes or of one.      *)
(***************************************************************************)
EXTENDS FileBackend, TLC

CONSTANTS h1, h2, p1, p2, i1, i2, i3, i4

OneHandle    == {h1}
TwoHandles   == {h1, h2}
TwoProcesses == {p1, p2}
OneProcess   == {p1}
Apart        == h1 :> p1 @@ h2 :> p2
Together     == h1 :> p1 @@ h2 :> p1
Alone        == h1 :> p1
MCInodes     == {i1, i2, i3, i4}

Symmetry == Permutations(MCInodes)

\* What the inodes nobody refers to hold is forgotten.
Visible ==
    <<mem, pc, fd, key, path, tmp, acked,
      [i \in Inodes |-> IF i \in FreeInodes THEN Empty ELSE content[i]]>>

=============================================================================
