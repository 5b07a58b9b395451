-------------------------------- MODULE Calls --------------------------------
(***************************************************************************)
(* The functions of the library that keep no state: a thread calls one,    *)
(* with arguments and an outcome, and returns.                             *)
(***************************************************************************)
EXTENDS Sequences, SequencesExt

CONSTANT Missing    \* NULL

VARIABLE call

NoCall == [fn |-> "none"]

Quiet == call = NoCall

\* The call c, with what comes of it.
Made(c) == call' = c

Return == ~Quiet /\ call' = NoCall

\* What of a sequence is in the set, one after the other as a loop copies it out.
Chosen(seq, set) ==
    FoldLeft(LAMBDA taken, x : IF x \in set THEN Append(taken, x) ELSE taken, <<>>, seq)

=============================================================================
