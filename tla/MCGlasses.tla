----------------------------- MODULE MCGlasses -----------------------------
(***************************************************************************)
(* Instances of Glasses for TLC.                                           *)
(***************************************************************************)
EXTENDS Glasses

OneCommand  == {"stop"}
TwoCommands == {"stop", "forward"}

\* Requests, a recursive function so that proofs can be made about it, is what
\* SelectSeq gives.
ASSUME RequestsAreSelected ==
  \A n \in 0 .. 3 : \A lines \in [1 .. n -> Line] :
    Requests(lines) = SelectSeq(lines, LAMBDA line : line \in CarCommand)
=============================================================================
