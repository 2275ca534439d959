--------------------------- MODULE MCProofVerifier ---------------------------
(* Instances of ProofVerifier for TLC. *)
EXTENDS ProofVerifier

\* Times around the issue and the end of a request of 300 s or 600 s, and
\* around the seconds in which the entries made for it lapse.
Around == {1000000, 1000600, 1300000, 1300500, 1600200, 1601400}

SomeTtls == {300, 600}

\* A requester whose clock is right, and one that is ahead.
SomeOffsets == {0, 300}

AllFaults == {"restart", "crash", "save", "clear"}
NoFaults == {}

=============================================================================
