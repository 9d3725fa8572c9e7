-------------------------- MODULE MCEnquiryStatus --------------------------
(* TLC instances of EnquiryStatus.                                         *)
EXTENDS EnquiryStatus, TLC

Symmetry == Permutations(Requests)
=============================================================================
