--------------------------- MODULE MCAppointments ---------------------------
(* TLC instances of Appointments: requests and enquiries are symmetric.    *)
EXTENDS Appointments, TLC

Symmetry == Permutations(Requests) \cup Permutations(Enquiries)
=============================================================================
