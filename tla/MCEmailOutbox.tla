---------------------------- MODULE MCEmailOutbox ----------------------------
(* TLC instance of EmailOutbox: one retry, then a message is given up.     *)
EXTENDS EmailOutbox

OneWait == <<1>>
=============================================================================
