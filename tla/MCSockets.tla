----------------------------- MODULE MCSockets -----------------------------
(* Sockets for TLC, with octets of one bit and two addresses whose octets   *)
(* differ in every way they can be confused.                                *)
EXTENDS Sockets

TwoAddresses ==
    {[host |-> <<1, 0, 0, 0>>, port |-> 1], [host |-> <<1, 1, 0, 1>>, port |-> 2]}
=============================================================================
