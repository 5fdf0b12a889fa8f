------------------------------ MODULE MCSetup ------------------------------
(* Setup for TLC.                                                          *)
EXTENDS Setup

CONSTANTS d1, d2

\* Setup turns both on, so that both have to be put back.
BothOff == {[pairable |-> FALSE, discoverable |-> FALSE]}

\* The phones are interchangeable: the configuration names the first, if any.
First == {NoDevice, d1}

=============================================================================
