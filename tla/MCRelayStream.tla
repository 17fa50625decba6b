---------------------------- MODULE MCRelayStream ----------------------------
(***************************************************************************)
(* A small instance of RelayStream: two requests that compete for one      *)
(* capture slot, one with a response of two units, the other's ends        *)
(* without any.                                                            *)
(***************************************************************************)
EXTENDS RelayStream

MCUnits == [r1 |-> 2, r2 |-> 0]

==============================================================================
