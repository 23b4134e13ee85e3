-------------------------- MODULE MCFunctionEvents --------------------------
(***************************************************************************)
(* FunctionEvents with one OUT endpoint and requests of every kind onSetup *)
(* tells apart.                                                            *)
(***************************************************************************)
EXTENDS FunctionEvents

Req(recip, type, dir, name, index, fits) ==
    [recip |-> recip, type |-> type, dir |-> dir, name |-> name, index |-> index, fits |-> fits]

HostRequests ==
    {Req("interface", "standard", "in", "GET_DESCRIPTOR", 0, TRUE),
     Req("interface", "class", "in", "GET_IDLE", 0, TRUE),
     Req("interface", "class", "out", "SET_IDLE", 0, TRUE),
     Req("interface", "class", "out", "GET_IDLE", 0, TRUE),
     Req("endpoint", "standard", "in", "GET_STATUS", 0, TRUE),
     Req("endpoint", "standard", "out", "SET_FEATURE", 1, TRUE),
     Req("endpoint", "standard", "out", "CLEAR_FEATURE", 1, TRUE),
     Req("endpoint", "standard", "out", "SET_FEATURE", 3, TRUE)}
=============================================================================
