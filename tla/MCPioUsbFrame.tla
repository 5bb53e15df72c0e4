---------------------------- MODULE MCPioUsbFrame ----------------------------
(***************************************************************************)
(* Two ports of opposite pinout, two endpoints, and a counter that wraps   *)
(* at 3.                                                                   *)
(***************************************************************************)
EXTENDS PioUsbFrame

MCPinout == [r \in 0..1 |-> IF r = 0 THEN "dpdm" ELSE "dmdp"]

\* A control endpoint, interrupt endpoints polled every second frame, behind a hub, and one
\* whose interval of 0 wraps.
MCKinds == {
    [need_pre |-> FALSE, periodic |-> FALSE, input |-> FALSE, interval |-> 0],
    [need_pre |-> TRUE, periodic |-> TRUE, input |-> TRUE, interval |-> 2],
    [need_pre |-> FALSE, periodic |-> TRUE, input |-> TRUE, interval |-> 0] }
=============================================================================
