-------------------------- MODULE MCPioUsbRootPort --------------------------
(* Instance of PioUsbRootPort for TLC: a pool of one or two slots and two    *)
(* endpoints, so that slots are short and are used again.                    *)
EXTENDS PioUsbRootPort

CONSTANTS control, interrupt, none
=============================================================================
