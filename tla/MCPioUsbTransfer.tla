-------------------------- MODULE MCPioUsbTransfer --------------------------
(* Instance of PioUsbTransfer for TLC: packets of two bytes, transfers of up *)
(* to five, so that a transfer takes up to three packets and may end short.  *)
EXTENDS PioUsbTransfer
=============================================================================
