----------------------------- MODULE MCUsbPacket -----------------------------
(***************************************************************************)
(* Instance of UsbPacket for TLC: every byte alone, pairs with long runs   *)
(* of ones at every place, and full packets; every token.                  *)
(***************************************************************************)
EXTENDS UsbPacket

MCRuns == {0, 1, 63, 127, 128, 252, 255}
MCPairs == {<<a, b>> : a \in MCRuns, b \in MCRuns}
MCFull == {[n \in 1..PIO_USB_EP_SIZE |-> b] : b \in {0, 126, 255}}
MCPayloads == {<<>>} \cup {<<b>> : b \in 0..255} \cup MCPairs \cup MCFull
MCWords == 0..2047
MCDisturbed == {<<>>} \cup {<<b>> : b \in MCRuns} \cup MCPairs
=============================================================================
