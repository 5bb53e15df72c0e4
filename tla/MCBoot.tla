------------------------------- MODULE MCBoot -------------------------------
(* Instance of Boot for TLC: three DMA channels, a blink interval of three   *)
(* checks.                                                                   *)
EXTENDS Boot
=============================================================================
