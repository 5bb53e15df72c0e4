---------------------------- MODULE MCBleHidPeriph ----------------------------
(***************************************************************************)
(* Small instances of BleHidPeriph for TLC; the constants are in the .cfg  *)
(* of each run.                                                            *)
(***************************************************************************)
EXTENDS BleHidPeriph, TLC

=============================================================================
