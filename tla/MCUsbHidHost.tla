---------------------------- MODULE MCUsbHidHost ----------------------------
(***************************************************************************)
(* Small instances of UsbHidHost for TLC: a keyboard without Report IDs, a *)
(* device with one, and an interface without a descriptor.                 *)
(***************************************************************************)
EXTENDS UsbHidHost

MCItem(kind) == [kind |-> kind, id |-> 0, len |-> 2, from |-> 0]
MCKeyboard == <<MCItem("collection"), MCItem("input")>>
MCNumbered == <<MCItem("collection"), ReportIdItem(1, 0), MCItem("input")>>

\* Where devices are taken out, the two take each other's place; elsewhere one may lack its descriptor.
MCDevices == [s \in Slots |-> IF s \in Removable THEN {MCKeyboard, MCNumbered} ELSE {MCNumbered, <<>>}]
=============================================================================
