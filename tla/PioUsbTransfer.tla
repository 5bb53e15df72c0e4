--------------------------- MODULE PioUsbTransfer ---------------------------
(***************************************************************************)
(* The transfers of one endpoint, as src/src/Pico-PIO-USB/src/pio_usb.c    *)
(* and pio_usb_host.c carry them out: the host stack starts a transfer,    *)
(* each frame runs one transaction of it over the bus, and the transfer    *)
(* ends complete, stalled or failed.                                       *)
(*                                                                         *)
(* The device and the bus are external: the device follows the data-toggle *)
(* rules of USB, any packet may be lost or damaged, and the device may     *)
(* fall silent for good.  A packet is named by its length and the position *)
(* of its first byte in the endpoint's stream, or in the data of a control *)
(* request; positions are counted modulo Positions.                        *)
(***************************************************************************)
EXTENDS Naturals

CONSTANTS
    PacketSize,     \* ep->size, wMaxPacketSize
    MaxRetry,       \* TRANSACTION_MAX_RETRY
    MaxLen,         \* bound: bytes of a transfer
    Positions       \* bound: positions that are told apart

ASSUME SizeAssumption ==
    /\ PacketSize \in Nat \ {0} /\ MaxRetry \in Nat \ {0}
    /\ MaxLen \in Nat /\ Positions \in Nat /\ Positions > MaxLen + PacketSize

VARIABLES
    kind,           \* what the endpoint is: interrupt "in" or "out", or "control"
    is_tx,
    data_id,        \* toggle of the next data packet, or USB_PID_SETUP
    has_transfer, failed_count, total_len, actual_len,
    buffer,         \* the packet prepare_tx_data has encoded: [toggle, pos, len]
    host_pos,       \* where the next packet the host receives, or sends, starts
    result,         \* how the last transfer ended
    stage,          \* what the host stack transfers next; always "data" but for control
    request,        \* the control request: [in, len] of its data stage
    dev_toggle, dev_pos,    \* the packet the device expects, or sends until it sees an ACK
    dev_sent,       \* length of a packet sent without an ACK so far, or Unsent
    dev_status,     \* the device has reached the status stage
    silent,         \* the device no longer answers
    gap,            \* history: a packet was taken out of turn, or the status before the data
    errors          \* history: a transfer of the endpoint has stalled or failed

transfer == <<has_transfer, failed_count, total_len, actual_len, buffer>>
device == <<dev_toggle, dev_pos, dev_sent, dev_status>>
history == <<gap, errors>>
vars == <<kind, is_tx, data_id, transfer, host_pos, result, stage, request, device, silent, history>>

USB_PID_SETUP == 45
Unsent == PacketSize + 1
Least(a, b) == IF a <= b THEN a ELSE b
Flip(toggle) == 1 - toggle
Forward(pos, len) == (pos + len) % Positions

\* An endpoint just opened: pio_usb_ll_configure_endpoint.
Init ==
    /\ kind \in {"in", "out", "control"} /\ is_tx = (kind # "in")
    /\ data_id = 0 /\ has_transfer = FALSE /\ failed_count = 0
    /\ total_len = 0 /\ actual_len = 0 /\ buffer = [toggle |-> 0, pos |-> 0, len |-> 0]
    /\ host_pos = 0 /\ result = "none"
    /\ stage = (IF kind = "control" THEN "setup" ELSE "data")
    /\ request = [in |-> FALSE, len |-> 0]
    /\ dev_toggle = 0 /\ dev_pos = 0 /\ dev_sent = Unsent /\ dev_status = FALSE
    /\ silent = FALSE /\ gap = FALSE /\ errors = FALSE

-----------------------------------------------------------------------------
(***************************************************************************)
(* Starting a transfer                                                     *)
(***************************************************************************)

\* prepare_tx_data, with "left" bytes of the transfer to go; a SETUP goes as DATA0.
Encoded(id, pos, left) ==
    [toggle |-> IF id = 1 THEN 1 ELSE 0, pos |-> pos, len |-> Least(left, PacketSize)]

\* Its callers have seen to is_tx and data_id.
pio_usb_ll_transfer_start(len) ==
    /\ ~has_transfer
    /\ has_transfer' = TRUE /\ failed_count' = 0
    /\ total_len' = len /\ actual_len' = 0
    /\ buffer' = IF is_tx' THEN Encoded(data_id', host_pos', len) ELSE buffer
    /\ result' = "none"
    /\ UNCHANGED <<kind, stage, device, silent, history>>

\* The eight bytes of the SETUP are not part of the request's data.
pio_usb_host_send_setup(in, len) ==
    /\ kind = "control" /\ stage = "setup"
    /\ is_tx' = TRUE /\ data_id' = USB_PID_SETUP
    /\ host_pos' = 0 /\ request' = [in |-> in, len |-> len]
    /\ pio_usb_ll_transfer_start(8)

\* What the host stack asks for: its report buffer full, any bytes to send, or the data stage
\* of the request, or its status stage, which goes the other way.
Asked(in, len) ==
    CASE kind = "in" -> in /\ len = MaxLen
      [] kind = "out" -> ~in
      [] kind = "control" /\ stage = "data" -> in = request.in /\ len = request.len
      [] kind = "control" /\ stage = "status" -> in = ~request.in /\ len = 0
      [] OTHER -> FALSE

\* Fault: the status stage goes on with the toggle of the data stage.
StatusKeepsToggle(in, len) ==
    /\ Asked(in, len)
    /\ is_tx' = ~in
    /\ data_id' = IF kind = "control" /\ stage = "data" THEN 1 ELSE data_id
    /\ UNCHANGED <<host_pos, request>>
    /\ pio_usb_ll_transfer_start(len)

\* Data and status stage both start with DATA1.
pio_usb_host_endpoint_transfer(in, len) ==
    /\ Asked(in, len)
    /\ is_tx' = ~in
    /\ data_id' = IF kind = "control" THEN 1 ELSE data_id
    /\ UNCHANGED <<host_pos, request>>
    /\ pio_usb_ll_transfer_start(len)

(***************************************************************************)
(* What a transaction comes to                                             *)
(***************************************************************************)

\* pio_usb_ll_transfer_complete; a control request goes on to its next stage, or is over.
Complete(how) ==
    /\ has_transfer' = FALSE /\ result' = how
    /\ stage' = CASE kind # "control" -> stage
                  [] kind = "control" /\ how = "complete" /\ stage = "setup" ->
                        IF request.len > 0 THEN "data" ELSE "status"
                  [] kind = "control" /\ how = "complete" /\ stage = "data" -> "status"
                  [] OTHER -> "setup"

\* Fault: the next packet is encoded before the toggle changes.
ContinueWithOldToggle(len) ==
    /\ actual_len' = actual_len + len /\ host_pos' = Forward(host_pos, len)
    /\ data_id' = Flip(data_id)
    /\ IF len < PacketSize \/ actual_len' >= total_len
       THEN Complete("complete") /\ UNCHANGED buffer
       ELSE /\ buffer' = IF is_tx THEN Encoded(data_id, host_pos', total_len - actual_len') ELSE buffer
            /\ UNCHANGED <<has_transfer, result, stage>>

\* A short packet or the last byte ends the transfer.
pio_usb_ll_transfer_continue(len) ==
    /\ actual_len' = actual_len + len /\ host_pos' = Forward(host_pos, len)
    /\ data_id' = Flip(data_id)
    /\ IF len < PacketSize \/ actual_len' >= total_len
       THEN Complete("complete") /\ UNCHANGED buffer
       ELSE /\ buffer' = IF is_tx THEN Encoded(data_id', host_pos', total_len - actual_len') ELSE buffer
            /\ UNCHANGED <<has_transfer, result, stage>>

NoProgress == UNCHANGED <<has_transfer, result, stage, actual_len, host_pos, data_id, buffer>>

\* A packet has got through; the response is sound.
Taken(len) == pio_usb_ll_transfer_continue(len) /\ failed_count' = 0 /\ UNCHANGED errors

\* A sound response that moves nothing, a NAK or the other toggle: again next frame.
Again == NoProgress /\ failed_count' = 0 /\ UNCHANGED errors

Stalled ==
    /\ Complete("stalled") /\ failed_count' = 0 /\ errors' = TRUE
    /\ UNCHANGED <<actual_len, host_pos, data_id, buffer>>

\* Fault: a response that fails is not counted.
FailedUncounted == NoProgress /\ UNCHANGED <<failed_count, errors>>

\* No response, or an unsound one: the MaxRetry-th in a row fails the transfer.
Failed ==
    /\ failed_count' = failed_count + 1
    /\ IF failed_count' >= MaxRetry
       THEN /\ Complete("error") /\ errors' = TRUE
            /\ UNCHANGED <<actual_len, host_pos, data_id, buffer>>
       ELSE NoProgress /\ UNCHANGED errors

-----------------------------------------------------------------------------
(***************************************************************************)
(* The device: what it sends at an IN token and does with an OUT packet    *)
(***************************************************************************)

\* The token's direction is not that of the request's data: this is the status stage.
StatusToken(in) == kind = "control" /\ in # request.in

\* Packets the device may answer with: the same one until it sees an ACK, an empty one for
\* the status, and never more than it is asked for.
Offered ==
    IF StatusToken(TRUE) THEN {0}
    ELSE IF dev_sent # Unsent THEN {dev_sent}
    ELSE 0..Least(PacketSize, total_len - actual_len)

OfferedToggle == IF StatusToken(TRUE) THEN 1 ELSE dev_toggle

\* After sending a packet of len bytes: the device sees the host's ACK, or does not.
AckSeen(len) ==
    IF StatusToken(TRUE)
    THEN dev_status' = TRUE /\ UNCHANGED <<dev_toggle, dev_pos, dev_sent>>
    ELSE /\ dev_toggle' = Flip(dev_toggle) /\ dev_pos' = Forward(dev_pos, len)
         /\ dev_sent' = Unsent /\ UNCHANGED dev_status
AckMissed(len) ==
    IF StatusToken(TRUE)
    THEN dev_status' = TRUE /\ UNCHANGED <<dev_toggle, dev_pos, dev_sent>>
    ELSE dev_sent' = len /\ UNCHANGED <<dev_toggle, dev_pos, dev_status>>

\* The packet the host sends has arrived; a packet with the other toggle is acknowledged
\* and discarded, being one the device has already.
DeviceReceives ==
    CASE StatusToken(FALSE) /\ buffer.toggle = 1 ->
            dev_status' = TRUE /\ UNCHANGED <<dev_toggle, dev_pos, dev_sent, gap>>
      [] ~StatusToken(FALSE) /\ buffer.toggle = dev_toggle ->
            /\ dev_toggle' = Flip(dev_toggle) /\ dev_pos' = Forward(dev_pos, buffer.len)
            /\ gap' = (gap \/ buffer.pos # dev_pos)
            /\ UNCHANGED <<dev_sent, dev_status>>
      [] OTHER -> UNCHANGED <<device, gap>>

-----------------------------------------------------------------------------
(***************************************************************************)
(* One transaction                                                         *)
(***************************************************************************)

\* A packet of the device arrives out of turn, or the status while data is missing.
OutOfTurn ==
    IF StatusToken(TRUE) THEN dev_pos # request.len % Positions ELSE dev_pos # host_pos

\* A sound data packet is acknowledged; only the one expected is taken.
InData(len) ==
    \/ OfferedToggle = data_id /\ Taken(len) /\ gap' = (gap \/ OutOfTurn)
    \/ OfferedToggle # data_id /\ Again /\ UNCHANGED gap

usb_in_transaction ==
    /\ has_transfer /\ ~is_tx
    /\ \/ /\ ~silent
          /\ \E len \in Offered :
                \/ InData(len) /\ (AckSeen(len) \/ AckMissed(len))
                \/ Failed /\ AckMissed(len) /\ UNCHANGED gap
       \/ ~silent /\ (Again \/ Stalled) /\ UNCHANGED <<device, gap>>
       \/ Failed /\ UNCHANGED <<device, gap>>
    /\ UNCHANGED <<kind, is_tx, total_len, request, silent>>

usb_out_transaction ==
    /\ has_transfer /\ is_tx /\ data_id # USB_PID_SETUP
    /\ \/ ~silent /\ DeviceReceives /\ (Taken(buffer.len) \/ Failed)
       \/ ~silent /\ (Again \/ Stalled) /\ UNCHANGED <<device, gap>>
       \/ Failed /\ UNCHANGED <<device, gap>>
    /\ UNCHANGED <<kind, is_tx, total_len, request, silent>>

\* A device takes every SETUP and starts on the request anew.  Only an ACK is sound.
usb_setup_transaction ==
    /\ has_transfer /\ data_id = USB_PID_SETUP
    /\ \/ /\ ~silent
          /\ dev_toggle' = 1 /\ dev_pos' = 0 /\ dev_sent' = Unsent /\ dev_status' = FALSE
          /\ \/ /\ Complete("complete")
                /\ actual_len' = 8 /\ data_id' = 0 /\ failed_count' = 0
                /\ UNCHANGED <<host_pos, buffer, errors>>
             \/ Failed
       \/ Failed /\ UNCHANGED device
    /\ UNCHANGED <<kind, is_tx, total_len, request, silent, gap>>

FallSilent ==
    /\ silent' = TRUE
    /\ UNCHANGED <<kind, is_tx, data_id, transfer, host_pos, result, stage, request, device, history>>

-----------------------------------------------------------------------------
StartTransfer ==
    \E in \in BOOLEAN, len \in 0..MaxLen :
        \/ (in => len > 0) /\ pio_usb_host_send_setup(in, len)
        \/ pio_usb_host_endpoint_transfer(in, len)

\* The transaction pio_usb_host_frame runs for the endpoint.
Transaction == usb_setup_transaction \/ usb_in_transaction \/ usb_out_transaction

Next == StartTransfer \/ Transaction \/ FallSilent

\* pio_usb_host_frame runs every millisecond, from a timer.
Spec == Init /\ [][Next]_vars /\ WF_vars(Transaction)

-----------------------------------------------------------------------------
(***************************************************************************)
(* Properties                                                              *)
(***************************************************************************)

\* Variables keep their types; a pending transfer still has bytes to go and has not yet failed
\* MaxRetry times.  (actual_len, failed_count)
TypeOK ==
    /\ kind \in {"in", "out", "control"} /\ is_tx \in BOOLEAN
    /\ data_id \in {0, 1, USB_PID_SETUP} /\ (data_id = USB_PID_SETUP => kind = "control" /\ is_tx)
    /\ has_transfer \in BOOLEAN /\ failed_count \in 0..MaxRetry
    /\ (has_transfer => failed_count < MaxRetry)
    /\ total_len \in 0..MaxLen \cup {8}
    /\ actual_len \in 0..total_len /\ (has_transfer /\ total_len > 0 => actual_len < total_len)
    /\ buffer \in [toggle : 0..1, pos : 0..(Positions - 1), len : 0..PacketSize]
    /\ host_pos \in 0..(Positions - 1) /\ result \in {"none", "complete", "stalled", "error"}
    /\ stage \in {"setup", "data", "status"}
    /\ request \in [in : BOOLEAN, len : 0..MaxLen]
    /\ dev_toggle \in 0..1 /\ dev_pos \in 0..(Positions - 1)
    /\ dev_sent \in 0..Unsent /\ dev_status \in BOOLEAN
    /\ silent \in BOOLEAN /\ gap \in BOOLEAN /\ errors \in BOOLEAN

\* No packet is taken twice, skipped or out of turn, whatever is lost on the way: on an IN
\* or a control endpoint ever, on an OUT endpoint until a transfer of it has stalled or failed.
\* (pio_usb_ll_transfer_continue, expect_pid of usb_in_transaction)
NoPacketLostOrRepeated == gap => kind = "out" /\ errors

\* A control request the host has seen through, the device has seen through as well: its
\* status stage was not discarded.  (data_id of pio_usb_host_endpoint_transfer)
RequestAgreed ==
    kind = "control" /\ stage = "setup" /\ result = "complete" => dev_status

\* A transfer to a device that no longer answers ends, and with a failure.
\* (failed_count, TRANSACTION_MAX_RETRY)
SilenceNoticed == silent /\ has_transfer ~> ~has_transfer /\ result = "error"
=============================================================================
