------------------------ MODULE PioUsbTransferProofs ------------------------
(***************************************************************************)
(* Proofs about PioUsbTransfer: the two ends of an endpoint agree on the   *)
(* packet that comes next, for every packet size, transfer length and      *)
(* number of retries, whatever is lost on the bus.                         *)
(*                                                                         *)
(* And about UsbPacket, what those packets are on the wire: for every      *)
(* payload, a packet carries the CRC of the USB specification, fits its    *)
(* buffer encoded, and is taken when it arrives as it was sent.  The two   *)
(* specifications share nothing.                                           *)
(***************************************************************************)
EXTENDS PioUsbTransfer, UsbPacket, SequenceTheorems, WellFoundedInduction, TLAPS

\* The host and the device expect the same packet.
Level == data_id = dev_toggle /\ host_pos = dev_pos

\* The host has taken a packet whose acknowledgement the device has missed.
HostAhead ==
    /\ dev_sent # Unsent
    /\ data_id = Flip(dev_toggle) /\ host_pos = Forward(dev_pos, dev_sent)

\* The device has taken the packet, the host has not seen the acknowledgement.
DeviceAhead ==
    /\ has_transfer
    /\ dev_toggle = Flip(data_id) /\ dev_pos = Forward(host_pos, buffer.len)

\* What the host still waits for; between two transfers, what the next one will ask for.
Room == IF has_transfer THEN total_len - actual_len ELSE MaxLen

InDataStage == kind = "control" /\ stage = "data" /\ has_transfer
Receiving == kind = "in" \/ (InDataStage /\ request.in)
Sending == (kind = "out" /\ ~errors) \/ (InDataStage /\ ~request.in)

\* On an endpoint that receives, a packet sent again is the one expected, and fits what is
\* asked for, or one the host has taken already.
ReceiveInv ==
    Receiving => (Level /\ (dev_sent # Unsent => dev_sent <= Room)) \/ HostAhead

SendInv == Sending => Level \/ DeviceAhead

\* A pending transfer has no result yet.
ResultInv == has_transfer => result = "none"

\* The packet that is encoded is the one data_id and host_pos name.
BufferInv ==
    has_transfer /\ is_tx /\ data_id # USB_PID_SETUP
        => buffer = Encoded(data_id, host_pos, total_len - actual_len)

\* The direction and the toggle an interrupt endpoint goes by.
InterruptInv ==
    kind # "control" => /\ stage = "data" /\ data_id # USB_PID_SETUP
                        /\ is_tx = (kind # "in")
                        /\ (has_transfer /\ kind = "in" => total_len = MaxLen)

\* The stages of a control request: what is transferred in each, and that the device has
\* started on the request anew before its data stage, and has all of its data before its status.
SetupStage == stage = "setup" /\ has_transfer => data_id = USB_PID_SETUP /\ total_len = 8 /\ host_pos = 0
DataStage ==
    stage = "data" =>
        IF has_transfer
        THEN /\ is_tx = ~request.in /\ data_id # USB_PID_SETUP
             /\ total_len = request.len /\ host_pos = actual_len
        ELSE dev_toggle = 1 /\ dev_pos = 0 /\ dev_sent = Unsent /\ host_pos = 0
StatusStage ==
    stage = "status" => /\ has_transfer => is_tx = request.in /\ data_id = 1 /\ total_len = 0
                        /\ ~request.in => dev_pos = request.len
ControlInv == kind = "control" => SetupStage /\ DataStage /\ StatusStage

IInv == /\ TypeOK /\ ResultInv /\ InterruptInv /\ ControlInv /\ BufferInv /\ ReceiveInv /\ SendInv
        /\ NoPacketLostOrRepeated /\ RequestAgreed

-----------------------------------------------------------------------------
(***************************************************************************)
(* Toggles, positions and packets                                          *)
(***************************************************************************)
LEMMA FlipFacts ==
    ASSUME NEW t \in 0..1
    PROVE  Flip(t) \in 0..1 /\ Flip(Flip(t)) = t /\ Flip(t) # t
BY DEF Flip

LEMMA ForwardType ==
    ASSUME NEW pos \in Nat, NEW len \in Nat
    PROVE  Forward(pos, len) \in 0..(Positions - 1)
BY SizeAssumption DEF Forward

\* Within the data of a request positions do not wrap.
LEMMA ForwardShort ==
    ASSUME NEW pos \in Nat, NEW len \in Nat, pos + len < Positions
    PROVE  Forward(pos, len) = pos + len
BY SizeAssumption DEF Forward

LEMMA EncodedType ==
    ASSUME NEW id, NEW pos \in 0..(Positions - 1), NEW left \in Nat
    PROVE  /\ Encoded(id, pos, left) \in [toggle : 0..1, pos : 0..(Positions - 1), len : 0..PacketSize]
           /\ id \in 0..1 => Encoded(id, pos, left).toggle = id
           /\ Encoded(id, pos, left).pos = pos
           /\ Encoded(id, pos, left).len <= left
           /\ Encoded(id, pos, left).len = PacketSize \/ Encoded(id, pos, left).len = left
BY SizeAssumption DEF Encoded, Least

-----------------------------------------------------------------------------
(***************************************************************************)
(* What a transaction comes to: the packet got through, nothing moved, or  *)
(* the transfer is given up                                                *)
(***************************************************************************)
Kept == NoProgress /\ failed_count' \in 0..(MaxRetry - 1) /\ UNCHANGED errors

GivenUp ==
    /\ has_transfer' = FALSE /\ result' \in {"stalled", "error"}
    /\ stage' = IF kind = "control" THEN "setup" ELSE stage
    /\ failed_count' \in 0..MaxRetry /\ errors' = TRUE
    /\ UNCHANGED <<actual_len, host_pos, data_id, buffer>>

LEMMA FailedOutcome == ASSUME TypeOK, has_transfer, Failed PROVE Kept \/ GivenUp
<1>1. failed_count \in Nat /\ failed_count < MaxRetry /\ MaxRetry \in Nat
  BY SizeAssumption DEF TypeOK
<1>2. CASE failed_count' >= MaxRetry
  BY <1>1, <1>2 DEF Failed, GivenUp, Complete
<1>3. CASE ~(failed_count' >= MaxRetry)
  BY <1>1, <1>3 DEF Failed, Kept
<1> QED BY <1>2, <1>3

LEMMA OtherOutcome == ASSUME TypeOK, Again \/ Stalled PROVE Kept \/ GivenUp
BY SizeAssumption DEF TypeOK, Again, Stalled, Kept, GivenUp, Complete

\* A packet of the transfer has got through, and the transfer is over or goes on.
LEMMA TakenOutcome ==
    ASSUME TypeOK, has_transfer, data_id # USB_PID_SETUP,
           NEW len \in 0..PacketSize, len <= total_len - actual_len, Taken(len)
    PROVE  /\ failed_count' = 0 /\ errors' = errors
           /\ data_id' = Flip(data_id) /\ data_id' \in 0..1
           /\ host_pos' = Forward(host_pos, len) /\ host_pos' \in 0..(Positions - 1)
           /\ actual_len' = actual_len + len /\ actual_len' \in 0..total_len
           /\ \/ /\ has_transfer' = FALSE /\ result' = "complete"
                 /\ stage' = IF kind # "control" THEN stage
                             ELSE IF stage = "setup" THEN IF request.len > 0 THEN "data" ELSE "status"
                             ELSE IF stage = "data" THEN "status" ELSE "setup"
                 /\ len < PacketSize \/ actual_len' = total_len
                 /\ buffer' = buffer
              \/ /\ has_transfer' = TRUE /\ UNCHANGED <<result, stage>>
                 /\ len = PacketSize /\ actual_len' < total_len
                 /\ buffer' = IF is_tx THEN Encoded(data_id', host_pos', total_len - actual_len') ELSE buffer
<1>1. /\ actual_len \in Nat /\ total_len \in Nat /\ len \in Nat /\ PacketSize \in Nat
      /\ host_pos \in Nat /\ data_id \in 0..1 /\ has_transfer \in BOOLEAN
  BY SizeAssumption DEF TypeOK
<1>2. failed_count' = 0 /\ errors' = errors /\ pio_usb_ll_transfer_continue(len)
  BY DEF Taken
<1>3. data_id' = Flip(data_id) /\ data_id' \in 0..1
  BY <1>1, <1>2, FlipFacts DEF pio_usb_ll_transfer_continue
<1>4. host_pos' = Forward(host_pos, len) /\ host_pos' \in 0..(Positions - 1)
  BY <1>1, <1>2, ForwardType DEF pio_usb_ll_transfer_continue
<1>5. actual_len' = actual_len + len /\ actual_len' \in 0..total_len
  BY <1>1, <1>2 DEF pio_usb_ll_transfer_continue
<1>6. CASE len < PacketSize \/ actual_len' >= total_len
  <2>1. Complete("complete") /\ UNCHANGED buffer
    BY <1>2, <1>6 DEF pio_usb_ll_transfer_continue
  <2>2. len < PacketSize \/ actual_len' = total_len
    BY <1>1, <1>5, <1>6
  <2>3. stage' = IF kind # "control" THEN stage
                 ELSE IF stage = "setup" THEN IF request.len > 0 THEN "data" ELSE "status"
                 ELSE IF stage = "data" THEN "status" ELSE "setup"
    BY <2>1 DEF Complete, TypeOK
  <2> QED BY <1>2, <1>3, <1>4, <1>5, <2>1, <2>2, <2>3 DEF Complete
<1>7. CASE ~(len < PacketSize \/ actual_len' >= total_len)
  <2>1. len = PacketSize /\ actual_len' < total_len
    BY <1>1, <1>5, <1>7
  <2>2. /\ UNCHANGED <<has_transfer, result, stage>>
        /\ buffer' = IF is_tx THEN Encoded(data_id', host_pos', total_len - actual_len') ELSE buffer
    BY <1>2, <1>7 DEF pio_usb_ll_transfer_continue
  <2> QED BY <1>1, <1>2, <1>3, <1>4, <1>5, <2>1, <2>2
<1> QED BY <1>6, <1>7

-----------------------------------------------------------------------------
(***************************************************************************)
(* Starting a transfer                                                     *)
(***************************************************************************)
LEMMA InvInit == Init => IInv
<1> SUFFICES ASSUME Init PROVE IInv OBVIOUS
<1> USE SizeAssumption DEF Init
<1>1. TypeOK
  <2>1. /\ kind \in {"in", "out", "control"} /\ is_tx \in BOOLEAN /\ stage \in {"setup", "data", "status"}
        /\ request \in [in : BOOLEAN, len : 0..MaxLen]
        /\ buffer \in [toggle : 0..1, pos : 0..(Positions - 1), len : 0..PacketSize]
    OBVIOUS
  <2>2. dev_sent \in 0..Unsent BY DEF Unsent
  <2>3. /\ data_id \in {0, 1, USB_PID_SETUP} /\ data_id # USB_PID_SETUP
        /\ host_pos \in 0..(Positions - 1) /\ dev_pos \in 0..(Positions - 1)
        /\ total_len \in 0..MaxLen \cup {8} /\ actual_len \in 0..total_len /\ failed_count \in 0..MaxRetry
    BY DEF USB_PID_SETUP
  <2> QED BY <2>1, <2>2, <2>3 DEF TypeOK
<1>2. InterruptInv /\ BufferInv BY DEF InterruptInv, BufferInv, USB_PID_SETUP
<1>3. ControlInv BY DEF ControlInv, SetupStage, DataStage, StatusStage
<1>4. ReceiveInv /\ SendInv BY DEF ReceiveInv, SendInv, Receiving, Sending, InDataStage, Level
<1>5. NoPacketLostOrRepeated /\ RequestAgreed /\ ResultInv
  BY DEF NoPacketLostOrRepeated, RequestAgreed, ResultInv
<1> QED BY <1>1, <1>2, <1>3, <1>4, <1>5 DEF IInv

LEMMA InvSetup ==
    ASSUME IInv, NEW in \in BOOLEAN, NEW len \in 0..MaxLen, pio_usb_host_send_setup(in, len)
    PROVE  IInv'
<1> USE DEF IInv, pio_usb_host_send_setup, pio_usb_ll_transfer_start, device, history
<1>1. /\ kind' = "control" /\ stage' = "setup" /\ result' = "none" /\ has_transfer' = TRUE
      /\ data_id' = USB_PID_SETUP /\ is_tx' = TRUE /\ total_len' = 8 /\ actual_len' = 0
      /\ host_pos' = 0 /\ request' = [in |-> in, len |-> len] /\ gap' = gap
  OBVIOUS
<1>2. buffer' = Encoded(USB_PID_SETUP, 0, 8) BY <1>1
<1>3. buffer' \in [toggle : 0..1, pos : 0..(Positions - 1), len : 0..PacketSize]
  BY <1>2, EncodedType, SizeAssumption
<1>4. TypeOK' BY <1>1, <1>3, SizeAssumption DEF TypeOK, USB_PID_SETUP
<1>5. ControlInv' BY <1>1 DEF ControlInv, SetupStage, DataStage, StatusStage
<1>6. InterruptInv' /\ BufferInv' BY <1>1 DEF InterruptInv, BufferInv
<1>7. ReceiveInv' /\ SendInv' BY <1>1 DEF ReceiveInv, SendInv, Receiving, Sending, InDataStage
<1>8. NoPacketLostOrRepeated' /\ RequestAgreed' /\ ResultInv' BY <1>1 DEF NoPacketLostOrRepeated, RequestAgreed, ResultInv
<1> QED BY <1>4, <1>5, <1>6, <1>7, <1>8

LEMMA InvStart ==
    ASSUME IInv, NEW in \in BOOLEAN, NEW len \in 0..MaxLen, pio_usb_host_endpoint_transfer(in, len)
    PROVE  IInv'
<1> USE DEF IInv
<1>1. /\ Asked(in, len) /\ ~has_transfer /\ has_transfer' = TRUE /\ failed_count' = 0
      /\ is_tx' = ~in /\ data_id' = (IF kind = "control" THEN 1 ELSE data_id)
      /\ total_len' = len /\ actual_len' = 0 /\ result' = "none"
      /\ buffer' = IF is_tx' THEN Encoded(data_id', host_pos', len) ELSE buffer
      /\ UNCHANGED <<kind, stage, host_pos, request, gap, errors, silent>>
      /\ UNCHANGED <<dev_toggle, dev_pos, dev_sent, dev_status>>
  BY DEF pio_usb_host_endpoint_transfer, pio_usb_ll_transfer_start, device, history
<1>2. /\ kind = "in" => in /\ len = MaxLen
      /\ kind = "out" => ~in
      /\ kind = "control" => \/ stage = "data" /\ in = request.in /\ len = request.len
                             \/ stage = "status" /\ in = ~request.in /\ len = 0
  <2>1. CASE kind = "in" BY <1>1, <2>1 DEF Asked
  <2>2. CASE kind = "out" BY <1>1, <2>2 DEF Asked
  <2>3. CASE kind = "control" BY <1>1, <2>3 DEF Asked
  <2> QED BY <2>1, <2>2, <2>3 DEF TypeOK
<1>3. data_id' \in 0..1
  BY <1>1 DEF InterruptInv, TypeOK
<1>4. buffer' \in [toggle : 0..1, pos : 0..(Positions - 1), len : 0..PacketSize]
  BY <1>1, EncodedType DEF TypeOK
<1>5. TypeOK'
  BY <1>1, <1>3, <1>4, SizeAssumption DEF TypeOK, USB_PID_SETUP
<1>6. InterruptInv'
  BY <1>1, <1>2 DEF InterruptInv, TypeOK
<1>7. BufferInv'
  BY <1>1 DEF BufferInv, TypeOK
<1>8. ControlInv'
  BY <1>1, <1>2, <1>3, SizeAssumption DEF ControlInv, SetupStage, DataStage, StatusStage, USB_PID_SETUP, TypeOK
<1>9. ReceiveInv'
  <2>1. CASE kind = "in"
    BY <1>1, <1>2, <2>1 DEF ReceiveInv, Receiving, Level, HostAhead, Room
  <2>2. CASE kind = "control" /\ stage = "data"
    BY <1>1, <1>2, <2>2 DEF ReceiveInv, ControlInv, DataStage, Level
  <2> QED BY <1>1, <2>1, <2>2 DEF ReceiveInv, Receiving, InDataStage
<1>10. SendInv'
  <2>1. CASE kind = "out"
    BY <1>1, <1>2, <2>1 DEF SendInv, Sending, InDataStage, Level, DeviceAhead
  <2>2. CASE kind = "control" /\ stage = "data"
    BY <1>1, <1>2, <2>2 DEF SendInv, ControlInv, DataStage, Level
  <2> QED BY <1>1, <2>1, <2>2 DEF SendInv, Sending, InDataStage
<1>11. NoPacketLostOrRepeated' /\ RequestAgreed' /\ ResultInv'
  BY <1>1 DEF NoPacketLostOrRepeated, RequestAgreed, ResultInv
<1> QED BY <1>5, <1>6, <1>7, <1>8, <1>9, <1>10, <1>11

-----------------------------------------------------------------------------
(***************************************************************************)
(* Transactions                                                            *)
(***************************************************************************)
DeviceTypes ==
    /\ dev_toggle \in 0..1 /\ dev_pos \in 0..(Positions - 1)
    /\ dev_sent \in 0..Unsent /\ dev_status \in BOOLEAN

\* What no transaction changes.
Frame == UNCHANGED <<kind, is_tx, total_len, request, silent>>

\* A transfer given up says nothing of its packets any more, whatever became of the last one,
\* but on an IN endpoint, where the next transfer goes on with the same stream.
LEMMA InvGivenUp ==
    ASSUME IInv, has_transfer, GivenUp, Frame, DeviceTypes', gap' \in BOOLEAN,
           gap' => gap \/ kind = "out", ReceiveInv'
    PROVE  IInv'
<1> USE DEF IInv, GivenUp, Frame
<1>1. TypeOK'
  <2>1. actual_len' \in 0..total_len' BY DEF TypeOK
  <2> QED BY <2>1 DEF TypeOK, DeviceTypes
<1>2. InterruptInv' BY DEF InterruptInv
<1>3. ControlInv' BY DEF ControlInv, SetupStage, DataStage, StatusStage
<1>4. BufferInv' BY DEF BufferInv
<1>5. SendInv' BY DEF SendInv, Sending, InDataStage
<1>6. NoPacketLostOrRepeated' BY DEF NoPacketLostOrRepeated
<1>7. RequestAgreed' /\ ResultInv' BY DEF RequestAgreed, ResultInv
<1> QED BY <1>1, <1>2, <1>3, <1>4, <1>5, <1>6, <1>7

LEMMA InvKept ==
    ASSUME IInv, has_transfer, Kept, Frame, DeviceTypes', gap' \in BOOLEAN,
           NoPacketLostOrRepeated', ReceiveInv', SendInv',
           stage = "status" => UNCHANGED dev_pos
    PROVE  IInv'
<1> USE DEF IInv, Kept, NoProgress, Frame
<1>1. TypeOK'
  <2>1. failed_count' \in 0..MaxRetry /\ failed_count' < MaxRetry BY SizeAssumption
  <2> QED BY <2>1 DEF TypeOK, DeviceTypes
<1>2. InterruptInv' BY DEF InterruptInv
<1>3. ControlInv'
  <2> SUFFICES ASSUME kind = "control" PROVE (SetupStage /\ DataStage /\ StatusStage)'
    BY DEF ControlInv
  <2>1. SetupStage /\ DataStage /\ StatusStage BY DEF ControlInv
  <2>2. SetupStage' BY <2>1 DEF SetupStage
  <2>3. DataStage' BY <2>1 DEF DataStage
  <2>4. StatusStage' BY <2>1 DEF StatusStage
  <2> QED BY <2>2, <2>3, <2>4
<1>4. BufferInv' BY DEF BufferInv
<1>5. RequestAgreed'
  BY DEF RequestAgreed, ResultInv
<1>6. ResultInv' BY DEF ResultInv
<1> QED BY <1>1, <1>2, <1>3, <1>4, <1>5, <1>6


\* A device starts on a control request with an empty stream of its own.
LEMMA DeviceStarts ==
    ASSUME dev_toggle' = 1, dev_pos' = 0, dev_sent' = Unsent, dev_status' = FALSE
    PROVE  DeviceTypes'
<1>1. dev_toggle' \in 0..1 /\ dev_pos' \in 0..(Positions - 1) BY SizeAssumption
<1>2. dev_sent' \in 0..Unsent BY SizeAssumption DEF Unsent
<1> QED BY <1>1, <1>2 DEF DeviceTypes

\* A SETUP is the first of a request: both ends start anew, or the transfer goes on waiting.
LEMMA InvSetupTransaction == ASSUME IInv, usb_setup_transaction PROVE IInv'
<1> USE DEF IInv
<1>1. /\ has_transfer /\ data_id = USB_PID_SETUP /\ Frame /\ gap' = gap
  BY DEF usb_setup_transaction, Frame
<1>2. kind = "control" /\ is_tx /\ stage = "setup" /\ total_len = 8
  <2>1. kind = "control" /\ is_tx BY <1>1 DEF TypeOK
  <2>2. stage = "setup"
    BY <1>1, <2>1 DEF ControlInv, DataStage, StatusStage, TypeOK, USB_PID_SETUP
  <2> QED BY <1>1, <2>1, <2>2 DEF ControlInv, SetupStage
<1>3. CASE /\ Complete("complete")
           /\ actual_len' = 8 /\ data_id' = 0 /\ failed_count' = 0
           /\ UNCHANGED <<host_pos, buffer, errors>>
           /\ dev_toggle' = 1 /\ dev_pos' = 0 /\ dev_sent' = Unsent /\ dev_status' = FALSE
  <2>1. has_transfer' = FALSE /\ result' = "complete"
    BY <1>3 DEF Complete
  <2>2. stage' = IF request.len > 0 THEN "data" ELSE "status"
    BY <1>2, <1>3 DEF Complete
  <2>3. DeviceTypes' BY <1>3, DeviceStarts
  <2>4. stage' \in {"data", "status"} /\ request' = request BY <1>1, <2>2 DEF Frame
  <2>5. TypeOK'
    <3>1. data_id' \in {0, 1, USB_PID_SETUP} /\ data_id' # USB_PID_SETUP
      BY <1>3 DEF USB_PID_SETUP
    <3>2. failed_count' \in 0..MaxRetry /\ actual_len' \in 0..total_len'
      BY <1>1, <1>2, <1>3, SizeAssumption DEF Frame
    <3> QED BY <1>1, <1>3, <2>1, <2>3, <2>4, <3>1, <3>2 DEF TypeOK, DeviceTypes, Frame
  <2>6. host_pos = 0
    BY <1>1, <1>2 DEF ControlInv, SetupStage
  <2>7. ControlInv'
    BY <1>1, <1>3, <2>1, <2>2, <2>6 DEF ControlInv, SetupStage, DataStage, StatusStage, Frame, TypeOK
  <2>8. ResultInv' /\ InterruptInv' /\ BufferInv'
    BY <1>1, <1>2, <2>1 DEF ResultInv, InterruptInv, BufferInv, Frame
  <2>9. ReceiveInv' /\ SendInv'
    BY <1>1, <1>2, <2>1 DEF ReceiveInv, SendInv, Receiving, Sending, InDataStage, Frame
  <2>10. NoPacketLostOrRepeated' /\ RequestAgreed'
    BY <1>1, <1>2, <1>3, <2>4 DEF NoPacketLostOrRepeated, RequestAgreed, Frame
  <2> QED BY <2>5, <2>7, <2>8, <2>9, <2>10
<1>4. CASE /\ Failed
           /\ \/ dev_toggle' = 1 /\ dev_pos' = 0 /\ dev_sent' = Unsent /\ dev_status' = FALSE
              \/ UNCHANGED device
  <2>1. DeviceTypes'
    <3>1. CASE UNCHANGED device BY <3>1 DEF DeviceTypes, TypeOK, device
    <3> QED BY <1>4, <3>1, DeviceStarts
  <2>2. gap' \in BOOLEAN BY <1>1 DEF TypeOK
  <2>3. ~InDataStage' /\ ReceiveInv' /\ SendInv'
    <3>1. kind' = "control" /\ stage' = "setup"
      BY <1>1, <1>2, <1>4, FailedOutcome DEF Kept, NoProgress, GivenUp, Frame
    <3> QED BY <3>1 DEF ReceiveInv, SendInv, Receiving, Sending, InDataStage
  <2>4. NoPacketLostOrRepeated'
    BY <1>1, <1>2 DEF NoPacketLostOrRepeated, Frame
  <2>5. CASE Kept BY <1>1, <1>2, <2>1, <2>2, <2>3, <2>4, <2>5, InvKept
  <2>6. CASE GivenUp BY <1>1, <2>1, <2>2, <2>3, <2>6, InvGivenUp
  <2> QED BY <1>1, <1>4, <2>5, <2>6, FailedOutcome
<1> QED BY <1>1, <1>3, <1>4 DEF usb_setup_transaction


\* An IN transaction belongs to an IN endpoint or to the data or status stage of a request.
LEMMA InTransactionStage ==
    ASSUME IInv, has_transfer, ~is_tx
    PROVE  /\ data_id \in 0..1 /\ data_id # USB_PID_SETUP
           /\ \/ Receiving /\ ~StatusToken(TRUE) /\ stage # "status"
              \/ /\ kind = "control" /\ stage = "status" /\ StatusToken(TRUE)
                 /\ ~request.in /\ data_id = 1 /\ total_len = 0
<1> USE DEF IInv
<1>1. data_id \in 0..1 /\ data_id # USB_PID_SETUP BY DEF TypeOK, USB_PID_SETUP
<1>2. CASE kind # "control"
  BY <1>1, <1>2 DEF InterruptInv, TypeOK, Receiving, StatusToken
<1>3. CASE kind = "control"
  <2>1. SetupStage /\ DataStage /\ StatusStage BY <1>3 DEF ControlInv
  <2>2. request.in \in BOOLEAN BY DEF TypeOK
  <2>3. stage \in {"data", "status"} BY <1>1, <2>1 DEF SetupStage, TypeOK
  <2>4. CASE stage = "data"
    BY <1>1, <1>3, <2>1, <2>2, <2>4 DEF DataStage, Receiving, InDataStage, StatusToken
  <2>5. CASE stage = "status"
    BY <1>1, <1>3, <2>1, <2>2, <2>5 DEF StatusStage, StatusToken
  <2> QED BY <2>3, <2>4, <2>5
<1> QED BY <1>2, <1>3

LEMMA AckMoves ==
    ASSUME IInv, NEW len \in 0..PacketSize, AckSeen(len) \/ AckMissed(len)
    PROVE  DeviceTypes'
<1> USE DEF IInv
<1>1. len \in 0..Unsent /\ Unsent \in 0..Unsent BY SizeAssumption DEF Unsent
<1>2. Flip(dev_toggle) \in 0..1 BY FlipFacts DEF TypeOK
<1>3. Forward(dev_pos, len) \in 0..(Positions - 1) BY ForwardType DEF TypeOK
<1> QED BY <1>1, <1>2, <1>3 DEF AckSeen, AckMissed, DeviceTypes, TypeOK

\* What the device may send of its stream is no more than there is room for, and no more than
\* a packet; a packet it sends again has been taken, or is still expected and fits.
LEMMA OfferFits ==
    ASSUME IInv, has_transfer, Receiving, ~StatusToken(TRUE), NEW len \in Offered
    PROVE  /\ len \in 0..PacketSize
           /\ OfferedToggle = dev_toggle
           /\ (OfferedToggle = data_id => Level /\ len <= total_len - actual_len)
           /\ \/ dev_sent = len /\ dev_sent # Unsent
              \/ dev_sent = Unsent /\ Level /\ len <= total_len - actual_len
<1> USE DEF IInv
<1>1. OfferedToggle = dev_toggle BY DEF OfferedToggle
<1>2. Room = total_len - actual_len /\ Room \in Nat BY DEF Room, TypeOK
<1>3. dev_toggle \in 0..1 /\ PacketSize \in Nat BY SizeAssumption DEF TypeOK
<1>4. HostAhead => data_id # dev_toggle BY <1>3, FlipFacts DEF HostAhead
<1>5. CASE dev_sent # Unsent
  <2>1. len = dev_sent BY <1>5 DEF Offered
  <2>2. dev_sent \in 0..PacketSize BY <1>3, <1>5 DEF TypeOK, Unsent
  <2> QED BY <1>1, <1>2, <1>4, <1>5, <2>1, <2>2 DEF ReceiveInv
<1>6. CASE dev_sent = Unsent
  <2>1. len \in 0..Least(PacketSize, total_len - actual_len) BY <1>6 DEF Offered
  <2>2. len \in 0..PacketSize /\ len <= total_len - actual_len
    BY <1>2, <1>3, <2>1 DEF Least
  <2>3. Level BY <1>6 DEF ReceiveInv, HostAhead
  <2> QED BY <1>1, <1>6, <2>2, <2>3
<1> QED BY <1>5, <1>6

\* After an unacknowledged packet that the host has not taken, or has discarded, the two ends
\* stand as before.
LEMMA ReceiveAgain ==
    ASSUME IInv, has_transfer, Receiving, ~StatusToken(TRUE), NEW len \in Offered,
           AckMissed(len), UNCHANGED <<data_id, host_pos>>, MaxLen >= total_len - actual_len,
           Room' \in {total_len - actual_len, MaxLen}
    PROVE  ReceiveInv'
<1> USE DEF IInv
<1>1. dev_sent' = len /\ UNCHANGED <<dev_toggle, dev_pos>>
  BY DEF AckMissed
<1>2. len \in 0..PacketSize /\ len # Unsent
  BY OfferFits, SizeAssumption DEF Unsent
<1>3. total_len - actual_len \in Nat /\ total_len - actual_len <= Room'
  BY DEF TypeOK
<1>4. CASE dev_sent = len /\ dev_sent # Unsent
  <2>1. Level => dev_sent <= total_len - actual_len
    BY <1>4, OfferFits DEF Level
  <2>2. HostAhead => HostAhead' BY <1>1, <1>4 DEF HostAhead, Unsent
  <2>3. Level => Level' BY <1>1 DEF Level
  <2>4. Level \/ HostAhead BY DEF ReceiveInv
  <2>5. Level => dev_sent' <= Room'
    BY <1>1, <1>2, <1>3, <1>4, <2>1, SizeAssumption
  <2> QED BY <2>2, <2>3, <2>4, <2>5 DEF ReceiveInv
<1>5. CASE dev_sent = Unsent /\ Level /\ len <= total_len - actual_len
  <2>1. Level' BY <1>1, <1>5 DEF Level
  <2>2. dev_sent' <= Room' BY <1>1, <1>2, <1>3, <1>5, SizeAssumption
  <2> QED BY <2>1, <2>2 DEF ReceiveInv
<1> QED BY <1>4, <1>5, OfferFits


LEMMA RoomBound ==
    ASSUME IInv, has_transfer, Receiving, ~StatusToken(TRUE)
    PROVE  MaxLen >= total_len - actual_len
<1> USE DEF IInv
<1>1. total_len \in 0..MaxLen
  <2>1. CASE kind = "in"
    BY <2>1, SizeAssumption DEF InterruptInv
  <2>2. CASE InDataStage
    <3>1. total_len = request.len BY <2>2 DEF InDataStage, ControlInv, DataStage
    <3> QED BY <3>1 DEF TypeOK
  <2> QED BY <2>1, <2>2 DEF Receiving
<1> QED BY <1>1, SizeAssumption DEF TypeOK

\* A transaction that comes to nothing or ends the transfer, with the device still expecting
\* what it expected.
LEMMA InvNotTaken ==
    ASSUME IInv, has_transfer, Kept \/ GivenUp, Frame, DeviceTypes', gap' = gap,
           ReceiveInv', Kept => SendInv', stage = "status" => UNCHANGED dev_pos
    PROVE  IInv'
<1>1. gap' \in BOOLEAN BY DEF IInv, TypeOK
<1>2. CASE Kept
  <2>1. NoPacketLostOrRepeated'
    BY <1>2 DEF IInv, NoPacketLostOrRepeated, Kept, Frame
  <2> QED BY <1>1, <1>2, <2>1, InvKept
<1>3. CASE GivenUp BY <1>1, <1>3, InvGivenUp
<1> QED BY <1>2, <1>3

\* The device and the positions stand still.
LEMMA InvStill ==
    ASSUME IInv, has_transfer, Kept \/ GivenUp, Frame, UNCHANGED <<device, gap>>
    PROVE  IInv'
<1> USE DEF IInv
<1>1. UNCHANGED <<dev_toggle, dev_pos, dev_sent, dev_status, kind, total_len, request, data_id, host_pos, actual_len, buffer>>
  BY DEF device, Frame, Kept, NoProgress, GivenUp
<1>2. DeviceTypes' BY <1>1 DEF DeviceTypes, TypeOK
<1>3. ReceiveInv'
  <2>1. Receiving' => Receiving
    BY <1>1 DEF Receiving, InDataStage, Kept, NoProgress, GivenUp
  <2>2. HostAhead => HostAhead' BY <1>1 DEF HostAhead, Unsent
  <2>3. Level => Level' BY <1>1 DEF Level
  <2>4. ASSUME Receiving', Level, dev_sent # Unsent, dev_sent <= Room PROVE dev_sent' <= Room'
    <3>1. CASE Kept BY <1>1, <2>4, <3>1 DEF Room, Kept, NoProgress
    <3>2. CASE GivenUp
      <4>1. kind = "in" BY <1>1, <2>4, <3>2 DEF Receiving, InDataStage, GivenUp
      <4>2. ~StatusToken(TRUE) /\ Receiving BY <4>1 DEF StatusToken, Receiving
      <4>3. MaxLen >= total_len - actual_len BY <4>2, RoomBound
      <4>4. Room' = MaxLen /\ Room = total_len - actual_len BY <3>2 DEF Room, GivenUp
      <4> QED BY <1>1, <2>4, <4>3, <4>4, SizeAssumption DEF TypeOK, Unsent
    <3> QED BY <3>1, <3>2
  <2> QED BY <1>1, <2>1, <2>2, <2>3, <2>4 DEF ReceiveInv
<1>4. ASSUME Kept PROVE SendInv'
  BY <1>1, <1>4 DEF SendInv, Sending, InDataStage, Level, DeviceAhead, Kept, NoProgress
<1> QED BY <1>1, <1>2, <1>3, <1>4, InvNotTaken


LEMMA InvInTaken ==
    ASSUME IInv, has_transfer, ~is_tx, ~silent, Receiving, ~StatusToken(TRUE), stage # "status",
           Frame, NEW len \in Offered, OfferedToggle = data_id, Taken(len),
           gap' = (gap \/ OutOfTurn), AckSeen(len) \/ AckMissed(len)
    PROVE  IInv'
<1> USE DEF IInv, Frame
<1>1. data_id \in 0..1 /\ data_id # USB_PID_SETUP BY InTransactionStage
<1>2. len \in 0..PacketSize /\ Level /\ len <= total_len - actual_len BY <1>1, OfferFits
<1>3. gap' = gap BY <1>2 DEF OutOfTurn, Level, TypeOK
<1>4. DeviceTypes' BY <1>2, AckMoves
<1> DEFINE Over == /\ has_transfer' = FALSE /\ result' = "complete"
                   /\ stage' = IF kind = "control" THEN "status" ELSE stage
           GoesOn == /\ has_transfer' = TRUE /\ UNCHANGED <<result, stage>>
                     /\ actual_len' < total_len
<1>5. /\ failed_count' = 0 /\ errors' = errors
      /\ data_id' = Flip(data_id) /\ data_id' \in 0..1
      /\ host_pos' = Forward(host_pos, len) /\ host_pos' \in 0..(Positions - 1)
      /\ actual_len' = actual_len + len /\ actual_len' \in 0..total_len
      /\ buffer' = buffer
      /\ Over \/ GoesOn
  <2>1. kind = "control" => stage = "data" BY DEF Receiving, InDataStage
  <2>2. /\ failed_count' = 0 /\ errors' = errors
        /\ data_id' = Flip(data_id) /\ data_id' \in 0..1
        /\ host_pos' = Forward(host_pos, len) /\ host_pos' \in 0..(Positions - 1)
        /\ actual_len' = actual_len + len /\ actual_len' \in 0..total_len
    BY <1>1, <1>2, TakenOutcome
  <2>3. buffer' = buffer /\ (Over \/ GoesOn)
    BY <1>1, <1>2, <2>1, TakenOutcome
  <2> QED BY <2>2, <2>3
<1> HIDE DEF Over, GoesOn
<1>6. TypeOK'
  <2>1. data_id' \in {0, 1, USB_PID_SETUP} /\ data_id' # USB_PID_SETUP
    BY <1>5 DEF USB_PID_SETUP
  <2>2. failed_count' \in 0..MaxRetry /\ failed_count' < MaxRetry BY <1>5, SizeAssumption
  <2>3. /\ has_transfer' \in BOOLEAN /\ result' \in {"none", "complete", "stalled", "error"}
        /\ stage' \in {"setup", "data", "status"}
        /\ has_transfer' /\ total_len > 0 => actual_len' < total_len
    BY <1>5 DEF Over, GoesOn, TypeOK
  <2> QED BY <1>3, <1>4, <1>5, <2>1, <2>2, <2>3 DEF TypeOK, DeviceTypes
<1>7. InterruptInv' /\ ResultInv'
  <2>1. data_id' # USB_PID_SETUP BY <1>5 DEF USB_PID_SETUP
  <2> QED BY <1>5, <2>1 DEF InterruptInv, ResultInv, Over, GoesOn
<1>8. BufferInv' BY DEF BufferInv
<1>9. ControlInv'
  <2> SUFFICES ASSUME kind = "control" PROVE (SetupStage /\ DataStage /\ StatusStage)'
    BY DEF ControlInv
  <2>1. InDataStage /\ request.in BY DEF Receiving
  <2>2. /\ is_tx = ~request.in /\ total_len = request.len /\ host_pos = actual_len
    BY <2>1 DEF ControlInv, DataStage, InDataStage
  <2>3. host_pos' = actual_len'
    <3>1. host_pos + len < Positions
      BY <1>2, <2>2, SizeAssumption DEF TypeOK
    <3> QED BY <1>2, <1>5, <2>2, <3>1, ForwardShort DEF TypeOK
  <2>4. data_id' # USB_PID_SETUP BY <1>5 DEF USB_PID_SETUP
  <2>5. CASE Over BY <2>1, <2>5 DEF Over, SetupStage, DataStage, StatusStage
  <2>6. CASE GoesOn
    BY <2>1, <2>2, <2>3, <2>4, <2>6 DEF GoesOn, SetupStage, DataStage, StatusStage, InDataStage
  <2> QED BY <1>5, <2>5, <2>6
<1>10. ReceiveInv'
  <2>1. CASE AckSeen(len)
    BY <1>2, <1>5, <2>1 DEF AckSeen, Level, ReceiveInv
  <2>2. CASE AckMissed(len)
    <3>1. len # Unsent BY <1>2, SizeAssumption DEF Unsent
    <3> QED BY <1>2, <1>5, <2>2, <3>1 DEF AckMissed, Level, HostAhead, ReceiveInv, Unsent
  <2> QED BY <2>1, <2>2
<1>11. SendInv'
  BY <1>5 DEF SendInv, Sending, InDataStage, Receiving, Over, GoesOn
<1>12. NoPacketLostOrRepeated' /\ RequestAgreed'
  BY <1>3, <1>5 DEF NoPacketLostOrRepeated, RequestAgreed, Receiving, InDataStage, Over, GoesOn
<1> QED BY <1>6, <1>7, <1>8, <1>9, <1>10, <1>11, <1>12

\* The status of a request that sent its data: the device has all of it, and is done with the
\* request whether or not it sees the acknowledgement.
LEMMA InvInStatus ==
    ASSUME IInv, has_transfer, ~is_tx, kind = "control", stage = "status", StatusToken(TRUE),
           ~request.in, data_id = 1, total_len = 0, Frame,
           NEW len \in Offered, AckSeen(len) \/ AckMissed(len),
           \/ InData(len)
           \/ Failed /\ UNCHANGED gap
    PROVE  IInv'
<1> USE DEF IInv, Frame
<1>1. len = 0 /\ OfferedToggle = 1 BY DEF Offered, OfferedToggle
<1>2. dev_status' = TRUE /\ UNCHANGED <<dev_toggle, dev_pos, dev_sent>> BY DEF AckSeen, AckMissed
<1>3. DeviceTypes' BY <1>2 DEF DeviceTypes, TypeOK
<1>4. ~Receiving' /\ ~Sending'
  <2>1. stage' # "data"
    <3>1. CASE Taken(len) BY <3>1 DEF Taken, pio_usb_ll_transfer_continue, Complete
    <3>2. CASE Again BY <3>2 DEF Again, NoProgress
    <3>3. CASE Failed BY <3>3, FailedOutcome DEF Kept, GivenUp, NoProgress
    <3> QED BY <3>1, <3>2, <3>3 DEF InData
  <2> QED BY <2>1 DEF Receiving, Sending, InDataStage
<1>5. CASE Taken(len) /\ gap' = (gap \/ OutOfTurn)
  <2>1. actual_len = 0 /\ len \in 0..PacketSize /\ len <= total_len - actual_len
    BY <1>1, SizeAssumption DEF TypeOK
  <2>2. data_id # USB_PID_SETUP BY DEF USB_PID_SETUP
  <2>3. /\ failed_count' = 0 /\ errors' = errors
        /\ data_id' \in 0..1
        /\ host_pos' \in 0..(Positions - 1)
        /\ actual_len' = actual_len + len /\ actual_len' \in 0..total_len
    BY <1>5, <2>1, <2>2, TakenOutcome
  <2>4. has_transfer' = FALSE /\ result' = "complete" /\ stage' = "setup" /\ buffer' = buffer
    <3>1. ~(len = PacketSize) BY <1>1, SizeAssumption
    <3>2. Taken(len) BY <1>5
    <3> QED BY <2>1, <2>2, <3>1, <3>2, TakenOutcome
  <2>5. gap' = gap
    <3>1. dev_pos = request.len BY DEF ControlInv, StatusStage
    <3>2. request.len \in 0..MaxLen BY DEF TypeOK
    <3>3. request.len % Positions = request.len BY <3>2, SizeAssumption
    <3> QED BY <1>5, <3>1, <3>3 DEF OutOfTurn, TypeOK
  <2>6. TypeOK'
    <3>1. data_id' \in {0, 1, USB_PID_SETUP} /\ data_id' # USB_PID_SETUP
      BY <2>3 DEF USB_PID_SETUP
    <3>2. failed_count' \in 0..MaxRetry BY <2>3, SizeAssumption
    <3> QED BY <1>3, <2>3, <2>4, <2>5, <3>1, <3>2 DEF TypeOK, DeviceTypes
  <2>7. ResultInv' /\ InterruptInv' /\ BufferInv'
    BY <2>4 DEF ResultInv, InterruptInv, BufferInv
  <2>8. ControlInv' BY <2>4 DEF ControlInv, SetupStage, DataStage, StatusStage
  <2>9. ReceiveInv' /\ SendInv' BY <1>4 DEF ReceiveInv, SendInv
  <2>10. NoPacketLostOrRepeated' /\ RequestAgreed'
    BY <1>2, <2>3, <2>5 DEF NoPacketLostOrRepeated, RequestAgreed
  <2> QED BY <2>6, <2>7, <2>8, <2>9, <2>10
<1>6. CASE (Again \/ Failed) /\ UNCHANGED gap
  <2>1. Kept \/ GivenUp BY <1>6, FailedOutcome, OtherOutcome
  <2>2. ReceiveInv' /\ SendInv' BY <1>4 DEF ReceiveInv, SendInv
  <2> QED BY <1>2, <1>3, <1>6, <2>1, <2>2, InvNotTaken
<1>7. CASE InData(len) BY <1>1, <1>5, <1>6, <1>7 DEF InData
<1> QED BY <1>6, <1>7

LEMMA InvInTransaction == ASSUME IInv, usb_in_transaction PROVE IInv'
<1> USE DEF IInv
<1>1. has_transfer /\ ~is_tx /\ Frame BY DEF usb_in_transaction, Frame
<1>2. CASE (Again \/ Stalled \/ Failed) /\ UNCHANGED <<device, gap>>
  <2>1. Kept \/ GivenUp BY <1>1, <1>2, FailedOutcome, OtherOutcome
  <2> QED BY <1>1, <1>2, <2>1, InvStill
<1>3. ASSUME ~silent, NEW len \in Offered,
             \/ InData(len) /\ (AckSeen(len) \/ AckMissed(len))
             \/ Failed /\ AckMissed(len) /\ UNCHANGED gap
      PROVE  IInv'
  <2>1. CASE Receiving /\ ~StatusToken(TRUE) /\ stage # "status"
    <3>1. len \in 0..PacketSize BY <1>1, <2>1, OfferFits
    <3>2. DeviceTypes' BY <1>3, <3>1, AckMoves
    <3>3. CASE OfferedToggle = data_id /\ Taken(len) /\ gap' = (gap \/ OutOfTurn) /\ InData(len)
      BY <1>1, <1>3, <2>1, <3>3, InvInTaken
    <3>4. CASE OfferedToggle # data_id /\ Again /\ UNCHANGED gap /\ AckSeen(len)
      <4>1. HostAhead /\ len = dev_sent
        BY <1>1, <1>3, <2>1, <3>4, OfferFits DEF ReceiveInv, Level
      <4>2. Kept BY <3>4, SizeAssumption DEF Again, Kept
      <4>3. dev_toggle' = Flip(dev_toggle) /\ dev_pos' = Forward(dev_pos, len) /\ dev_sent' = Unsent
        BY <2>1, <3>4 DEF AckSeen
      <4>4. Level' BY <4>1, <4>2, <4>3 DEF Level, HostAhead, Kept, NoProgress
      <4>5. ReceiveInv' BY <4>3, <4>4 DEF ReceiveInv, Unsent
      <4>6. SendInv' BY <4>4 DEF SendInv
      <4> QED BY <1>1, <2>1, <3>2, <3>4, <4>2, <4>5, <4>6, InvNotTaken
    <3>5. CASE (Again \/ Failed) /\ UNCHANGED gap /\ AckMissed(len)
      <4>1. Kept \/ GivenUp BY <1>1, <3>5, FailedOutcome, OtherOutcome
      <4>2. MaxLen >= total_len - actual_len BY <1>1, <2>1, RoomBound
      <4>3. Room' \in {total_len - actual_len, MaxLen}
        BY <1>1, <4>1 DEF Room, Kept, NoProgress, GivenUp, Frame
      <4>4. UNCHANGED <<data_id, host_pos>> BY <4>1 DEF Kept, NoProgress, GivenUp
      <4>5. ReceiveInv' BY <1>1, <1>3, <2>1, <3>5, <4>2, <4>3, <4>4, ReceiveAgain
      <4>6. Kept => SendInv'
        BY <1>1, <2>1 DEF SendInv, Sending, InDataStage, Receiving, Kept, NoProgress, Frame
      <4> QED BY <1>1, <2>1, <3>2, <3>5, <4>1, <4>5, <4>6, InvNotTaken
    <3> QED BY <1>3, <3>3, <3>4, <3>5 DEF InData
  <2>2. CASE /\ kind = "control" /\ stage = "status" /\ StatusToken(TRUE)
             /\ ~request.in /\ data_id = 1 /\ total_len = 0
    BY <1>1, <1>3, <2>2, InvInStatus
  <2> QED BY <1>1, <2>1, <2>2, InTransactionStage
<1> QED BY <1>2, <1>3 DEF usb_in_transaction


\* An OUT transaction belongs to an OUT endpoint or to the data or status stage of a request.
LEMMA OutTransactionStage ==
    ASSUME IInv, has_transfer, is_tx, data_id # USB_PID_SETUP
    PROVE  /\ data_id \in 0..1 /\ ~Receiving
           /\ \/ kind = "out" /\ ~StatusToken(FALSE)
              \/ InDataStage /\ ~request.in /\ ~StatusToken(FALSE)
              \/ /\ kind = "control" /\ stage = "status" /\ StatusToken(FALSE)
                 /\ request.in /\ data_id = 1 /\ total_len = 0
<1> USE DEF IInv
<1>1. data_id \in 0..1 BY DEF TypeOK, USB_PID_SETUP
<1>2. CASE kind # "control"
  BY <1>1, <1>2 DEF InterruptInv, TypeOK, Receiving, InDataStage, StatusToken
<1>3. CASE kind = "control"
  <2>1. SetupStage /\ DataStage /\ StatusStage BY <1>3 DEF ControlInv
  <2>2. request.in \in BOOLEAN BY DEF TypeOK
  <2>3. stage \in {"data", "status"} BY <2>1 DEF SetupStage, TypeOK
  <2>4. CASE stage = "data"
    BY <1>1, <1>3, <2>1, <2>2, <2>4 DEF DataStage, Receiving, InDataStage, StatusToken
  <2>5. CASE stage = "status"
    BY <1>1, <1>3, <2>1, <2>2, <2>5 DEF StatusStage, Receiving, InDataStage, StatusToken
  <2> QED BY <2>3, <2>4, <2>5
<1> QED BY <1>2, <1>3

\* The device takes the status, takes the packet it expects, or discards one it has.
LEMMA ReceivedOutcome ==
    ASSUME IInv, has_transfer, is_tx, data_id # USB_PID_SETUP, DeviceReceives
    PROVE  /\ DeviceTypes' /\ buffer.toggle = data_id /\ buffer.pos = host_pos
           /\ \/ /\ StatusToken(FALSE)
                 /\ data_id = 1 => dev_status' = TRUE
                 /\ UNCHANGED <<dev_toggle, dev_pos, dev_sent, gap>>
              \/ /\ ~StatusToken(FALSE) /\ data_id = dev_toggle
                 /\ dev_toggle' = Flip(dev_toggle) /\ dev_pos' = Forward(dev_pos, buffer.len)
                 /\ gap' = (gap \/ host_pos # dev_pos)
              \/ /\ ~StatusToken(FALSE) /\ data_id # dev_toggle
                 /\ UNCHANGED <<dev_toggle, dev_pos, dev_sent, dev_status, gap>>
<1> USE DEF IInv
<1>1. buffer = Encoded(data_id, host_pos, total_len - actual_len) BY DEF BufferInv
<1>2. data_id \in 0..1 /\ total_len - actual_len \in Nat BY OutTransactionStage DEF TypeOK
<1>3. buffer.toggle = data_id /\ buffer.pos = host_pos /\ buffer.len \in Nat
  BY <1>1, <1>2, EncodedType DEF TypeOK
<1>4. Flip(dev_toggle) \in 0..1 /\ Forward(dev_pos, buffer.len) \in 0..(Positions - 1)
  <2>1. dev_toggle \in 0..1 /\ dev_pos \in Nat BY DEF TypeOK
  <2> QED BY <1>3, <2>1, FlipFacts, ForwardType
<1>5. DeviceTypes BY DEF DeviceTypes, TypeOK
<1>6. CASE StatusToken(FALSE) /\ buffer.toggle = 1
  <2>1. dev_status' = TRUE /\ UNCHANGED <<dev_toggle, dev_pos, dev_sent, gap>>
    BY <1>6 DEF DeviceReceives
  <2> QED BY <1>3, <1>5, <1>6, <2>1 DEF DeviceTypes
<1>7. CASE ~StatusToken(FALSE) /\ buffer.toggle = dev_toggle
  <2>1. /\ dev_toggle' = Flip(dev_toggle) /\ dev_pos' = Forward(dev_pos, buffer.len)
        /\ gap' = (gap \/ buffer.pos # dev_pos) /\ UNCHANGED <<dev_sent, dev_status>>
    BY <1>7 DEF DeviceReceives
  <2> QED BY <1>3, <1>4, <1>5, <1>7, <2>1 DEF DeviceTypes
<1>8. CASE /\ ~(StatusToken(FALSE) /\ buffer.toggle = 1)
           /\ ~(~StatusToken(FALSE) /\ buffer.toggle = dev_toggle)
  <2>1. UNCHANGED <<dev_toggle, dev_pos, dev_sent, dev_status, gap>>
    BY <1>8 DEF DeviceReceives, device
  <2> QED BY <1>3, <1>5, <1>8, <2>1 DEF DeviceTypes
<1> QED BY <1>6, <1>7, <1>8

\* The packet arrives and its acknowledgement too.
LEMMA InvOutTaken ==
    ASSUME IInv, has_transfer, is_tx, data_id # USB_PID_SETUP, Frame, DeviceReceives, Taken(buffer.len)
    PROVE  IInv'
<1> USE DEF IInv, Frame
<1>1. buffer = Encoded(data_id, host_pos, total_len - actual_len) BY DEF BufferInv
<1>2. data_id \in 0..1 /\ total_len - actual_len \in Nat BY OutTransactionStage DEF TypeOK
<1>3. /\ buffer.toggle = data_id /\ buffer.pos = host_pos
      /\ buffer.len \in 0..PacketSize /\ buffer.len <= total_len - actual_len
      /\ buffer.len = PacketSize \/ buffer.len = total_len - actual_len
  BY <1>1, <1>2, EncodedType DEF TypeOK
<1> DEFINE Over == /\ has_transfer' = FALSE /\ result' = "complete" /\ buffer' = buffer
                   /\ stage' = IF kind = "control" THEN IF stage = "data" THEN "status" ELSE "setup" ELSE stage
                   /\ actual_len' = total_len
           GoesOn == /\ has_transfer' = TRUE /\ UNCHANGED <<result, stage>>
                     /\ actual_len' < total_len
                     /\ buffer' = Encoded(data_id', host_pos', total_len - actual_len')
<1>4. kind = "control" => stage # "setup"
  BY OutTransactionStage DEF InDataStage
<1>5. /\ failed_count' = 0 /\ errors' = errors
      /\ data_id' = Flip(data_id) /\ data_id' \in 0..1
      /\ host_pos' = Forward(host_pos, buffer.len) /\ host_pos' \in 0..(Positions - 1)
      /\ actual_len' = actual_len + buffer.len /\ actual_len' \in 0..total_len
  BY <1>3, TakenOutcome
<1>6. Over \/ GoesOn
  <2>1. buffer.len < PacketSize => actual_len' = total_len
    BY <1>3, <1>5 DEF TypeOK
  <2> QED BY <1>3, <1>4, <2>1, TakenOutcome
<1> HIDE DEF Over, GoesOn
<1>7. DeviceTypes' BY ReceivedOutcome
<1>8. buffer' \in [toggle : 0..1, pos : 0..(Positions - 1), len : 0..PacketSize]
  <2>1. total_len - actual_len' \in Nat BY <1>5 DEF TypeOK
  <2>2. CASE GoesOn BY <1>5, <2>1, <2>2, EncodedType DEF GoesOn
  <2> QED BY <1>6, <2>2 DEF Over, TypeOK
<1>9. gap' \in BOOLEAN BY ReceivedOutcome DEF TypeOK
<1>10. data_id' # USB_PID_SETUP BY <1>5 DEF USB_PID_SETUP
<1>11. TypeOK'
  <2>1. data_id' \in {0, 1, USB_PID_SETUP} BY <1>5
  <2>2. failed_count' \in 0..MaxRetry /\ failed_count' < MaxRetry BY <1>5, SizeAssumption
  <2>3. /\ has_transfer' \in BOOLEAN /\ result' \in {"none", "complete", "stalled", "error"}
        /\ stage' \in {"setup", "data", "status"}
        /\ has_transfer' /\ total_len > 0 => actual_len' < total_len
    BY <1>6 DEF Over, GoesOn, TypeOK
  <2> QED BY <1>5, <1>7, <1>8, <1>9, <1>10, <2>1, <2>2, <2>3 DEF TypeOK, DeviceTypes
<1>12. InterruptInv' /\ ResultInv' /\ BufferInv'
  BY <1>6, <1>10 DEF InterruptInv, ResultInv, BufferInv, Over, GoesOn
<1>13. Sending => Level' /\ gap' = gap
  <2> SUFFICES ASSUME Sending PROVE Level' /\ gap' = gap OBVIOUS
  <2>1. ~StatusToken(FALSE) BY OutTransactionStage DEF Sending, StatusToken, InDataStage
  <2>2. CASE Level
    BY <1>3, <1>5, <2>1, <2>2, ReceivedOutcome DEF Level, TypeOK
  <2>3. CASE DeviceAhead
    <3>1. data_id # dev_toggle BY <1>2, <2>3, FlipFacts DEF DeviceAhead
    <3>2. UNCHANGED <<dev_toggle, dev_pos, gap>> BY <2>1, <3>1, ReceivedOutcome
    <3> QED BY <1>5, <2>3, <3>2 DEF DeviceAhead, Level
  <2> QED BY <2>2, <2>3 DEF SendInv
<1>14. ControlInv'
  <2> SUFFICES ASSUME kind = "control" PROVE (SetupStage /\ DataStage /\ StatusStage)'
    BY DEF ControlInv
  <2>1. CASE InDataStage /\ ~request.in
    <3>1. /\ is_tx = ~request.in /\ total_len = request.len /\ host_pos = actual_len
      BY <2>1 DEF ControlInv, DataStage, InDataStage
    <3>2. host_pos' = actual_len'
      <4>1. host_pos + buffer.len < Positions
        BY <1>3, <3>1, SizeAssumption DEF TypeOK
      <4> QED BY <1>3, <1>5, <3>1, <4>1, ForwardShort DEF TypeOK
    <3>3. Level' BY <1>13, <2>1 DEF Sending
    <3>4. CASE Over
      BY <2>1, <3>1, <3>2, <3>3, <3>4 DEF Over, Level, SetupStage, DataStage, StatusStage, InDataStage
    <3>5. CASE GoesOn
      BY <1>10, <2>1, <3>1, <3>2, <3>5 DEF GoesOn, SetupStage, DataStage, StatusStage, InDataStage
    <3> QED BY <1>6, <3>4, <3>5
  <2>2. CASE stage = "status" /\ total_len = 0
    <3>1. Over BY <1>5, <1>6, <2>2 DEF GoesOn
    <3> QED BY <2>2, <3>1 DEF Over, SetupStage, DataStage, StatusStage
  <2> QED BY <2>1, <2>2, OutTransactionStage
<1>15. ReceiveInv'
  BY <1>6, OutTransactionStage DEF ReceiveInv, Receiving, InDataStage, Over, GoesOn
<1>16. SendInv'
  BY <1>5, <1>6, <1>13 DEF SendInv, Sending, InDataStage, Over, GoesOn
<1>17. NoPacketLostOrRepeated'
  <2>1. CASE Sending
    BY <1>5, <1>13, <2>1 DEF NoPacketLostOrRepeated
  <2>2. CASE kind = "out" /\ errors
    BY <1>5, <2>2 DEF NoPacketLostOrRepeated
  <2>3. CASE StatusToken(FALSE)
    BY <1>5, <2>3, ReceivedOutcome DEF NoPacketLostOrRepeated
  <2> QED BY <2>1, <2>2, <2>3, OutTransactionStage DEF Sending
<1>18. RequestAgreed'
  <2> SUFFICES ASSUME kind = "control", stage' = "setup" PROVE dev_status'
    BY DEF RequestAgreed
  <2>1. stage = "status" /\ StatusToken(FALSE) /\ data_id = 1
    BY <1>4, <1>6, OutTransactionStage DEF Over, GoesOn, InDataStage
  <2> QED BY <2>1, ReceivedOutcome
<1> QED BY <1>11, <1>12, <1>14, <1>15, <1>16, <1>17, <1>18

\* The packet arrives, its acknowledgement does not.
LEMMA InvOutUnacknowledged ==
    ASSUME IInv, has_transfer, is_tx, data_id # USB_PID_SETUP, Frame, DeviceReceives, Failed
    PROVE  IInv'
<1> USE DEF IInv, Frame
<1>1. Kept \/ GivenUp BY FailedOutcome
<1>2. DeviceTypes' BY ReceivedOutcome
<1>3. gap' \in BOOLEAN BY ReceivedOutcome DEF TypeOK
<1>4. ReceiveInv'
  BY <1>1, OutTransactionStage DEF ReceiveInv, Receiving, InDataStage, Kept, NoProgress, GivenUp
<1>5. kind = "out" \/ gap' = gap
  <2>1. CASE InDataStage /\ ~request.in /\ ~StatusToken(FALSE)
    <3>1. Level \/ DeviceAhead BY <2>1 DEF SendInv, Sending
    <3>2. DeviceAhead => data_id # dev_toggle
      BY OutTransactionStage, FlipFacts DEF DeviceAhead
    <3> QED BY <2>1, <3>1, <3>2, ReceivedOutcome DEF Level, TypeOK
  <2> QED BY <2>1, OutTransactionStage, ReceivedOutcome
<1>6. CASE GivenUp
  BY <1>2, <1>3, <1>4, <1>5, <1>6, InvGivenUp
<1>7. CASE Kept
  <2>1. UNCHANGED <<data_id, host_pos, has_transfer, buffer, errors, stage, result>>
    BY <1>7 DEF Kept, NoProgress
  <2>2. Sending => DeviceAhead' /\ gap' = gap
    <3> SUFFICES ASSUME Sending PROVE DeviceAhead' /\ gap' = gap OBVIOUS
    <3>1. ~StatusToken(FALSE) BY OutTransactionStage DEF Sending, StatusToken, InDataStage
    <3>2. CASE Level
      <4>1. dev_toggle' = Flip(data_id) /\ dev_pos' = Forward(host_pos, buffer.len) /\ gap' = gap
        BY <3>1, <3>2, ReceivedOutcome DEF Level, TypeOK
      <4> QED BY <2>1, <4>1 DEF DeviceAhead
    <3>3. CASE DeviceAhead
      <4>1. data_id # dev_toggle BY <3>3, OutTransactionStage, FlipFacts DEF DeviceAhead
      <4>2. UNCHANGED <<dev_toggle, dev_pos, gap>> BY <3>1, <4>1, ReceivedOutcome
      <4> QED BY <2>1, <3>3, <4>2 DEF DeviceAhead
    <3> QED BY <3>2, <3>3 DEF SendInv
  <2>3. SendInv' BY <2>1, <2>2 DEF SendInv, Sending, InDataStage
  <2>4. NoPacketLostOrRepeated'
    BY <1>5, <2>1, <2>2 DEF NoPacketLostOrRepeated, Sending, TypeOK
  <2>5. stage = "status" => UNCHANGED dev_pos
    BY OutTransactionStage, ReceivedOutcome DEF InDataStage, InterruptInv
  <2> QED BY <1>2, <1>3, <1>4, <1>7, <2>3, <2>4, <2>5, InvKept
<1> QED BY <1>1, <1>6, <1>7

LEMMA InvOutTransaction == ASSUME IInv, usb_out_transaction PROVE IInv'
<1>1. has_transfer /\ is_tx /\ data_id # USB_PID_SETUP /\ Frame BY DEF usb_out_transaction, Frame
<1>2. CASE (Again \/ Stalled \/ Failed) /\ UNCHANGED <<device, gap>>
  <2>1. Kept \/ GivenUp BY <1>1, <1>2, FailedOutcome, OtherOutcome DEF IInv
  <2> QED BY <1>1, <1>2, <2>1, InvStill
<1>3. CASE DeviceReceives /\ Taken(buffer.len) BY <1>1, <1>3, InvOutTaken
<1>4. CASE DeviceReceives /\ Failed BY <1>1, <1>4, InvOutUnacknowledged
<1> QED BY <1>2, <1>3, <1>4 DEF usb_out_transaction

-----------------------------------------------------------------------------
LEMMA InvNext == IInv /\ [Next]_vars => IInv'
<1> SUFFICES ASSUME IInv, [Next]_vars PROVE IInv'
  OBVIOUS
<1>1. CASE StartTransfer BY <1>1, InvSetup, InvStart DEF StartTransfer
<1>2. CASE Transaction
  BY <1>2, InvSetupTransaction, InvInTransaction, InvOutTransaction DEF Transaction
<1>3. CASE FallSilent \/ UNCHANGED vars
  <2>1. /\ UNCHANGED <<kind, is_tx, data_id, host_pos, result, stage, request, gap, errors>>
        /\ UNCHANGED <<has_transfer, failed_count, total_len, actual_len, buffer>>
        /\ UNCHANGED <<dev_toggle, dev_pos, dev_sent, dev_status>>
        /\ silent' \in BOOLEAN
    BY <1>3 DEF FallSilent, vars, transfer, device, history, IInv, TypeOK
  <2>2. TypeOK' BY <2>1 DEF IInv, TypeOK
  <2>3. (ResultInv /\ InterruptInv /\ ControlInv /\ BufferInv)'
    BY <2>1 DEF IInv, ResultInv, InterruptInv, ControlInv, SetupStage, DataStage, StatusStage, BufferInv
  <2>4. (ReceiveInv /\ SendInv)'
    BY <2>1 DEF IInv, ReceiveInv, SendInv, Receiving, Sending, InDataStage, Level, HostAhead,
                DeviceAhead, Room
  <2>5. (NoPacketLostOrRepeated /\ RequestAgreed)'
    BY <2>1 DEF IInv, NoPacketLostOrRepeated, RequestAgreed
  <2> QED BY <2>2, <2>3, <2>4, <2>5 DEF IInv
<1> QED BY <1>1, <1>2, <1>3 DEF Next

LEMMA Invariant == Spec => []IInv
BY InvInit, InvNext, PTL DEF Spec

\* Variables keep their types: no transfer runs beyond its length, and none goes on after
\* MaxRetry failures in a row.  (pio_usb_ll_transfer_continue, TRANSACTION_MAX_RETRY)
THEOREM TransferTypeCorrect == Spec => []TypeOK
<1>1. IInv => TypeOK BY DEF IInv
<1> QED BY <1>1, Invariant, PTL

\* Neither end of an endpoint takes a packet twice, skips one or takes one out of turn,
\* whatever is lost on the bus; on an OUT endpoint, until a transfer of it has failed.
\* (expect_pid of usb_in_transaction, pio_usb_ll_transfer_continue)
THEOREM PacketsInTurn == Spec => []NoPacketLostOrRepeated
<1>1. IInv => NoPacketLostOrRepeated BY DEF IInv
<1> QED BY <1>1, Invariant, PTL

\* A control request that is complete for the host is complete for the device.
\* (data_id = 1 for the data and the status stage in pio_usb_host_endpoint_transfer)
THEOREM RequestsAgreed == Spec => []RequestAgreed
<1>1. IInv => RequestAgreed BY DEF IInv
<1> QED BY <1>1, Invariant, PTL

-----------------------------------------------------------------------------
(***************************************************************************)
(* Packets: numbers and loops.  What the loops of UsbPacket compute is a   *)
(* function that is CHOOSEn; RunExists shows that there is one.            *)
(***************************************************************************)
\* A set of numbers has a first one.
LEMMA LeastNumber == ASSUME NEW T \in SUBSET Nat, T # {} PROVE \E n \in T : \A m \in T : n <= m
<1> DEFINE R == OpToRel(<, Nat)
<1>1. PICK n \in T : \A m \in T : ~(<<m, n>> \in R)
  BY NatLessThanWellFounded, WFMin
<1>2. ASSUME NEW m \in T PROVE n <= m
  <2>1. m \in Nat /\ n \in Nat OBVIOUS
  <2>2. ~(<<m, n>> \in OpToRel(<, Nat)) BY <1>1 DEF R
  <2>3. ~(m < n) BY <2>1, <2>2 DEF OpToRel
  <2> HIDE DEF R
  <2> QED BY <2>1, <2>3
<1> QED BY <1>2

\* What is true of 0 and passed on is true of all numbers up to n.
LEMMA UpTo ==
    ASSUME NEW n \in Nat, NEW T, 0 \in T, \A k \in 1..n : k - 1 \in T => k \in T
    PROVE  \A k \in 0..n : k \in T
<1> DEFINE Others == {k \in 0..n : k \notin T}
<1> SUFFICES ASSUME Others # {} PROVE FALSE OBVIOUS
<1>0. Others \in SUBSET Nat OBVIOUS
<1>1. PICK k \in Others : \A m \in Others : k <= m
  <2> HIDE DEF Others
  <2> QED BY <1>0, LeastNumber
<1>2. k # 0 OBVIOUS
<1>3. k - 1 \in 0..n /\ k \in 1..n BY <1>2
<1>4. k - 1 \notin Others BY <1>1, <1>3
<1> QED BY <1>1, <1>3, <1>4

\* The steps of a loop of n iterations over a state in S, and its run from base.
Steps(n, S) == [1..n -> [S -> S]]
IsRun(g, n, S, base, step) ==
    /\ g \in [0..n -> S] /\ g[0] = base
    /\ \A k \in 1..n : g[k] = step[k][g[k - 1]]

\* Every loop has a run.
LEMMA RunExists ==
    ASSUME NEW n \in Nat, NEW S, NEW base \in S, NEW step \in Steps(n, S)
    PROVE  \E g : IsRun(g, n, S, base, step)
<1> USE DEF Steps, IsRun
<1> DEFINE Runs(k, g) == IsRun(g, k, S, base, step)
           T == {k \in 0..n : \E g : Runs(k, g)}
<1>1. 0 \in T
  <2>1. Runs(0, [k \in 0..0 |-> base]) OBVIOUS
  <2>2. 0 \in 0..n OBVIOUS
  <2> HIDE DEF Runs
  <2> QED BY <2>1, <2>2
<1>2. ASSUME NEW k \in 1..n, k - 1 \in T PROVE k \in T
  <2>1. PICK g : Runs(k - 1, g) BY <1>2
  <2> DEFINE h == [j \in 0..k |-> IF j = k THEN step[k][g[k - 1]] ELSE g[j]]
  <2>2. k - 1 \in 0..k-1 /\ k \in Nat /\ g[k - 1] \in S BY <2>1
  <2>3. h \in [0..k -> S]
    <3>1. \A j \in 0..k : j # k => j \in 0..k-1 OBVIOUS
    <3> QED BY <2>1, <2>2, <3>1
  <2>4. h[0] = base BY <2>1, <2>2
  <2>5. ASSUME NEW j \in 1..k PROVE h[j] = step[j][h[j - 1]]
    <3>1. j \in 0..k /\ j - 1 \in 0..k /\ j - 1 # k /\ h[j - 1] = g[j - 1] OBVIOUS
    <3>2. CASE j = k BY <3>1, <3>2
    <3>3. CASE j # k
      <4>1. j \in 1..k-1 /\ h[j] = g[j] BY <3>1, <3>3
      <4> QED BY <2>1, <3>1, <4>1
    <3> QED BY <3>2, <3>3
  <2>6. Runs(k, h)
    <3> HIDE DEF h
    <3> QED BY <2>3, <2>4, <2>5
  <2>7. k \in 0..n OBVIOUS
  <2> HIDE DEF Runs, h
  <2> QED BY <2>6, <2>7
<1>3. n \in T
  <2> HIDE DEF T
  <2>1. \A k \in 0..n : k \in T BY <1>1, <1>2, UpTo
  <2> QED BY <2>1
<1> QED BY <1>3

-----------------------------------------------------------------------------
(***************************************************************************)
(* The loops of encoding and decoding, bit by bit                          *)
(***************************************************************************)
LineLevel == {"J", "K"}
EncodeState == [codes : Seq(LineLevel), level : LineLevel, bit_stuffing : 1..6]
NothingEncoded == [codes |-> <<>>, level |-> "K", bit_stuffing |-> 6]
DecodeState == [x : LineLevel, y : 0..6, bits : Seq({0, 1})]
NothingDecoded == [x |-> "K", y |-> 6, bits |-> <<>>]

\* The encoder's state once each of its fields has been assigned.
LEMMA EncoderReplaced ==
    ASSUME NEW e \in EncodeState, NEW a, NEW b, NEW c
    PROVE  [e EXCEPT !.codes = a, !.level = b, !.bit_stuffing = c] = [codes |-> a, level |-> b, bit_stuffing |-> c]
<1> DEFINE f == [e EXCEPT !.codes = a, !.level = b, !.bit_stuffing = c]
           g == [k \in {"codes", "level", "bit_stuffing"} |->
                 IF k = "bit_stuffing" THEN c ELSE IF k = "level" THEN b ELSE IF k = "codes" THEN a ELSE e[k]]
<1>1. DOMAIN e = {"codes", "level", "bit_stuffing"} BY DEF EncodeState
<1>2. f = g BY <1>1
<1>3. g = [codes |-> a, level |-> b, bit_stuffing |-> c] OBVIOUS
<1> QED BY <1>2, <1>3

\* Encoding one bit, a level and what is stuffed behind it.
LEMMA EncodeBitCases ==
    ASSUME NEW e \in EncodeState, NEW bit \in {0, 1}
    PROVE  /\ bit = 0 => EncodeBit(e, bit) = [codes |-> Append(e.codes, Opposite(e.level)) \o <<>>,
                                              level |-> Opposite(e.level), bit_stuffing |-> 6]
           /\ bit = 1 /\ e.bit_stuffing > 1 =>
                EncodeBit(e, bit) = [codes |-> Append(e.codes, e.level) \o <<>>,
                                     level |-> e.level, bit_stuffing |-> e.bit_stuffing - 1]
           /\ bit = 1 /\ e.bit_stuffing = 1 =>
                EncodeBit(e, bit) = [codes |-> Append(e.codes, e.level) \o <<Opposite(e.level)>>,
                                     level |-> Opposite(e.level), bit_stuffing |-> 6]
<1> DEFINE level == IF bit = 1 THEN e.level ELSE Opposite(e.level)
           left == IF bit = 1 THEN e.bit_stuffing - 1 ELSE 6
           stuffed == IF left = 0 THEN <<Opposite(level)>> ELSE <<>>
           a == Append(e.codes, level) \o stuffed
           b == IF left = 0 THEN Opposite(level) ELSE level
           c == IF left = 0 THEN 6 ELSE left
<1>1. EncodeBit(e, bit) = [e EXCEPT !.codes = a, !.level = b, !.bit_stuffing = c] BY Zenon DEF EncodeBit
<1>2. EncodeBit(e, bit) = [codes |-> a, level |-> b, bit_stuffing |-> c]
  <2> HIDE DEF a, b, c
  <2> QED BY <1>1, EncoderReplaced
<1>3. e.bit_stuffing \in 1..6 BY DEF EncodeState
<1>4. /\ bit = 0 => level = Opposite(e.level) /\ left = 6
      /\ bit = 1 => level = e.level /\ left = e.bit_stuffing - 1
  OBVIOUS
<1> HIDE DEF level, left
<1>5. /\ left = 0 => stuffed = <<Opposite(level)>> /\ b = Opposite(level) /\ c = 6
      /\ left # 0 => stuffed = <<>> /\ b = level /\ c = left
  OBVIOUS
<1> HIDE DEF stuffed, b, c
<1>6. CASE bit = 0 BY <1>2, <1>4, <1>5, <1>6
<1>7. CASE bit = 1 /\ e.bit_stuffing > 1
  <2>1. left # 0 /\ bit # 0 /\ ~(e.bit_stuffing = 1) BY <1>3, <1>4, <1>7
  <2>2. a = Append(e.codes, e.level) \o <<>> /\ b = e.level /\ c = e.bit_stuffing - 1 BY <1>4, <1>5, <1>7, <2>1
  <2> HIDE DEF a
  <2> QED BY <1>2, <2>1, <2>2
<1>8. CASE bit = 1 /\ e.bit_stuffing = 1
  <2>1. left = 0 /\ bit # 0 /\ ~(e.bit_stuffing > 1) BY <1>3, <1>4, <1>8
  <2>2. a = Append(e.codes, e.level) \o <<Opposite(e.level)>> /\ b = Opposite(e.level) /\ c = 6
    BY <1>4, <1>5, <1>8, <2>1
  <2> HIDE DEF a
  <2> QED BY <1>2, <2>1, <2>2
<1> QED BY <1>6, <1>7, <1>8

\* What encoding one bit does.
LEMMA EncodeBitIs ==
    ASSUME NEW e \in EncodeState, NEW bit \in {0, 1}
    PROVE  /\ bit = 0 => EncodeBit(e, bit) = [codes |-> Append(e.codes, Opposite(e.level)),
                                              level |-> Opposite(e.level), bit_stuffing |-> 6]
           /\ bit = 1 /\ e.bit_stuffing > 1 =>
                EncodeBit(e, bit) = [codes |-> Append(e.codes, e.level),
                                     level |-> e.level, bit_stuffing |-> e.bit_stuffing - 1]
           /\ bit = 1 /\ e.bit_stuffing = 1 =>
                EncodeBit(e, bit) = [codes |-> Append(Append(e.codes, e.level), Opposite(e.level)),
                                     level |-> Opposite(e.level), bit_stuffing |-> 6]
           /\ EncodeBit(e, bit) \in EncodeState
<1>1. e.codes \in Seq(LineLevel) /\ e.level \in LineLevel /\ e.bit_stuffing \in 1..6 BY DEF EncodeState
<1>2. Opposite(e.level) \in LineLevel BY <1>1 DEF Opposite, LineLevel
<1>3. /\ Append(e.codes, e.level) \in Seq(LineLevel) /\ Append(e.codes, Opposite(e.level)) \in Seq(LineLevel)
      /\ Append(Append(e.codes, e.level), Opposite(e.level)) \in Seq(LineLevel)
  BY <1>1, <1>2, AppendProperties
<1> DEFINE c == e.codes
           one == Append(c, e.level)
           zero == Append(c, Opposite(e.level))
           both == Append(one, Opposite(e.level))
<1>4. one \o <<>> = one /\ zero \o <<>> = zero /\ one \o <<Opposite(e.level)>> = both
  <2>1. one \in Seq(LineLevel) /\ zero \in Seq(LineLevel) BY <1>3
  <2> HIDE DEF one, zero
  <2> QED BY <1>2, <2>1, ConcatEmptySeq, AppendIsConcat DEF both
<1>5. CASE bit = 0
  <2>1. EncodeBit(e, bit) = [codes |-> zero \o <<>>, level |-> Opposite(e.level), bit_stuffing |-> 6]
    BY <1>5, EncodeBitCases
  <2> HIDE DEF zero
  <2>2. zero \in Seq(LineLevel) BY <1>3 DEF zero
  <2>3. EncodeBit(e, bit) = [codes |-> zero, level |-> Opposite(e.level), bit_stuffing |-> 6] BY <1>4, <2>1
  <2>4. EncodeBit(e, bit) \in EncodeState BY <1>2, <2>2, <2>3 DEF EncodeState
  <2> QED BY <1>5, <2>3, <2>4 DEF zero
<1>6. CASE bit = 1 /\ e.bit_stuffing > 1
  <2>1. e.bit_stuffing - 1 # 0 /\ e.bit_stuffing - 1 \in 1..6 BY <1>1, <1>6
  <2>2. EncodeBit(e, bit) = [codes |-> one \o <<>>, level |-> e.level, bit_stuffing |-> e.bit_stuffing - 1]
    BY <1>6, <2>1, EncodeBitCases
  <2> HIDE DEF one
  <2>3. one \in Seq(LineLevel) BY <1>3 DEF one
  <2>4. EncodeBit(e, bit) = [codes |-> one, level |-> e.level, bit_stuffing |-> e.bit_stuffing - 1] BY <1>4, <2>2
  <2>5. EncodeBit(e, bit) \in EncodeState BY <1>1, <2>1, <2>3, <2>4 DEF EncodeState
  <2> QED BY <1>6, <2>4, <2>5 DEF one
<1>7. CASE bit = 1 /\ e.bit_stuffing = 1
  <2>1. EncodeBit(e, bit) = [codes |-> one \o <<Opposite(e.level)>>, level |-> Opposite(e.level), bit_stuffing |-> 6]
    BY <1>7, EncodeBitCases
  <2> HIDE DEF both, one
  <2>2. both \in Seq(LineLevel) BY <1>3 DEF both, one
  <2>3. EncodeBit(e, bit) = [codes |-> both, level |-> Opposite(e.level), bit_stuffing |-> 6] BY <1>4, <2>1
  <2>4. EncodeBit(e, bit) \in EncodeState BY <1>2, <2>2, <2>3 DEF EncodeState
  <2> QED BY <1>7, <2>3, <2>4 DEF both, one
<1> QED BY <1>1, <1>5, <1>6, <1>7

\* Encoding a bit keeps the state within its types.
LEMMA EncodeTypes ==
    NothingEncoded \in EncodeState /\ \A e \in EncodeState, bit \in {0, 1} : EncodeBit(e, bit) \in EncodeState
<1>1. NothingEncoded \in EncodeState BY DEF NothingEncoded, EncodeState, LineLevel
<1> QED BY <1>1, EncodeBitIs

\* The encoder runs bit by bit.
LEMMA EncodingRun ==
    ASSUME NEW bits \in Seq({0, 1})
    PROVE  /\ Encoding(bits) \in [0..Len(bits) -> EncodeState] /\ Encoding(bits)[0] = NothingEncoded
           /\ \A k \in 1..Len(bits) : Encoding(bits)[k] = EncodeBit(Encoding(bits)[k - 1], bits[k])
<1> DEFINE n == Len(bits)
           step == [k \in 1..n |-> [x \in EncodeState |-> EncodeBit(x, bits[k])]]
           Body(f) == [k \in 0..n |-> IF k = 0 THEN NothingEncoded ELSE EncodeBit(f[k - 1], bits[k])]
           F == CHOOSE f : f = Body(f)
<1>1. n \in Nat /\ \A k \in 1..n : bits[k] \in {0, 1} OBVIOUS
<1>2. NothingEncoded \in EncodeState /\ \A x \in EncodeState, y \in {0, 1} : EncodeBit(x, y) \in EncodeState BY EncodeTypes
<1>3. step \in Steps(n, EncodeState) BY <1>1, <1>2 DEF Steps
<1>4. PICK g : IsRun(g, n, EncodeState, NothingEncoded, step)
  <2> HIDE DEF step, n
  <2> QED BY <1>1, <1>2, <1>3, RunExists
<1>5. \A k \in 1..n : k - 1 \in 0..n /\ k \in 0..n /\ k # 0 BY <1>1
<1>6. g = Body(g)
  <2>1. ASSUME NEW k \in 0..n PROVE g[k] = Body(g)[k]
    <3>1. CASE k = 0 BY <1>4, <3>1 DEF IsRun
    <3>2. CASE k # 0
      <4>1. k \in 1..n BY <1>1, <3>2
      <4> QED BY <1>4, <1>5, <4>1 DEF IsRun
    <3> QED BY <3>1, <3>2
  <2>2. DOMAIN g = 0..n /\ g = [k \in 0..n |-> g[k]] BY <1>4 DEF IsRun
  <2> QED BY <2>1, <2>2
<1>7. F = Body(F)
  <2> HIDE DEF Body
  <2> QED BY <1>6
<1>8. Encoding(bits) = F BY DEF Encoding, NothingEncoded
<1> HIDE DEF F, step
<1>9. F[0] = NothingEncoded /\ \A k \in 1..n : F[k] = EncodeBit(F[k - 1], bits[k])
  <2>1. 0 \in 0..n BY <1>1
  <2> HIDE DEF n
  <2> QED BY <1>5, <1>7, <2>1
<1> DEFINE T == {k \in 0..n : F[k] \in EncodeState}
<1>10. \A k \in 0..n : k \in T
  <2>1. 0 \in T BY <1>1, <1>2, <1>9
  <2>2. ASSUME NEW k \in 1..n, k - 1 \in T PROVE k \in T BY <1>1, <1>2, <1>5, <1>9, <2>2
  <2> HIDE DEF T, n
  <2> QED BY <1>1, <2>1, <2>2, UpTo
<1>11. F \in [0..n -> EncodeState]
  <2>1. DOMAIN F = 0..n /\ F = [k \in 0..n |-> F[k]] BY <1>7
  <2>2. \A k \in 0..n : F[k] \in EncodeState BY <1>10
  <2> HIDE DEF n, T
  <2> QED BY <2>1, <2>2
<1> QED BY <1>8, <1>9, <1>11

\* The decoder's state once each of its fields has been assigned.
LEMMA DecoderReplaced ==
    ASSUME NEW d \in DecodeState, NEW a, NEW b, NEW c
    PROVE  [d EXCEPT !.x = a, !.y = b, !.bits = c] = [x |-> a, y |-> b, bits |-> c]
<1> DEFINE f == [d EXCEPT !.x = a, !.y = b, !.bits = c]
           g == [k \in {"x", "y", "bits"} |->
                 IF k = "bits" THEN c ELSE IF k = "y" THEN b ELSE IF k = "x" THEN a ELSE d[k]]
<1>1. DOMAIN d = {"x", "y", "bits"} BY DEF DecodeState
<1>2. f = g BY <1>1
<1>3. g = [x |-> a, y |-> b, bits |-> c] OBVIOUS
<1> QED BY <1>2, <1>3

\* What decoding one code does: a stuffed bit is dropped, the same level is a one, another a zero.
LEMMA DecodeLevelIs ==
    ASSUME NEW d \in DecodeState, NEW level
    PROVE  /\ d.y = 0 => DecodeLevel(d, level) = [x |-> Opposite(d.x), y |-> 6, bits |-> d.bits]
           /\ d.y # 0 /\ level = d.x =>
                DecodeLevel(d, level) = [x |-> level, y |-> d.y - 1, bits |-> Append(d.bits, 1)]
           /\ d.y # 0 /\ level # d.x =>
                DecodeLevel(d, level) = [x |-> level, y |-> 6, bits |-> Append(d.bits, 0)]
<1> DEFINE bit == IF level = d.x THEN 1 ELSE 0
           a == IF d.y = 0 THEN Opposite(d.x) ELSE level
           b == IF d.y = 0 \/ bit = 0 THEN 6 ELSE d.y - 1
           c == IF d.y = 0 THEN d.bits ELSE Append(d.bits, bit)
<1>1. DecodeLevel(d, level) = [d EXCEPT !.x = a, !.y = b, !.bits = c] BY DEF DecodeLevel
<1>2. DecodeLevel(d, level) = [x |-> a, y |-> b, bits |-> c]
  <2> HIDE DEF a, b, c
  <2> QED BY <1>1, DecoderReplaced
<1>3. /\ d.y = 0 => a = Opposite(d.x) /\ b = 6 /\ c = d.bits
      /\ d.y # 0 /\ level = d.x => a = level /\ b = d.y - 1 /\ c = Append(d.bits, 1)
      /\ d.y # 0 /\ level # d.x => a = level /\ b = 6 /\ c = Append(d.bits, 0)
  OBVIOUS
<1> HIDE DEF a, b, c
<1> QED BY <1>2, <1>3

\* It leaves the decoder in one of its states.
LEMMA DecodeTypes ==
    NothingDecoded \in DecodeState /\ \A d \in DecodeState, level \in LineLevel : DecodeLevel(d, level) \in DecodeState
<1>1. NothingDecoded \in DecodeState BY DEF NothingDecoded, DecodeState, LineLevel
<1>2. ASSUME NEW d \in DecodeState, NEW level \in LineLevel PROVE DecodeLevel(d, level) \in DecodeState
  <2>1. d.x \in LineLevel /\ d.y \in 0..6 /\ d.bits \in Seq({0, 1}) BY DEF DecodeState
  <2>2. Append(d.bits, 0) \in Seq({0, 1}) /\ Append(d.bits, 1) \in Seq({0, 1}) BY <2>1
  <2>3. Opposite(d.x) \in LineLevel BY DEF Opposite, LineLevel
  <2>4. CASE d.y = 0
    <3>1. DecodeLevel(d, level) = [x |-> Opposite(d.x), y |-> 6, bits |-> d.bits]
      BY <2>4, DecodeLevelIs
    <3> QED BY <2>1, <2>3, <3>1 DEF DecodeState
  <2>5. CASE d.y # 0 /\ level = d.x
    <3>1. DecodeLevel(d, level) = [x |-> d.x, y |-> d.y - 1, bits |-> Append(d.bits, 1)]
      BY <2>5, DecodeLevelIs
    <3>2. d.y - 1 \in 0..6 BY <2>1, <2>5
    <3> QED BY <2>1, <2>2, <3>1, <3>2 DEF DecodeState
  <2>6. CASE d.y # 0 /\ level # d.x
    <3>1. DecodeLevel(d, level) = [x |-> level, y |-> 6, bits |-> Append(d.bits, 0)]
      BY <2>6, DecodeLevelIs
    <3> QED BY <2>2, <3>1 DEF DecodeState
  <2> QED BY <2>4, <2>5, <2>6
<1> QED BY <1>1, <1>2

\* The decoder runs code by code.
LEMMA DecodingRun ==
    ASSUME NEW codes \in Seq(LineLevel)
    PROVE  /\ Decoding(codes) \in [0..Len(codes) -> DecodeState] /\ Decoding(codes)[0] = NothingDecoded
           /\ \A k \in 1..Len(codes) : Decoding(codes)[k] = DecodeLevel(Decoding(codes)[k - 1], codes[k])
<1> DEFINE n == Len(codes)
           step == [k \in 1..n |-> [x \in DecodeState |-> DecodeLevel(x, codes[k])]]
           Body(f) == [k \in 0..n |-> IF k = 0 THEN NothingDecoded ELSE DecodeLevel(f[k - 1], codes[k])]
           F == CHOOSE f : f = Body(f)
<1>1. n \in Nat /\ \A k \in 1..n : codes[k] \in LineLevel OBVIOUS
<1>2. NothingDecoded \in DecodeState /\ \A x \in DecodeState, y \in LineLevel : DecodeLevel(x, y) \in DecodeState BY DecodeTypes
<1>3. step \in Steps(n, DecodeState) BY <1>1, <1>2 DEF Steps
<1>4. PICK g : IsRun(g, n, DecodeState, NothingDecoded, step)
  <2> HIDE DEF step, n
  <2> QED BY <1>1, <1>2, <1>3, RunExists
<1>5. \A k \in 1..n : k - 1 \in 0..n /\ k \in 0..n /\ k # 0 BY <1>1
<1>6. g = Body(g)
  <2>1. ASSUME NEW k \in 0..n PROVE g[k] = Body(g)[k]
    <3>1. CASE k = 0 BY <1>4, <3>1 DEF IsRun
    <3>2. CASE k # 0
      <4>1. k \in 1..n BY <1>1, <3>2
      <4> QED BY <1>4, <1>5, <4>1 DEF IsRun
    <3> QED BY <3>1, <3>2
  <2>2. DOMAIN g = 0..n /\ g = [k \in 0..n |-> g[k]] BY <1>4 DEF IsRun
  <2> QED BY <2>1, <2>2
<1>7. F = Body(F)
  <2> HIDE DEF Body
  <2> QED BY <1>6
<1>8. Decoding(codes) = F BY DEF Decoding, NothingDecoded
<1> HIDE DEF F, step
<1>9. F[0] = NothingDecoded /\ \A k \in 1..n : F[k] = DecodeLevel(F[k - 1], codes[k])
  <2>1. 0 \in 0..n BY <1>1
  <2> HIDE DEF n
  <2> QED BY <1>5, <1>7, <2>1
<1> DEFINE T == {k \in 0..n : F[k] \in DecodeState}
<1>10. \A k \in 0..n : k \in T
  <2>1. 0 \in T BY <1>1, <1>2, <1>9
  <2>2. ASSUME NEW k \in 1..n, k - 1 \in T PROVE k \in T BY <1>1, <1>2, <1>5, <1>9, <2>2
  <2> HIDE DEF T, n
  <2> QED BY <1>1, <2>1, <2>2, UpTo
<1>11. F \in [0..n -> DecodeState]
  <2>1. DOMAIN F = 0..n /\ F = [k \in 0..n |-> F[k]] BY <1>7
  <2>2. \A k \in 0..n : F[k] \in DecodeState BY <1>10
  <2> HIDE DEF n, T
  <2> QED BY <2>1, <2>2
<1> QED BY <1>8, <1>9, <1>11

-----------------------------------------------------------------------------
(***************************************************************************)
(* The loops of the CRC, byte by byte                                      *)
(***************************************************************************)
Word16 == {n \in Nat : n <= 65535}
NoCrc == \hffff
CheckState == [crc : Word16, crc_prev : Word16, crc_prev2 : Word16, crc_receive : Word16, crc_match : BOOLEAN]

\* What it is to be a word of 16 bits.
LEMMA Word16Is == \A n : n \in Word16 <=> n \in Nat /\ n <= 65535
BY DEF Word16

\* An exclusive or has 16 bits.
LEMMA XorType == ASSUME NEW x \in Nat, NEW y \in Nat PROVE Xor(x, y) \in Word16
<1> DEFINE bit(w) == ((x \div w + y \div w) % 2) * w
           Fine(b, w) == b \in Nat /\ b <= w
           b1 == bit(1)
           b2 == bit(2)
           b4 == bit(4)
           b8 == bit(8)
           b16 == bit(16)
           b32 == bit(32)
           b64 == bit(64)
           b128 == bit(128)
           b256 == bit(256)
           b512 == bit(512)
           b1024 == bit(1024)
           b2048 == bit(2048)
           b4096 == bit(4096)
           b8192 == bit(8192)
           b16384 == bit(16384)
           b32768 == bit(32768)
<1>1. /\ Fine(b1, 1) /\ Fine(b2, 2) /\ Fine(b4, 4) /\ Fine(b8, 8)
      /\ Fine(b16, 16) /\ Fine(b32, 32) /\ Fine(b64, 64) /\ Fine(b128, 128)
      /\ Fine(b256, 256) /\ Fine(b512, 512) /\ Fine(b1024, 1024) /\ Fine(b2048, 2048)
      /\ Fine(b4096, 4096) /\ Fine(b8192, 8192) /\ Fine(b16384, 16384) /\ Fine(b32768, 32768)
  OBVIOUS
<1> DEFINE low == b1 + b2 + b4 + b8 + b16 + b32 + b64 + b128
           high == b256 + b512 + b1024 + b2048 + b4096 + b8192 + b16384 + b32768
           sum == low + b256 + b512 + b1024 + b2048 + b4096 + b8192 + b16384 + b32768
<1>2. Xor(x, y) = sum BY DEF Xor
<1> HIDE DEF bit, b1, b2, b4, b8, b16, b32, b64, b128, b256, b512, b1024, b2048, b4096, b8192, b16384, b32768
<1>3. low \in Nat /\ low <= 255 BY <1>1
<1>4. high \in Nat /\ high <= 65280 BY <1>1
<1>5. sum = low + high
  <2> HIDE DEF low
  <2> QED BY <1>1, <1>3
<1>6. low + high \in Nat /\ low + high <= 65535
  <2> HIDE DEF low, high
  <2> QED BY <1>3, <1>4
<1> HIDE DEF sum
<1>7. sum \in Nat /\ sum <= 65535 BY <1>5, <1>6
<1>8. sum \in Word16 BY <1>7, Word16Is
<1> QED BY <1>2, <1>8

\* The table holds numbers.
LEMMA TableNat == \A k \in 1..256 : crc16_tbl[k] \in Nat BY SMTT(60) DEF crc16_tbl

\* A CRC has 16 bits.
LEMMA CrcTypes == NoCrc \in Word16 /\ \A crc \in Word16, data \in Byte : update_usb_crc16(crc, data) \in Word16
<1>1. NoCrc \in Word16 BY DEF NoCrc, Word16
<1>2. ASSUME NEW crc \in Word16, NEW data \in Byte PROVE update_usb_crc16(crc, data) \in Word16
  <2> DEFINE mixed == Xor(crc, data)
             entry == crc16_tbl[(mixed % 256) + 1]
  <2>1. crc \in Nat /\ data \in Nat BY DEF Word16, Byte
  <2>a. crc \div 256 \in Nat BY <2>1
  <2>2. mixed \in Nat
    <3>1. mixed \in Word16 BY <2>1, XorType
    <3> HIDE DEF mixed
    <3> QED BY <3>1 DEF Word16
  <2> HIDE DEF mixed
  <2>3. (mixed % 256) + 1 \in 1..256 BY <2>2
  <2>4. entry \in Nat BY <2>3, TableNat
  <2>5. update_usb_crc16(crc, data) = Xor(crc \div 256, entry) BY DEF update_usb_crc16, Entry, mixed
  <2> HIDE DEF entry
  <2> QED BY <2>a, <2>4, <2>5, XorType
<1> QED BY <1>1, <1>2

\* The CRC runs byte by byte.
LEMMA CrcRun ==
    ASSUME NEW data \in Seq(Byte)
    PROVE  /\ Updated(data) \in [0..Len(data) -> Word16] /\ Updated(data)[0] = NoCrc
           /\ \A k \in 1..Len(data) : Updated(data)[k] = update_usb_crc16(Updated(data)[k - 1], data[k])
<1> DEFINE n == Len(data)
           step == [k \in 1..n |-> [x \in Word16 |-> update_usb_crc16(x, data[k])]]
           Body(f) == [k \in 0..n |-> IF k = 0 THEN NoCrc ELSE update_usb_crc16(f[k - 1], data[k])]
           F == CHOOSE f : f = Body(f)
<1>1. n \in Nat /\ \A k \in 1..n : data[k] \in Byte OBVIOUS
<1>2. NoCrc \in Word16 /\ \A x \in Word16, y \in Byte : update_usb_crc16(x, y) \in Word16 BY CrcTypes
<1>3. step \in Steps(n, Word16) BY <1>1, <1>2 DEF Steps
<1>4. PICK g : IsRun(g, n, Word16, NoCrc, step)
  <2> HIDE DEF step, n
  <2> QED BY <1>1, <1>2, <1>3, RunExists
<1>5. \A k \in 1..n : k - 1 \in 0..n /\ k \in 0..n /\ k # 0 BY <1>1
<1>6. g = Body(g)
  <2>1. ASSUME NEW k \in 0..n PROVE g[k] = Body(g)[k]
    <3>1. CASE k = 0 BY <1>4, <3>1 DEF IsRun
    <3>2. CASE k # 0
      <4>1. k \in 1..n BY <1>1, <3>2
      <4> QED BY <1>4, <1>5, <4>1 DEF IsRun
    <3> QED BY <3>1, <3>2
  <2>2. DOMAIN g = 0..n /\ g = [k \in 0..n |-> g[k]] BY <1>4 DEF IsRun
  <2> QED BY <2>1, <2>2
<1>7. F = Body(F)
  <2> HIDE DEF Body
  <2> QED BY <1>6
<1>8. Updated(data) = F BY DEF Updated, NoCrc
<1> HIDE DEF F, step
<1>9. F[0] = NoCrc /\ \A k \in 1..n : F[k] = update_usb_crc16(F[k - 1], data[k])
  <2>1. 0 \in 0..n BY <1>1
  <2> HIDE DEF n
  <2> QED BY <1>5, <1>7, <2>1
<1> DEFINE T == {k \in 0..n : F[k] \in Word16}
<1>10. \A k \in 0..n : k \in T
  <2>1. 0 \in T BY <1>1, <1>2, <1>9
  <2>2. ASSUME NEW k \in 1..n, k - 1 \in T PROVE k \in T BY <1>1, <1>2, <1>5, <1>9, <2>2
  <2> HIDE DEF T, n
  <2> QED BY <1>1, <2>1, <2>2, UpTo
<1>11. F \in [0..n -> Word16]
  <2>1. DOMAIN F = 0..n /\ F = [k \in 0..n |-> F[k]] BY <1>7
  <2>2. \A k \in 0..n : F[k] \in Word16 BY <1>10
  <2> HIDE DEF n, T
  <2> QED BY <2>1, <2>2
<1> QED BY <1>8, <1>9, <1>11

\* Taking a byte keeps the receiver within its types.
LEMMA CheckTypes ==
    NothingTaken \in CheckState /\ \A c \in CheckState, data \in Byte : TakeByte(c, data) \in CheckState
<1>1. NothingTaken \in CheckState BY DEF NothingTaken, CheckState, Word16
<1>2. ASSUME NEW c \in CheckState, NEW data \in Byte PROVE TakeByte(c, data) \in CheckState
  <2>1. c.crc \in Word16 /\ c.crc_prev \in Word16 /\ c.crc_receive \in Nat /\ c.crc_receive <= 65535
    BY DEF CheckState, Word16
  <2>2. update_usb_crc16(c.crc, data) \in Word16 BY <2>1, CrcTypes
  <2> DEFINE high == c.crc_receive \div 256
             got == high + data * 256
  <2>3. high \in Nat /\ high <= 255
    <3> DEFINE r == c.crc_receive
    <3> HIDE DEF r
    <3>1. r \in Nat /\ r <= 65535 BY <2>1 DEF r
    <3>2. r \div 256 \in Nat /\ r \div 256 <= 255 BY <3>1
    <3> QED BY <3>2 DEF r
  <2>4. data \in Nat /\ data <= 255 BY DEF Byte
  <2> HIDE DEF high
  <2>5. got \in Nat /\ got <= 65535 BY <2>3, <2>4
  <2> HIDE DEF got
  <2>6. got \in Word16 BY <2>5, Word16Is
  <2>7. TakeByte(c, data) = [crc |-> update_usb_crc16(c.crc, data), crc_prev |-> c.crc, crc_prev2 |-> c.crc_prev,
                             crc_receive |-> got, crc_match |-> \hffff - got = c.crc_prev]
    BY DEF TakeByte, got, high
  <2> QED BY <2>1, <2>2, <2>6, <2>7 DEF CheckState
<1> QED BY <1>1, <1>2

\* So does the receiver's comparison.
LEMMA CheckRun ==
    ASSUME NEW data \in Seq(Byte)
    PROVE  /\ Taking(data) \in [0..Len(data) -> CheckState] /\ Taking(data)[0] = NothingTaken
           /\ \A k \in 1..Len(data) : Taking(data)[k] = TakeByte(Taking(data)[k - 1], data[k])
<1> DEFINE n == Len(data)
           step == [k \in 1..n |-> [x \in CheckState |-> TakeByte(x, data[k])]]
           Body(f) == [k \in 0..n |-> IF k = 0 THEN NothingTaken ELSE TakeByte(f[k - 1], data[k])]
           F == CHOOSE f : f = Body(f)
<1>1. n \in Nat /\ \A k \in 1..n : data[k] \in Byte OBVIOUS
<1>2. NothingTaken \in CheckState /\ \A x \in CheckState, y \in Byte : TakeByte(x, y) \in CheckState BY CheckTypes
<1>3. step \in Steps(n, CheckState) BY <1>1, <1>2 DEF Steps
<1>4. PICK g : IsRun(g, n, CheckState, NothingTaken, step)
  <2> HIDE DEF step, n
  <2> QED BY <1>1, <1>2, <1>3, RunExists
<1>5. \A k \in 1..n : k - 1 \in 0..n /\ k \in 0..n /\ k # 0 BY <1>1
<1>6. g = Body(g)
  <2>1. ASSUME NEW k \in 0..n PROVE g[k] = Body(g)[k]
    <3>1. CASE k = 0 BY <1>4, <3>1 DEF IsRun
    <3>2. CASE k # 0
      <4>1. k \in 1..n BY <1>1, <3>2
      <4> QED BY <1>4, <1>5, <4>1 DEF IsRun
    <3> QED BY <3>1, <3>2
  <2>2. DOMAIN g = 0..n /\ g = [k \in 0..n |-> g[k]] BY <1>4 DEF IsRun
  <2> QED BY <2>1, <2>2
<1>7. F = Body(F)
  <2> HIDE DEF Body
  <2> QED BY <1>6
<1>8. Taking(data) = F BY DEF Taking, NothingTaken
<1> HIDE DEF F, step
<1>9. F[0] = NothingTaken /\ \A k \in 1..n : F[k] = TakeByte(F[k - 1], data[k])
  <2>1. 0 \in 0..n BY <1>1
  <2> HIDE DEF n
  <2> QED BY <1>5, <1>7, <2>1
<1> DEFINE T == {k \in 0..n : F[k] \in CheckState}
<1>10. \A k \in 0..n : k \in T
  <2>1. 0 \in T BY <1>1, <1>2, <1>9
  <2>2. ASSUME NEW k \in 1..n, k - 1 \in T PROVE k \in T BY <1>1, <1>2, <1>5, <1>9, <2>2
  <2> HIDE DEF T, n
  <2> QED BY <1>1, <2>1, <2>2, UpTo
<1>11. F \in [0..n -> CheckState]
  <2>1. DOMAIN F = 0..n /\ F = [k \in 0..n |-> F[k]] BY <1>7
  <2>2. \A k \in 0..n : F[k] \in CheckState BY <1>10
  <2> HIDE DEF n, T
  <2> QED BY <2>1, <2>2
<1> QED BY <1>8, <1>9, <1>11

-----------------------------------------------------------------------------
(***************************************************************************)
(* The decoder undoes what the encoder does                                *)
(***************************************************************************)
Decoded(codes) == Decoding(codes)[Len(codes)]

\* What is decoded is within its types.
LEMMA DecodedType == ASSUME NEW codes \in Seq(LineLevel) PROVE Decoded(codes) \in DecodeState
<1> DEFINE d == Decoding(codes)
           n == Len(codes)
<1>1. n \in 0..n /\ d \in [0..n -> DecodeState] BY DecodingRun
<1> HIDE DEF d, n
<1>2. d[n] \in DecodeState BY <1>1
<1> QED BY <1>2 DEF d, n, Decoded

\* Nothing is decoded from nothing.
LEMMA DecodedNone == Decoded(<<>>) = NothingDecoded
<1>1. <<>> \in Seq(LineLevel) /\ Len(<<>>) = 0 OBVIOUS
<1>2. Decoding(<<>>)[0] = NothingDecoded BY <1>1, DecodingRun
<1> QED BY <1>1, <1>2 DEF Decoded

\* One more code is decoded after the others.
LEMMA DecodedAppend ==
    ASSUME NEW codes \in Seq(LineLevel), NEW level \in LineLevel
    PROVE  Decoded(Append(codes, level)) = DecodeLevel(Decoded(codes), level)
<1> DEFINE n == Len(codes)
           longer == Append(codes, level)
           d == Decoding(codes)
           f == Decoding(longer)
<1>1. /\ n \in Nat /\ longer \in Seq(LineLevel) /\ Len(longer) = n + 1 /\ longer[n + 1] = level
      /\ \A k \in 1..n : longer[k] = codes[k]
  OBVIOUS
<1>2. d[0] = NothingDecoded /\ \A k \in 1..n : d[k] = DecodeLevel(d[k - 1], codes[k]) BY DecodingRun
<1>3. f[0] = NothingDecoded /\ \A k \in 1..n + 1 : f[k] = DecodeLevel(f[k - 1], longer[k])
  <2> HIDE DEF longer
  <2> QED BY <1>1, DecodingRun
<1> HIDE DEF d, f, longer, n
<1> DEFINE T == {k \in 0..n : f[k] = d[k]}
<1>4. 0 \in T BY <1>1, <1>2, <1>3
<1>5. ASSUME NEW k \in 1..n, k - 1 \in T PROVE k \in T
  <2>1. k \in 1..n + 1 /\ k \in 0..n BY <1>1
  <2> QED BY <1>1, <1>2, <1>3, <1>5, <2>1
<1>6. f[n] = d[n]
  <2> HIDE DEF T
  <2>1. \A k \in 0..n : k \in T BY <1>1, <1>4, <1>5, UpTo
  <2>2. n \in T BY <1>1, <2>1
  <2> QED BY <2>2 DEF T
<1>7. f[n + 1] = DecodeLevel(d[n], level)
  <2>1. n + 1 \in 1..n + 1 /\ (n + 1) - 1 = n BY <1>1
  <2> QED BY <1>1, <1>3, <1>6, <2>1
<1> QED BY <1>1, <1>7 DEF d, f, longer, n, Decoded

\* Decoded, the codes of a state of the encoder give the bits encoded.
Undone(e, bits) == Decoded(e.codes) = [x |-> e.level, y |-> e.bit_stuffing, bits |-> bits]

\* Encoding and decoding one more bit keeps that.
LEMMA UndoneNext ==
    ASSUME NEW e \in EncodeState, NEW bits \in Seq({0, 1}), Undone(e, bits), NEW bit \in {0, 1}
    PROVE  Undone(EncodeBit(e, bit), Append(bits, bit))
<1> DEFINE d == Decoded(e.codes)
           level == e.level
           left == e.bit_stuffing
           after == EncodeBit(e, bit)
           more == Append(bits, bit)
<1>1. e.codes \in Seq(LineLevel) /\ level \in LineLevel /\ Opposite(level) \in LineLevel /\ Opposite(level) # level
  BY DEF EncodeState, Opposite, LineLevel
<1>2. left \in 1..6 BY DEF EncodeState
<1>3. d = [x |-> level, y |-> left, bits |-> bits] BY DEF Undone
<1>4. SUFFICES Decoded(after.codes) = [x |-> after.level, y |-> after.bit_stuffing, bits |-> more] BY DEF Undone
<1>5. /\ bit = 0 => after = [codes |-> Append(e.codes, Opposite(level)), level |-> Opposite(level), bit_stuffing |-> 6]
      /\ bit = 1 /\ left > 1 =>
           after = [codes |-> Append(e.codes, level), level |-> level, bit_stuffing |-> left - 1]
      /\ bit = 1 /\ left = 1 =>
           after = [codes |-> Append(Append(e.codes, level), Opposite(level)),
                    level |-> Opposite(level), bit_stuffing |-> 6]
  BY EncodeBitIs
<1> HIDE DEF d, level, left, after, more
<1>6. \A code \in LineLevel : Decoded(Append(e.codes, code)) = DecodeLevel(d, code) BY <1>1, DecodedAppend DEF d
<1>7. left # 0 /\ d \in DecodeState /\ d.x = level /\ d.y = left /\ d.bits = bits
  BY <1>1, <1>2, <1>3 DEF DecodeState
<1>8. CASE bit = 0
  <2>1. Decoded(after.codes) = DecodeLevel(d, Opposite(level))
    <3>1. after.codes = Append(e.codes, Opposite(level)) BY <1>5, <1>8
    <3> QED BY <1>1, <1>6, <3>1
  <2>2. DecodeLevel(d, Opposite(level)) = [x |-> Opposite(level), y |-> 6, bits |-> more]
    BY <1>1, <1>7, <1>8, DecodeLevelIs DEF more
  <2>3. after.level = Opposite(level) /\ after.bit_stuffing = 6 BY <1>5, <1>8
  <2> QED BY <2>1, <2>2, <2>3
<1>9. CASE bit = 1 /\ left > 1
  <2>1. Decoded(after.codes) = DecodeLevel(d, level)
    <3>1. after.codes = Append(e.codes, level) BY <1>5, <1>9
    <3> QED BY <1>1, <1>6, <3>1
  <2>2. DecodeLevel(d, level) = [x |-> level, y |-> left - 1, bits |-> more]
    BY <1>7, <1>9, DecodeLevelIs DEF more
  <2>3. after.level = level /\ after.bit_stuffing = left - 1 BY <1>5, <1>9
  <2> QED BY <2>1, <2>2, <2>3
<1>10. CASE bit = 1 /\ left = 1
  <2> DEFINE first == Append(e.codes, level)
             mid == [x |-> level, y |-> 0, bits |-> more]
  <2>1. first \in Seq(LineLevel) BY <1>1
  <2>2. DecodeLevel(d, level) = mid
    <3>1. DecodeLevel(d, level) = [x |-> level, y |-> left - 1, bits |-> more]
      BY <1>7, <1>10, DecodeLevelIs DEF more
    <3>2. left - 1 = 0 BY <1>10
    <3> QED BY <3>1, <3>2
  <2>3. Decoded(first) = mid BY <1>1, <1>6, <2>2
  <2>4. after = [codes |-> Append(first, Opposite(level)), level |-> Opposite(level), bit_stuffing |-> 6] BY <1>5, <1>10
  <2>5. DecodeLevel(mid, Opposite(level)) = [x |-> Opposite(level), y |-> 6, bits |-> more]
    <3>1. more \in Seq({0, 1}) BY DEF more
    <3>2. mid \in DecodeState /\ mid.x = level /\ mid.y = 0 /\ mid.bits = more BY <1>1, <3>1 DEF DecodeState
    <3> HIDE DEF mid
    <3> QED BY <3>2, DecodeLevelIs
  <2> HIDE DEF first, mid
  <2>6. Decoded(Append(first, Opposite(level))) = DecodeLevel(mid, Opposite(level))
    BY <1>1, <2>1, <2>3, DecodedAppend
  <2>7. after.codes = Append(first, Opposite(level)) /\ after.level = Opposite(level) /\ after.bit_stuffing = 6 BY <2>4
  <2> QED BY <2>5, <2>6, <2>7
<1>11. left = 1 \/ left > 1 BY <1>2
<1> QED BY <1>8, <1>9, <1>10, <1>11

\* So decoding an encoding gives back all bits.
LEMMA EncodingUndone ==
    ASSUME NEW bits \in Seq({0, 1})
    PROVE  Decoded(Encoding(bits)[Len(bits)].codes).bits = bits
<1> DEFINE n == Len(bits)
           e == Encoding(bits)
           upto(k) == SubSeq(bits, 1, k)
           T == {k \in 0..n : Undone(e[k], upto(k))}
<1>1. n \in Nat /\ \A k \in 1..n : bits[k] \in {0, 1} /\ k - 1 \in 0..n OBVIOUS
<1>2. /\ \A k \in 0..n : e[k] \in EncodeState
      /\ e[0] = NothingEncoded /\ \A k \in 1..n : e[k] = EncodeBit(e[k - 1], bits[k])
  BY EncodingRun
<1>3. 0 \in T
  <2>1. upto(0) = <<>> OBVIOUS
  <2>2. Undone(e[0], <<>>) BY <1>2, DecodedNone DEF Undone, NothingEncoded, NothingDecoded
  <2>3. 0 \in 0..n BY <1>1
  <2> HIDE DEF e, upto, n
  <2> QED BY <2>1, <2>2, <2>3
<1>4. ASSUME NEW k \in 1..n, k - 1 \in T PROVE k \in T
  <2>1. upto(k - 1) \in Seq({0, 1}) /\ upto(k) \in Seq({0, 1}) /\ Len(upto(k - 1)) = k - 1 /\ Len(upto(k)) = k OBVIOUS
  <2>2. upto(k) = Append(upto(k - 1), bits[k])
    <3> DEFINE a == upto(k)
               b == Append(upto(k - 1), bits[k])
    <3>1. b \in Seq({0, 1}) /\ Len(b) = k BY <1>1, <2>1
    <3>2. ASSUME NEW i \in 1..k PROVE a[i] = b[i]
      <4>1. a[i] = bits[i] OBVIOUS
      <4>2. CASE i = k BY <2>1, <4>1, <4>2
      <4>3. CASE i # k BY <2>1, <4>1, <4>3
      <4> QED BY <4>2, <4>3
    <3> HIDE DEF a, b
    <3>3. a \in Seq({0, 1}) /\ Len(a) = k BY <2>1 DEF a
    <3> QED BY <3>1, <3>2, <3>3, SeqEqual DEF a, b
  <2> HIDE DEF e, upto
  <2>3. Undone(e[k - 1], upto(k - 1)) BY <1>4
  <2>4. Undone(e[k], upto(k)) BY <1>1, <1>2, <2>1, <2>2, <2>3, UndoneNext
  <2> QED BY <2>4
<1>5. Undone(e[n], upto(n))
  <2> HIDE DEF T
  <2>1. \A k \in 0..n : k \in T BY <1>1, <1>3, <1>4, UpTo
  <2>2. n \in T BY <1>1, <2>1
  <2> QED BY <2>2 DEF T
<1>6. upto(n) = bits OBVIOUS
<1> QED BY <1>5, <1>6 DEF Undone
-----------------------------------------------------------------------------
(***************************************************************************)
(* How long an encoding is, and when its level changes                     *)
(***************************************************************************)
\* After k bits of which the first z are zeros: the stuffed bits stand for six ones each.
Stuffed(e, k, z) ==
    /\ k <= z => Len(e.codes) = k /\ e.bit_stuffing = 6
    /\ k >= z => Len(e.codes) >= k /\ 6 * (Len(e.codes) - k) + (6 - e.bit_stuffing) <= k - z

\* The parts of a state of the encoder that count.
LEMMA EncodeCounts ==
    ASSUME NEW e \in EncodeState, NEW bit \in {0, 1}
    PROVE  LET f == EncodeBit(e, bit)
           IN  /\ Len(e.codes) \in Nat /\ e.bit_stuffing \in 1..6
               /\ bit = 0 => Len(f.codes) = Len(e.codes) + 1 /\ f.bit_stuffing = 6
               /\ bit = 1 /\ e.bit_stuffing > 1 =>
                    Len(f.codes) = Len(e.codes) + 1 /\ f.bit_stuffing = e.bit_stuffing - 1
               /\ bit = 1 /\ e.bit_stuffing = 1 => Len(f.codes) = Len(e.codes) + 2 /\ f.bit_stuffing = 6
<1> DEFINE c == e.codes
           level == e.level
           other == Opposite(e.level)
           left == e.bit_stuffing
           f == EncodeBit(e, bit)
<1>1. c \in Seq(LineLevel) /\ level \in LineLevel /\ other \in LineLevel /\ left \in 1..6 BY DEF EncodeState, Opposite, LineLevel
<1>2. /\ bit = 0 => f = [codes |-> Append(c, other), level |-> other, bit_stuffing |-> 6]
      /\ bit = 1 /\ left > 1 => f = [codes |-> Append(c, level), level |-> level, bit_stuffing |-> left - 1]
      /\ bit = 1 /\ left = 1 => f = [codes |-> Append(Append(c, level), other), level |-> other, bit_stuffing |-> 6]
  BY EncodeBitIs
<1> HIDE DEF c, level, other, left, f
<1>3. /\ Len(c) \in Nat /\ Len(Append(c, other)) = Len(c) + 1 /\ Len(Append(c, level)) = Len(c) + 1
      /\ Len(Append(Append(c, level), other)) = Len(c) + 2
  BY <1>1
<1>4. bit = 0 => Len(f.codes) = Len(c) + 1 /\ f.bit_stuffing = 6 BY <1>2, <1>3
<1>5. bit = 1 /\ left > 1 => Len(f.codes) = Len(c) + 1 /\ f.bit_stuffing = left - 1 BY <1>2, <1>3
<1>6. bit = 1 /\ left = 1 => Len(f.codes) = Len(c) + 2 /\ f.bit_stuffing = 6 BY <1>2, <1>3
<1> QED BY <1>1, <1>3, <1>4, <1>5, <1>6 DEF c, left, f

\* Encoding one more bit keeps that count.
LEMMA StuffedNext ==
    ASSUME NEW e \in EncodeState, NEW z \in Nat, NEW k \in Nat \ {0}, Stuffed(e, k - 1, z),
           NEW bit \in {0, 1}, k <= z => bit = 0
    PROVE  Stuffed(EncodeBit(e, bit), k, z)
<1> DEFINE f == EncodeBit(e, bit)
           long == Len(e.codes)
           longer == Len(f.codes)
           left == e.bit_stuffing
           new == f.bit_stuffing
<1>1. /\ long \in Nat /\ left \in 1..6
      /\ bit = 0 => longer = long + 1 /\ new = 6
      /\ bit = 1 /\ left > 1 => longer = long + 1 /\ new = left - 1
      /\ bit = 1 /\ left = 1 => longer = long + 2 /\ new = 6
  BY EncodeCounts
<1>2. /\ k - 1 <= z => long = k - 1 /\ left = 6
      /\ k - 1 >= z => long >= k - 1 /\ 6 * (long - (k - 1)) + (6 - left) <= (k - 1) - z
  BY DEF Stuffed
<1> HIDE DEF long, longer, left, new
<1>3. CASE k <= z
  <2>1. long = k - 1 /\ bit = 0 BY <1>2, <1>3
  <2>2. longer = k /\ new = 6 BY <1>1, <2>1
  <2>3. k >= z => longer >= k /\ 6 * (longer - k) + (6 - new) <= k - z BY <1>3, <2>2
  <2> QED BY <2>2, <2>3 DEF Stuffed, longer, new
<1>4. CASE k > z
  <2>1. long >= k - 1 /\ 6 * (long - (k - 1)) + (6 - left) <= (k - 1) - z BY <1>2, <1>4
  <2>2. longer >= k /\ 6 * (longer - k) + (6 - new) <= k - z
    <3>1. CASE bit = 0 BY <1>1, <1>4, <2>1, <3>1
    <3>2. CASE bit = 1 /\ left > 1 BY <1>1, <1>4, <2>1, <3>2
    <3>3. CASE bit = 1 /\ left = 1 BY <1>1, <1>4, <2>1, <3>3
    <3> QED BY <1>1, <3>1, <3>2, <3>3
  <2> QED BY <1>4, <2>2 DEF Stuffed, longer, new
<1> QED BY <1>3, <1>4

\* Stuffing adds at most a sixth of the bits behind the first zeros.
LEMMA EncodingLength ==
    ASSUME NEW bits \in Seq({0, 1}), NEW z \in 0..Len(bits), \A k \in 1..z : bits[k] = 0
    PROVE  LET long == Len(Encoding(bits)[Len(bits)].codes)
           IN  long \in Nat /\ long >= Len(bits) /\ 6 * (long - Len(bits)) <= Len(bits) - z
<1> DEFINE n == Len(bits)
           e == Encoding(bits)
           T == {k \in 0..n : Stuffed(e[k], k, z)}
<1>1. n \in Nat /\ z \in Nat /\ z <= n /\ \A k \in 1..n : bits[k] \in {0, 1} /\ k - 1 \in 0..n /\ k \in Nat \ {0}
  OBVIOUS
<1>2. /\ \A k \in 0..n : e[k] \in EncodeState
      /\ e[0] = NothingEncoded /\ \A k \in 1..n : e[k] = EncodeBit(e[k - 1], bits[k])
  BY EncodingRun
<1> HIDE DEF n, e
<1>3. 0 \in T
  <2>1. Len(e[0].codes) = 0 /\ e[0].bit_stuffing = 6 BY <1>2 DEF NothingEncoded
  <2>2. Stuffed(e[0], 0, z) BY <1>1, <2>1 DEF Stuffed
  <2> QED BY <1>1, <2>2
<1>4. ASSUME NEW k \in 1..n, k - 1 \in T PROVE k \in T
  <2>1. k <= z => bits[k] = 0 BY <1>1
  <2>2. Stuffed(e[k], k, z) BY <1>1, <1>2, <1>4, <2>1, StuffedNext
  <2> QED BY <2>2
<1>5. Stuffed(e[n], n, z)
  <2> HIDE DEF T
  <2>1. \A k \in 0..n : k \in T BY <1>1, <1>3, <1>4, UpTo
  <2>2. n \in T BY <1>1, <2>1
  <2> QED BY <2>2 DEF T
<1> DEFINE long == Len(e[n].codes)
           left == e[n].bit_stuffing
<1>6. long \in Nat /\ left \in 1..6
  <2>1. e[n] \in EncodeState BY <1>1, <1>2
  <2> QED BY <2>1, EncodeCounts
<1>7. long >= n /\ 6 * (long - n) + (6 - left) <= n - z BY <1>1, <1>5 DEF Stuffed
<1> HIDE DEF long, left
<1>8. 6 * (long - n) <= n - z BY <1>1, <1>6, <1>7
<1> QED BY <1>6, <1>7, <1>8 DEF long, n, e

\* Each code is followed by another one within seven bit times, or will be.
Soon(c, i) == \E k \in 1..7 : i + k <= Len(c) /\ c[i + k] # c[i]
Changing(c, level, left) ==
    \A i \in 1..Len(c) : Soon(c, i) \/ (c[i] = level /\ i + 6 - left >= Len(c))

\* A change that comes soon still does when more is sent.
LEMMA SoonKept ==
    ASSUME NEW c \in Seq(LineLevel), NEW level \in LineLevel, NEW i \in 1..Len(c), Soon(c, i)
    PROVE  Soon(Append(c, level), i)
<1> DEFINE longer == Append(c, level)
           n == Len(c)
<1>1. n \in Nat /\ Len(longer) = n + 1 /\ \A j \in 1..n : longer[j] = c[j] OBVIOUS
<1>2. PICK k \in 1..7 : i + k <= n /\ c[i + k] # c[i] BY DEF Soon
<1> HIDE DEF longer, n
<1>3. i \in 1..n BY DEF n
<1>4. i + k \in 1..n BY <1>1, <1>2, <1>3
<1>5. i + k <= Len(longer) /\ longer[i + k] # longer[i] BY <1>1, <1>2, <1>3, <1>4
<1> QED BY <1>5 DEF Soon, longer

\* The same level once more, while fewer than six ones have gone by.
LEMMA ChangingSame ==
    ASSUME NEW c \in Seq(LineLevel), NEW level \in LineLevel, NEW left \in 1..6, Changing(c, level, left)
    PROVE  Changing(Append(c, level), level, left - 1)
<1> DEFINE longer == Append(c, level)
           n == Len(c)
<1>1. n \in Nat /\ Len(longer) = n + 1 /\ longer[n + 1] = level /\ \A j \in 1..n : longer[j] = c[j] OBVIOUS
<1>2. ASSUME NEW i \in 1..n PROVE Soon(longer, i) \/ (longer[i] = level /\ i + 6 - (left - 1) >= n + 1)
  <2>1. CASE Soon(c, i) BY <2>1, SoonKept
  <2>2. CASE c[i] = level /\ i + 6 - left >= n BY <1>1, <2>2
  <2> QED BY <2>1, <2>2 DEF Changing
<1> HIDE DEF longer, n
<1>3. longer[n + 1] = level /\ (n + 1) + 6 - (left - 1) >= n + 1 BY <1>1
<1>4. ASSUME NEW i \in 1..n + 1 PROVE Soon(longer, i) \/ (longer[i] = level /\ i + 6 - (left - 1) >= n + 1)
  <2>1. CASE i = n + 1 BY <1>3, <2>1
  <2>2. CASE i # n + 1
    <3>1. i \in 1..n BY <1>1, <2>2
    <3> QED BY <1>2, <3>1
  <2> QED BY <2>1, <2>2
<1> QED BY <1>1, <1>4 DEF Changing, longer

\* The other level.
LEMMA ChangingOther ==
    ASSUME NEW c \in Seq(LineLevel), NEW level \in LineLevel, NEW left \in 0..6, Changing(c, level, left),
           NEW other \in LineLevel, other # level
    PROVE  Changing(Append(c, other), other, 6)
<1> DEFINE longer == Append(c, other)
           n == Len(c)
<1>1. n \in Nat /\ Len(longer) = n + 1 /\ longer[n + 1] = other /\ \A j \in 1..n : longer[j] = c[j] OBVIOUS
<1>2. ASSUME NEW i \in 1..n PROVE Soon(longer, i)
  <2>1. CASE Soon(c, i) BY <2>1, SoonKept
  <2>2. CASE c[i] = level /\ i + 6 - left >= n
    <3> HIDE DEF longer, n
    <3> DEFINE k == n + 1 - i
    <3>1. k \in 1..7 /\ i + k = n + 1 BY <1>1, <2>2
    <3> HIDE DEF k
    <3>2. i + k <= Len(longer) /\ longer[i + k] # longer[i] BY <1>1, <2>2, <3>1
    <3> QED BY <3>1, <3>2 DEF Soon
  <2> QED BY <2>1, <2>2 DEF Changing
<1> HIDE DEF longer, n
<1>3. longer[n + 1] = other /\ (n + 1) + 6 - 6 >= n + 1 BY <1>1
<1>4. ASSUME NEW i \in 1..n + 1 PROVE Soon(longer, i) \/ (longer[i] = other /\ i + 6 - 6 >= n + 1)
  <2>1. CASE i = n + 1 BY <1>3, <2>1
  <2>2. CASE i # n + 1
    <3>1. i \in 1..n BY <1>1, <2>2
    <3> QED BY <1>2, <3>1
  <2> QED BY <2>1, <2>2
<1> QED BY <1>1, <1>4 DEF Changing, longer

\* Encoding one more bit keeps the level changing.
LEMMA ChangingNext ==
    ASSUME NEW e \in EncodeState, Changing(e.codes, e.level, e.bit_stuffing), NEW bit \in {0, 1}
    PROVE  LET f == EncodeBit(e, bit) IN Changing(f.codes, f.level, f.bit_stuffing)
<1> DEFINE c == e.codes
           level == e.level
           other == Opposite(e.level)
           left == e.bit_stuffing
           f == EncodeBit(e, bit)
<1>1. c \in Seq(LineLevel) /\ level \in LineLevel /\ other \in LineLevel /\ other # level /\ left \in 1..6 /\ left \in 0..6
  BY DEF EncodeState, Opposite, LineLevel
<1>2. /\ bit = 0 => f = [codes |-> Append(c, other), level |-> other, bit_stuffing |-> 6]
      /\ bit = 1 /\ left > 1 => f = [codes |-> Append(c, level), level |-> level, bit_stuffing |-> left - 1]
      /\ bit = 1 /\ left = 1 => f = [codes |-> Append(Append(c, level), other), level |-> other, bit_stuffing |-> 6]
  BY EncodeBitIs
<1>3. Changing(c, level, left) OBVIOUS
<1> HIDE DEF c, level, other, left, f
<1>4. Changing(Append(c, other), other, 6) BY <1>1, <1>3, ChangingOther
<1>5. Changing(Append(c, level), level, left - 1) BY <1>1, <1>3, ChangingSame
<1>6. left = 1 => Changing(Append(Append(c, level), other), other, 6)
  <2> DEFINE first == Append(c, level)
             less == left - 1
  <2>1. first \in Seq(LineLevel) /\ less \in 0..6 BY <1>1
  <2>2. Changing(first, level, less) BY <1>5
  <2> HIDE DEF first, less
  <2>3. Changing(Append(first, other), other, 6) BY <1>1, <2>1, <2>2, ChangingOther
  <2> QED BY <2>3 DEF first
<1>7. left = 1 \/ left > 1 BY <1>1
<1>8. CASE bit = 0
  <2>1. f.codes = Append(c, other) /\ f.level = other /\ f.bit_stuffing = 6 BY <1>2, <1>8
  <2> QED BY <1>4, <2>1 DEF f
<1>9. CASE bit = 1 /\ left > 1
  <2>1. f.codes = Append(c, level) /\ f.level = level /\ f.bit_stuffing = left - 1 BY <1>2, <1>9
  <2> QED BY <1>5, <2>1 DEF f
<1>10. CASE bit = 1 /\ left = 1
  <2>1. f.codes = Append(Append(c, level), other) /\ f.level = other /\ f.bit_stuffing = 6 BY <1>2, <1>10
  <2> QED BY <1>6, <1>10, <2>1 DEF f
<1> QED BY <1>7, <1>8, <1>9, <1>10

\* In an encoding every code but the last six is followed by another one within seven bit times.
LEMMA EncodingChanges ==
    ASSUME NEW bits \in Seq({0, 1})
    PROVE  LET c == Encoding(bits)[Len(bits)].codes
           IN  c \in Seq(LineLevel) /\ \A i \in 1..Len(c) : Soon(c, i) \/ i + 5 >= Len(c)
<1> DEFINE n == Len(bits)
           e == Encoding(bits)
           T == {k \in 0..n : Changing(e[k].codes, e[k].level, e[k].bit_stuffing)}
<1>1. n \in Nat /\ \A k \in 1..n : bits[k] \in {0, 1} /\ k - 1 \in 0..n OBVIOUS
<1>2. /\ \A k \in 0..n : e[k] \in EncodeState
      /\ e[0] = NothingEncoded /\ \A k \in 1..n : e[k] = EncodeBit(e[k - 1], bits[k])
  BY EncodingRun
<1> HIDE DEF n, e
<1>3. 0 \in T
  <2>1. e[0].codes = <<>> BY <1>2 DEF NothingEncoded
  <2>2. Changing(e[0].codes, e[0].level, e[0].bit_stuffing) BY <2>1 DEF Changing
  <2> QED BY <1>1, <2>2
<1>4. ASSUME NEW k \in 1..n, k - 1 \in T PROVE k \in T
  <2>1. Changing(e[k].codes, e[k].level, e[k].bit_stuffing)
    <3>1. e[k - 1] \in EncodeState /\ e[k] = EncodeBit(e[k - 1], bits[k]) /\ bits[k] \in {0, 1} BY <1>1, <1>2
    <3>2. Changing(e[k - 1].codes, e[k - 1].level, e[k - 1].bit_stuffing) BY <1>4
    <3> QED BY <3>1, <3>2, ChangingNext
  <2> QED BY <2>1
<1>5. Changing(e[n].codes, e[n].level, e[n].bit_stuffing)
  <2> HIDE DEF T
  <2>1. \A k \in 0..n : k \in T BY <1>1, <1>3, <1>4, UpTo
  <2>2. n \in T BY <1>1, <2>1
  <2> QED BY <2>2 DEF T
<1> DEFINE c == e[n].codes
           left == e[n].bit_stuffing
<1>6. c \in Seq(LineLevel) /\ left \in 1..6 /\ Changing(c, e[n].level, left)
  <2>1. e[n] \in EncodeState BY <1>1, <1>2
  <2> QED BY <1>5, <2>1 DEF EncodeState
<1> HIDE DEF c, left
<1>7. ASSUME NEW i \in 1..Len(c) PROVE Soon(c, i) \/ i + 5 >= Len(c)
  <2>1. Len(c) \in Nat BY <1>6
  <2>2. Soon(c, i) \/ i + 6 - left >= Len(c) BY <1>6 DEF Changing
  <2> DEFINE long == Len(c)
  <2> HIDE DEF long
  <2>3. i + 6 - left >= long => i + 5 >= long BY <1>6, <2>1 DEF long
  <2> QED BY <2>2, <2>3 DEF long
<1> QED BY <1>6, <1>7 DEF c, e, n
-----------------------------------------------------------------------------
(***************************************************************************)
(* Bytes and bits                                                          *)
(***************************************************************************)
LEMMA BitIs ==
    ASSUME NEW x \in Byte
    PROVE  /\ BitOf(x, 0) = x % 2 /\ BitOf(x, 1) = (x \div 2) % 2 /\ BitOf(x, 2) = (x \div 4) % 2
           /\ BitOf(x, 3) = (x \div 8) % 2 /\ BitOf(x, 4) = (x \div 16) % 2 /\ BitOf(x, 5) = (x \div 32) % 2
           /\ BitOf(x, 6) = (x \div 64) % 2 /\ BitOf(x, 7) = (x \div 128) % 2
<1>1. x \in Nat BY DEF Byte
<1>2. x \div 1 = x BY <1>1
<1> QED BY <1>1, <1>2 DEF BitOf, Weight

\* A bit is 0 or 1.
LEMMA BitType == ASSUME NEW x \in Byte, NEW b \in 0..7 PROVE BitOf(x, b) \in {0, 1}
<1>1. x \in Nat BY DEF Byte
<1>2. b \in {0, 1, 2, 3, 4, 5, 6, 7} OBVIOUS
<1>3. \A y \in Nat : y % 2 \in {0, 1} OBVIOUS
<1>4. /\ x \div 2 \in Nat /\ x \div 4 \in Nat /\ x \div 8 \in Nat /\ x \div 16 \in Nat
      /\ x \div 32 \in Nat /\ x \div 64 \in Nat /\ x \div 128 \in Nat
  BY <1>1
<1> QED BY <1>1, <1>2, <1>3, <1>4, BitIs

\* A byte is the sum of its bits.
LEMMA BitsMakeByte ==
    ASSUME NEW x \in Byte
    PROVE  BitOf(x, 0) + 2 * BitOf(x, 1) + 4 * BitOf(x, 2) + 8 * BitOf(x, 3) + 16 * BitOf(x, 4)
           + 32 * BitOf(x, 5) + 64 * BitOf(x, 6) + 128 * BitOf(x, 7) = x
<1> DEFINE q1 == x \div 2
           q2 == x \div 4
           q3 == x \div 8
           q4 == x \div 16
           q5 == x \div 32
           q6 == x \div 64
           q7 == x \div 128
<1>1. x \in Nat /\ x <= 255 BY DEF Byte
<1>2. /\ q1 \in Nat /\ q2 \in Nat /\ q3 \in Nat /\ q4 \in Nat /\ q5 \in Nat /\ q6 \in Nat /\ q7 \in Nat
      /\ q2 = q1 \div 2 /\ q3 = q2 \div 2 /\ q4 = q3 \div 2 /\ q5 = q4 \div 2 /\ q6 = q5 \div 2 /\ q7 = q6 \div 2
      /\ q7 <= 1
  BY <1>1
<1>3. /\ BitOf(x, 0) = x % 2 /\ BitOf(x, 1) = q1 % 2 /\ BitOf(x, 2) = q2 % 2 /\ BitOf(x, 3) = q3 % 2
      /\ BitOf(x, 4) = q4 % 2 /\ BitOf(x, 5) = q5 % 2 /\ BitOf(x, 6) = q6 % 2 /\ BitOf(x, 7) = q7 % 2
  BY BitIs
<1>4. x = 2 * q1 + BitOf(x, 0) BY <1>1, <1>3
<1> HIDE DEF q1, q2, q3, q4, q5, q6, q7
<1>5. \A y \in Nat : y = 2 * (y \div 2) + (y % 2) OBVIOUS
<1>6. /\ q1 = 2 * q2 + BitOf(x, 1) /\ q2 = 2 * q3 + BitOf(x, 2) /\ q3 = 2 * q4 + BitOf(x, 3)
      /\ q4 = 2 * q5 + BitOf(x, 4) /\ q5 = 2 * q6 + BitOf(x, 5) /\ q6 = 2 * q7 + BitOf(x, 6)
  BY <1>2, <1>3, <1>5
<1>7. q7 = BitOf(x, 7) BY <1>2, <1>3
<1> DEFINE b0 == BitOf(x, 0)
           b1 == BitOf(x, 1)
           b2 == BitOf(x, 2)
           b3 == BitOf(x, 3)
           b4 == BitOf(x, 4)
           b5 == BitOf(x, 5)
           b6 == BitOf(x, 6)
           b7 == BitOf(x, 7)
<1>8. /\ b0 \in {0, 1} /\ b1 \in {0, 1} /\ b2 \in {0, 1} /\ b3 \in {0, 1}
      /\ b4 \in {0, 1} /\ b5 \in {0, 1} /\ b6 \in {0, 1} /\ b7 \in {0, 1}
  BY BitType
<1>9. b0 \in Int /\ b1 \in Int /\ b2 \in Int /\ b3 \in Int /\ b4 \in Int /\ b5 \in Int /\ b6 \in Int /\ b7 \in Int
  BY <1>8
<1> HIDE DEF b0, b1, b2, b3, b4, b5, b6, b7
<1>10. b0 + 2 * b1 + 4 * b2 + 8 * b3 + 16 * b4 + 32 * b5 + 64 * b6 + 128 * b7 = x
  <2>1. /\ x = 2 * q1 + b0 /\ q1 = 2 * q2 + b1 /\ q2 = 2 * q3 + b2 /\ q3 = 2 * q4 + b3
        /\ q4 = 2 * q5 + b4 /\ q5 = 2 * q6 + b5 /\ q6 = 2 * q7 + b6 /\ q7 = b7
    BY <1>4, <1>6, <1>7 DEF b0, b1, b2, b3, b4, b5, b6, b7
  <2>2. q1 \in Int /\ q2 \in Int /\ q3 \in Int /\ q4 \in Int /\ q5 \in Int /\ q6 \in Int BY <1>2
  <2>3. q4 = b4 + 2 * b5 + 4 * b6 + 8 * b7 BY <1>9, <2>1, <2>2
  <2>4. x = b0 + 2 * b1 + 4 * b2 + 8 * b3 + 16 * q4 BY <1>9, <2>1, <2>2
  <2> QED BY <1>9, <2>3, <2>4
<1> QED BY <1>10 DEF b0, b1, b2, b3, b4, b5, b6, b7

\* The bits of a packet, byte by byte.
LEMMA BitsType ==
    ASSUME NEW bytes \in Seq(Byte)
    PROVE  /\ BitsOf(bytes) \in Seq({0, 1}) /\ Len(BitsOf(bytes)) = 8 * Len(bytes)
           /\ \A n \in 1..Len(bytes), b \in 0..7 : BitsOf(bytes)[8 * n - 7 + b] = BitOf(bytes[n], b)
<1> DEFINE m == Len(bytes)
           bits == BitsOf(bytes)
<1>1. m \in Nat /\ 8 * m \in Nat /\ \A n \in 1..m : bytes[n] \in Byte OBVIOUS
<1> HIDE DEF m
<1>2. bits = [n \in 1..8 * m |-> BitOf(bytes[(n - 1) \div 8 + 1], (n - 1) % 8)] BY DEF BitsOf, m
<1>3. ASSUME NEW k \in 1..8 * m PROVE BitOf(bytes[(k - 1) \div 8 + 1], (k - 1) % 8) \in {0, 1}
  <2> DEFINE n == (k - 1) \div 8 + 1
             b == (k - 1) % 8
  <2>1. n \in 1..m /\ b \in 0..7 BY <1>1
  <2> HIDE DEF n, b
  <2>2. bytes[n] \in Byte BY <1>1, <2>1
  <2>3. BitOf(bytes[n], b) \in {0, 1} BY <2>1, <2>2, BitType
  <2> QED BY <2>3 DEF n, b
<1>4. bits \in [1..8 * m -> {0, 1}]
  <2> HIDE DEF bits
  <2> QED BY <1>2, <1>3
<1>5. bits \in Seq({0, 1}) /\ Len(bits) = 8 * m
  <2> DEFINE long == 8 * m
  <2>1. long \in Nat /\ bits \in [1..long -> {0, 1}] BY <1>1, <1>4
  <2> HIDE DEF long, bits
  <2> QED BY <2>1 DEF long
<1>6. ASSUME NEW n \in 1..m, NEW b \in 0..7 PROVE bits[8 * n - 7 + b] = BitOf(bytes[n], b)
  <2> DEFINE k == 8 * n - 7 + b
  <2>1. k \in 1..8 * m /\ (k - 1) \div 8 + 1 = n /\ (k - 1) % 8 = b BY <1>1
  <2> HIDE DEF k, bits
  <2>2. bits[k] = BitOf(bytes[(k - 1) \div 8 + 1], (k - 1) % 8) BY <1>2, <2>1
  <2> QED BY <2>1, <2>2 DEF k
<1> QED BY <1>5, <1>6 DEF m
-----------------------------------------------------------------------------
(***************************************************************************)
(* A packet on the wire                                                    *)
(***************************************************************************)
CodesOf(bytes) == Encoding(BitsOf(bytes))[8 * Len(bytes)].codes

\* The codes of some bytes, before the end of packet, are levels that decode to their bits.
LEMMA CodesType ==
    ASSUME NEW bytes \in Seq(Byte)
    PROVE  /\ CodesOf(bytes) \in Seq(LineLevel) /\ CodesOf(bytes) = Encoding(BitsOf(bytes))[Len(BitsOf(bytes))].codes
           /\ Decoded(CodesOf(bytes)).bits = BitsOf(bytes)
<1> DEFINE bits == BitsOf(bytes)
<1>1. bits \in Seq({0, 1}) /\ Len(bits) = 8 * Len(bytes) BY BitsType
<1>2. CodesOf(bytes) = Encoding(bits)[Len(bits)].codes BY <1>1 DEF CodesOf
<1> HIDE DEF bits
<1>3. Encoding(bits)[Len(bits)].codes \in Seq(LineLevel) BY <1>1, EncodingChanges
<1>4. Decoded(Encoding(bits)[Len(bits)].codes).bits = bits BY <1>1, EncodingUndone
<1> QED BY <1>2, <1>3, <1>4 DEF bits

\* The codes, the end of the packet, and at least one K up to the end of a byte.
Code == {"J", "K", "SE0", "COMP"}

\* An encoded packet: the levels of its bits, SE0, COMP, and one to four Ks.
LEMMA EncodedShape ==
    ASSUME NEW bytes \in Seq(Byte)
    PROVE  LET out == pio_usb_ll_encode_tx_data(bytes)
               c == CodesOf(bytes)
               n == Len(c)
               p == 4 - ((n + 2) % 4)
           IN  /\ n \in Nat /\ p \in 1..4
               /\ out \in Seq(Code) /\ Len(out) = n + 2 + p /\ DOMAIN out = 1..n + 2 + p
               /\ \A i \in 1..n : out[i] = c[i]
               /\ out[n + 1] = "SE0" /\ out[n + 2] = "COMP"
               /\ \A i \in n + 3..n + 2 + p : out[i] = "K"
<1> DEFINE c == CodesOf(bytes)
           n == Len(c)
           p == 4 - ((n + 2) % 4)
           end == <<"SE0", "COMP">>
           ended == c \o end
           pad == Padding(n + 2)
           out == ended \o pad
<1>1. c \in Seq(LineLevel) BY CodesType
<1>2. c \in Seq(Code) /\ n \in Nat
  <2> HIDE DEF c
  <2>1. DOMAIN c = 1..Len(c) /\ \A i \in 1..Len(c) : c[i] \in Code BY <1>1 DEF LineLevel, Code
  <2> QED BY <1>1, <2>1
<1>3. end \in Seq(Code) /\ Len(end) = 2 /\ end[1] = "SE0" /\ end[2] = "COMP" BY DEF Code
<1> HIDE DEF c, end, n
<1>4. /\ ended \in Seq(Code) /\ Len(ended) = n + 2 /\ \A i \in 1..n : ended[i] = c[i]
      /\ ended[n + 1] = "SE0" /\ ended[n + 2] = "COMP"
  <2>1. /\ ended \in Seq(Code) /\ Len(ended) = Len(c) + Len(end)
        /\ \A i \in 1..Len(c) + Len(end) : ended[i] = IF i <= Len(c) THEN c[i] ELSE end[i - Len(c)]
    BY <1>2, <1>3, ConcatProperties
  <2> HIDE DEF ended
  <2>2. Len(c) = n BY DEF n
  <2>3. \A i \in 1..n : ended[i] = c[i] BY <1>2, <1>3, <2>1, <2>2
  <2>4. ended[n + 1] = end[1]
    <3>1. n + 1 \in 1..n + 2 /\ ~(n + 1 <= n) /\ (n + 1) - n = 1 BY <1>2
    <3> QED BY <1>3, <2>1, <2>2, <3>1
  <2>5. ended[n + 2] = end[2]
    <3>1. n + 2 \in 1..n + 2 /\ ~(n + 2 <= n) /\ (n + 2) - n = 2 BY <1>2
    <3> QED BY <1>3, <2>1, <2>2, <3>1
  <2> QED BY <1>3, <2>1, <2>2, <2>3, <2>4, <2>5
<1>5. p \in 1..4 BY <1>2
<1>6. pad \in Seq(Code) /\ Len(pad) = p /\ \A i \in 1..p : pad[i] = "K"
  <2>1. pad = [k \in 1..p |-> "K"] BY DEF Padding
  <2> HIDE DEF p, pad
  <2>2. pad \in [1..p -> Code] BY <2>1 DEF Code
  <2> QED BY <1>5, <2>1, <2>2
<1>7. pio_usb_ll_encode_tx_data(bytes) = out
  <2>1. pio_usb_ll_encode_tx_data(bytes) = ended \o Padding(Len(ended))
    BY DEF pio_usb_ll_encode_tx_data, CodesOf, c, end
  <2> QED BY <1>4, <2>1
<1> HIDE DEF ended, pad, p
<1>8. /\ Len(out) = (n + 2) + p
      /\ \A i \in 1..n + 2 : out[i] = ended[i]
      /\ \A i \in 1..p : out[(n + 2) + i] = pad[i]
  <2>1. /\ out \in Seq(Code) /\ Len(out) = Len(ended) + Len(pad)
        /\ \A i \in 1..Len(ended) + Len(pad) :
              out[i] = IF i <= Len(ended) THEN ended[i] ELSE pad[i - Len(ended)]
    BY <1>4, <1>6, ConcatProperties
  <2> HIDE DEF out
  <2> DEFINE l == Len(ended)
  <2>2. l = n + 2 /\ l \in Nat BY <1>2, <1>4
  <2> HIDE DEF l
  <2>3. \A i \in 1..l + p : out[i] = IF i <= l THEN ended[i] ELSE pad[i - l] BY <1>6, <2>1 DEF l
  <2>4. \A i \in 1..l : out[i] = ended[i] BY <1>5, <2>2, <2>3
  <2>5. ASSUME NEW i \in 1..p PROVE out[l + i] = pad[i]
    <3>1. l + i \in 1..l + p /\ ~(l + i <= l) /\ (l + i) - l = i BY <1>5, <2>2
    <3> QED BY <2>3, <3>1
  <2>6. Len(out) = l + p BY <1>6, <2>1 DEF l
  <2> QED BY <2>2, <2>4, <2>5, <2>6
<1> HIDE DEF out
<1>9. out \in Seq(Code) /\ DOMAIN out = 1..n + 2 + p
  <2>1. out \in Seq(Code) BY <1>4, <1>6, ConcatProperties DEF out
  <2>2. DOMAIN out = 1..Len(out) BY <2>1
  <2> QED BY <1>8, <2>1, <2>2
<1>10. ASSUME NEW i \in n + 3..n + 2 + p PROVE out[i] = "K"
  <2> DEFINE j == i - (n + 2)
  <2>1. j \in 1..p /\ (n + 2) + j = i BY <1>2, <1>5
  <2> HIDE DEF j
  <2> QED BY <1>6, <1>8, <2>1
<1>11. out[n + 1] = "SE0" /\ out[n + 2] = "COMP" /\ \A i \in 1..n : out[i] = c[i]
  <2>1. n + 1 \in 1..n + 2 /\ n + 2 \in 1..n + 2 /\ \A i \in 1..n : i \in 1..n + 2 BY <1>2
  <2> QED BY <1>4, <1>8, <2>1
<1> QED BY <1>2, <1>5, <1>7, <1>8, <1>9, <1>10, <1>11 DEF p, c, n

\* What a packet that arrives as it was sent is decoded to: what was sent.
LEMMA SampledIs ==
    ASSUME NEW bytes \in Seq(Byte), wire = pio_usb_ll_encode_tx_data(bytes)
    PROVE  EndOfPacket /\ Sampled = CodesOf(bytes)
<1> DEFINE c == CodesOf(bytes)
           n == Len(c)
           p == 4 - ((n + 2) % 4)
           ends == {i \in 1..Len(wire) : wire[i] = "SE0"}
<1>1. /\ n \in Nat /\ p \in 1..4 /\ Len(wire) = n + 2 + p /\ DOMAIN wire = 1..n + 2 + p
      /\ \A i \in 1..n : wire[i] = c[i]
      /\ wire[n + 1] = "SE0" /\ wire[n + 2] = "COMP" /\ \A i \in n + 3..n + 2 + p : wire[i] = "K"
  BY EncodedShape
<1>2. c \in Seq(LineLevel) BY CodesType
<1> HIDE DEF c, p
<1>3. \A i \in 1..n : c[i] # "SE0" BY <1>2 DEF LineLevel
<1> HIDE DEF n
<1>4. n + 1 \in 1..n + 2 + p BY <1>1
<1>5. ends = {n + 1}
  <2>1. n + 1 \in ends BY <1>1, <1>4
  <2>2. ASSUME NEW i \in 1..n + 2 + p, wire[i] = "SE0" PROVE i = n + 1
    <3>1. i \in 1..n \/ i = n + 1 \/ i = n + 2 \/ i \in n + 3..n + 2 + p BY <1>1
    <3>2. i \notin 1..n BY <1>1, <1>3, <2>2
    <3>3. i # n + 2 BY <1>1, <2>2
    <3>4. i \notin n + 3..n + 2 + p BY <1>1, <2>2
    <3> QED BY <3>1, <3>2, <3>3, <3>4
  <2> QED BY <1>1, <2>1, <2>2
<1>6. EndOfPacket BY <1>1, <1>4 DEF EndOfPacket, Range
<1>7. SelectInSeq(wire, LAMBDA code : code = "SE0") = n + 1
  <2>1. Min({n + 1}) = n + 1 BY <1>1 DEF Min
  <2> QED BY <1>5, <2>1 DEF SelectInSeq
<1>8. Sampled = SubSeq(wire, 1, n)
  <2>1. (n + 1) - 1 = n BY <1>1
  <2> QED BY <1>6, <1>7, <2>1 DEF Sampled
<1>9. SubSeq(wire, 1, n) = c
  <2>1. SubSeq(wire, 1, n) = [i \in 1..n |-> wire[i]] BY <1>1
  <2>2. c = [i \in 1..n |-> c[i]] BY <1>2 DEF n
  <2> QED BY <1>1, <2>1, <2>2
<1> QED BY <1>6, <1>8, <1>9 DEF c

\* So the bytes received are the bytes sent.
LEMMA SoundBytes ==
    ASSUME NEW bytes \in Seq(Byte), wire = pio_usb_ll_encode_tx_data(bytes)
    PROVE  Bytes = bytes
<1> DEFINE m == Len(bytes)
           bits == BitsOf(bytes)
<1>1. m \in Nat /\ \A n \in 1..m : bytes[n] \in Byte OBVIOUS
<1>2. /\ bits \in Seq({0, 1}) /\ Len(bits) = 8 * m
      /\ \A n \in 1..m, b \in 0..7 : bits[8 * n - 7 + b] = BitOf(bytes[n], b)
  BY BitsType
<1>3. Decoding(Sampled)[Len(Sampled)].bits = bits BY SampledIs, CodesType DEF Decoded
<1> HIDE DEF bits
<1>4. Bytes = [n \in 1..Len(bits) \div 8 |-> ByteOf(SubSeq(bits, 8 * n - 7, 8 * n))] BY <1>3 DEF Bytes
<1>5. Len(bits) \div 8 = m BY <1>1, <1>2
<1> HIDE DEF m
<1>6. ASSUME NEW n \in 1..m PROVE ByteOf(SubSeq(bits, 8 * n - 7, 8 * n)) = bytes[n]
  <2> DEFINE from == 8 * n - 7
             part == SubSeq(bits, 8 * n - 7, 8 * n)
             x == bytes[n]
  <2>1. from \in 1..8 * m + 1 /\ 8 * n \in 0..8 * m /\ 8 * n - from + 1 = 8 /\ from \in Nat BY <1>1
  <2>2. \A i \in 1..8 : part[i] = bits[from + i - 1]
    <3> DEFINE to == 8 * n
               long == 8 * m
    <3>1. /\ from \in 1..long + 1 /\ to \in 0..long /\ Len(bits) = long /\ long \in Nat
          /\ from \in Nat /\ to \in Nat /\ to = from + 7
      BY <1>1, <1>2, <2>1
    <3> HIDE DEF from, to, long
    <3>2. part = SubSeq(bits, from, to) BY DEF from, to
    <3>3. SubSeq(bits, from, to) = [i \in 1..8 |-> bits[from + i - 1]]
      <4>1. SubSeq(bits, from, to) = [i \in 1..(1 + to - from) |-> bits[from + i - 1]]
        BY <1>2, <3>1, SubSeqProperties
      <4>2. 1 + to - from = 8
        <5>1. from \in Nat /\ to = from + 7 BY <3>1
        <5> QED BY <5>1
      <4> QED BY <4>1, <4>2
    <3> HIDE DEF part
    <3> QED BY <3>2, <3>3
  <2>3. ASSUME NEW i \in 1..8 PROVE part[i] = BitOf(x, i - 1)
    <3>1. i - 1 \in 0..7 /\ from + i - 1 = 8 * n - 7 + (i - 1) BY <1>1
    <3>2. part[i] = bits[8 * n - 7 + (i - 1)] BY <2>2, <3>1
    <3> HIDE DEF part
    <3> QED BY <1>2, <3>1, <3>2
  <2> HIDE DEF part, x
  <2>4. /\ part[1] = BitOf(x, 0) /\ part[2] = BitOf(x, 1) /\ part[3] = BitOf(x, 2) /\ part[4] = BitOf(x, 3)
        /\ part[5] = BitOf(x, 4) /\ part[6] = BitOf(x, 5) /\ part[7] = BitOf(x, 6) /\ part[8] = BitOf(x, 7)
    <3>1. 1 - 1 = 0 /\ 2 - 1 = 1 /\ 3 - 1 = 2 /\ 4 - 1 = 3 /\ 5 - 1 = 4 /\ 6 - 1 = 5 /\ 7 - 1 = 6 /\ 8 - 1 = 7 OBVIOUS
    <3>2. 1 \in 1..8 /\ 2 \in 1..8 /\ 3 \in 1..8 /\ 4 \in 1..8 /\ 5 \in 1..8 /\ 6 \in 1..8 /\ 7 \in 1..8 /\ 8 \in 1..8
      OBVIOUS
    <3> QED BY <2>3, <3>1, <3>2
  <2>5. x \in Byte BY <1>1 DEF x
  <2>6. ByteOf(part) = x BY <2>4, <2>5, BitsMakeByte DEF ByteOf
  <2> QED BY <2>6 DEF part, x
<1>7. bytes = [n \in 1..m |-> bytes[n]] BY DEF m
<1> QED BY <1>4, <1>5, <1>6, <1>7

-----------------------------------------------------------------------------
(***************************************************************************)
(* The receiver's comparison matches the sender's sum                      *)
(***************************************************************************)
\* crc_receive, which was r, after two more bytes.
Received(r, lo, hi) == (((r \div 256) + lo * 256) \div 256) + hi * 256

\* The two bytes of a word make the word.
LEMMA SumBytes ==
    ASSUME NEW sum \in Word16
    PROVE  /\ sum % 256 \in Byte /\ sum \div 256 \in Byte
           /\ \A r \in Word16 : Received(r, sum % 256, sum \div 256) = sum
<1>1. sum \in Nat /\ sum <= 65535 BY Word16Is
<1> DEFINE lo == sum % 256
           hi == sum \div 256
<1>2. lo \in 0..255 /\ hi \in 0..255 /\ lo + hi * 256 = sum BY <1>1
<1> HIDE DEF lo, hi
<1>3. ASSUME NEW r \in Word16 PROVE Received(r, lo, hi) = sum
  <2>1. r \in Nat /\ r <= 65535 BY Word16Is
  <2> DEFINE high == r \div 256
  <2>2. high \in 0..255 BY <2>1
  <2> HIDE DEF high
  <2>3. (high + lo * 256) \div 256 = lo BY <1>2, <2>2
  <2> QED BY <1>2, <2>3 DEF high, Received
<1>4. lo \in Byte /\ hi \in Byte BY <1>2 DEF Byte
<1> QED BY <1>3, <1>4 DEF lo, hi

\* The sum of a packet's data, after the data.
Summed(payload) ==
    LET crc16 == calc_usb_crc16(payload)
    IN  payload \o <<crc16 % 256, crc16 \div 256>>

\* The sum is the complement of the CRC after all of the data.
LEMMA SumType ==
    ASSUME NEW payload \in Seq(Byte)
    PROVE  /\ calc_usb_crc16(payload) \in Word16
           /\ Updated(payload)[Len(payload)] \in Word16
           /\ calc_usb_crc16(payload) = 65535 - Updated(payload)[Len(payload)]
<1> DEFINE m == Len(payload)
           u == Updated(payload)
<1>1. m \in 0..m /\ u \in [0..m -> Word16] BY CrcRun
<1> HIDE DEF u, m
<1> DEFINE last == u[m]
<1>2. last \in Word16 BY <1>1
<1>3. calc_usb_crc16(payload) = 65535 - last BY DEF calc_usb_crc16, u, m
<1> HIDE DEF last
<1>4. last \in Nat /\ last <= 65535 BY <1>2, Word16Is
<1>5. 65535 - last \in Nat /\ 65535 - last <= 65535 BY <1>4
<1>6. calc_usb_crc16(payload) \in Word16 BY <1>3, <1>5, Word16Is
<1> QED BY <1>2, <1>3, <1>6 DEF last, u, m

\* Where the bytes of data and sum are.
LEMMA SummedShape ==
    ASSUME NEW payload \in Seq(Byte)
    PROVE  /\ Summed(payload) \in Seq(Byte) /\ Len(Summed(payload)) = Len(payload) + 2
           /\ \A k \in 1..Len(payload) : Summed(payload)[k] = payload[k]
           /\ Summed(payload)[Len(payload) + 1] = calc_usb_crc16(payload) % 256
           /\ Summed(payload)[Len(payload) + 2] = calc_usb_crc16(payload) \div 256
<1> DEFINE sum == calc_usb_crc16(payload)
           two == <<sum % 256, sum \div 256>>
           m == Len(payload)
           data == payload \o two
<1>1. sum \in Word16 BY SumType
<1> HIDE DEF sum
<1>2. sum % 256 \in Byte /\ sum \div 256 \in Byte BY <1>1, SumBytes
<1>3. two \in Seq(Byte) /\ Len(two) = 2 /\ two[1] = sum % 256 /\ two[2] = sum \div 256 BY <1>2
<1> HIDE DEF two
<1>4. /\ data \in Seq(Byte) /\ Len(data) = Len(payload) + Len(two)
      /\ \A i \in 1..Len(payload) + Len(two) : data[i] = IF i <= Len(payload) THEN payload[i] ELSE two[i - Len(payload)]
  BY <1>3, ConcatProperties
<1>5. Summed(payload) = data BY DEF Summed, data, two, sum
<1> HIDE DEF data
<1>6. m \in Nat BY DEF m
<1>7. Len(data) = m + 2 /\ \A i \in 1..m + 2 : data[i] = IF i <= m THEN payload[i] ELSE two[i - m] BY <1>3, <1>4 DEF m
<1> HIDE DEF m
<1>8. \A k \in 1..m : data[k] = payload[k] BY <1>6, <1>7
<1>9. data[m + 1] = two[1] /\ data[m + 2] = two[2]
  <2>1. m + 1 \in 1..m + 2 /\ ~(m + 1 <= m) /\ (m + 1) - m = 1 BY <1>6
  <2>2. m + 2 \in 1..m + 2 /\ ~(m + 2 <= m) /\ (m + 2) - m = 2 BY <1>6
  <2> QED BY <1>7, <2>1, <2>2
<1> QED BY <1>3, <1>4, <1>5, <1>7, <1>8, <1>9 DEF m, sum

\* One more byte, written out.
LEMMA TakeByteIs ==
    ASSUME NEW c \in CheckState, NEW data \in Byte
    PROVE  /\ TakeByte(c, data).crc = update_usb_crc16(c.crc, data)
           /\ TakeByte(c, data).crc_prev = c.crc
           /\ TakeByte(c, data).crc_receive = (c.crc_receive \div 256) + data * 256
           /\ 65535 - ((c.crc_receive \div 256) + data * 256) = c.crc_prev => TakeByte(c, data).crc_match
<1> DEFINE got == (c.crc_receive \div 256) + data * 256
<1>1. TakeByte(c, data) = [crc |-> update_usb_crc16(c.crc, data), crc_prev |-> c.crc, crc_prev2 |-> c.crc_prev,
                           crc_receive |-> got, crc_match |-> 65535 - got = c.crc_prev]
  BY DEF TakeByte
<1> HIDE DEF got
<1>2. /\ TakeByte(c, data).crc = update_usb_crc16(c.crc, data)
      /\ TakeByte(c, data).crc_prev = c.crc
      /\ TakeByte(c, data).crc_receive = got
  BY <1>1
<1>3. ASSUME 65535 - got = c.crc_prev PROVE TakeByte(c, data).crc_match
  <2> DEFINE good == 65535 - got = c.crc_prev
  <2>1. good = TRUE BY <1>3
  <2>2. TakeByte(c, data).crc_match = good BY <1>1
  <2> HIDE DEF good
  <2> QED BY <2>1, <2>2
<1> QED BY <1>2, <1>3 DEF got

\* The receiver, which compares each two bytes with the CRC of what precedes them, finds the sum.
LEMMA SumMatches ==
    ASSUME NEW payload \in Seq(Byte)
    PROVE  Taking(Summed(payload))[Len(Summed(payload))].crc_match
<1> DEFINE m == Len(payload)
           data == Summed(payload)
           u == Updated(payload)
           t == Taking(data)
           sum == calc_usb_crc16(payload)
           lo == sum % 256
           hi == sum \div 256
<1>1. m \in Nat /\ \A k \in 1..m : payload[k] \in Byte /\ k - 1 \in 0..m OBVIOUS
<1>2. /\ data \in Seq(Byte) /\ Len(data) = m + 2 /\ \A k \in 1..m : data[k] = payload[k]
      /\ data[m + 1] = lo /\ data[m + 2] = hi
  BY SummedShape
<1>3. u[0] = NoCrc /\ \A k \in 1..m : u[k] = update_usb_crc16(u[k - 1], payload[k]) BY CrcRun
<1> HIDE DEF data, u
<1>4. /\ t \in [0..m + 2 -> CheckState] /\ t[0] = NothingTaken
      /\ \A k \in 1..m + 2 : t[k] = TakeByte(t[k - 1], data[k])
  BY <1>2, CheckRun
<1>5. sum \in Word16 /\ u[m] \in Word16 /\ sum = 65535 - u[m] BY SumType DEF u
<1> HIDE DEF t, m, sum
<1>6. lo \in Byte /\ hi \in Byte /\ \A r \in Word16 : Received(r, lo, hi) = sum BY <1>5, SumBytes
<1> HIDE DEF lo, hi
<1> DEFINE T == {k \in 0..m : t[k].crc = u[k]}
<1>7. t[m].crc = u[m]
  <2>1. 0 \in T
    <3>1. t[0].crc = u[0] BY <1>3, <1>4 DEF NothingTaken, NoCrc
    <3>2. 0 \in 0..m BY <1>1
    <3> QED BY <3>1, <3>2
  <2>2. ASSUME NEW k \in 1..m, k - 1 \in T PROVE k \in T
    <3>1. k \in 1..m + 2 /\ k - 1 \in 0..m + 2 /\ k \in 0..m BY <1>1
    <3>2. t[k - 1] \in CheckState BY <1>4, <3>1
    <3>3. t[k] = TakeByte(t[k - 1], payload[k]) BY <1>2, <1>4, <3>1
    <3>4. t[k].crc = update_usb_crc16(t[k - 1].crc, payload[k]) BY <1>1, <3>2, <3>3, TakeByteIs
    <3>5. t[k - 1].crc = u[k - 1] BY <2>2
    <3> QED BY <1>3, <3>1, <3>4, <3>5
  <2> HIDE DEF T
  <2>3. \A k \in 0..m : k \in T BY <1>1, <2>1, <2>2, UpTo
  <2>4. m \in T BY <1>1, <2>3
  <2> QED BY <2>4 DEF T
<1> HIDE DEF T
<1>8. m + 1 \in 1..m + 2 /\ m + 2 \in 1..m + 2 /\ (m + 1) - 1 = m /\ (m + 2) - 1 = m + 1 /\ m \in 0..m + 2 /\ m + 1 \in 0..m + 2
  BY <1>1
<1>9. t[m] \in CheckState /\ t[m + 1] \in CheckState BY <1>4, <1>8
<1>10. t[m + 1] = TakeByte(t[m], lo) /\ t[m + 2] = TakeByte(t[m + 1], hi) BY <1>2, <1>4, <1>8
<1> DEFINE r == t[m].crc_receive
           s == t[m + 1].crc_receive
<1>11. r \in Word16 BY <1>9 DEF CheckState
<1>12. t[m + 1].crc_prev = u[m] /\ s = (r \div 256) + lo * 256 BY <1>6, <1>7, <1>9, <1>10, TakeByteIs
<1>13. 65535 - ((s \div 256) + hi * 256) = u[m] => t[m + 2].crc_match BY <1>6, <1>9, <1>10, <1>12, TakeByteIs
<1> HIDE DEF r, s
<1>14. (s \div 256) + hi * 256 = sum
  <2>1. Received(r, lo, hi) = (s \div 256) + hi * 256 BY <1>12 DEF Received
  <2> QED BY <1>6, <1>11, <2>1
<1> DEFINE last == u[m]
<1>15. last \in Nat /\ sum = 65535 - last BY <1>5, Word16Is
<1>16. 65535 - sum = last
  <2> HIDE DEF last
  <2> QED BY <1>15
<1>17. t[m + 2].crc_match
  <2>1. 65535 - sum = u[m] => t[m + 2].crc_match BY <1>13, <1>14
  <2> QED BY <1>16, <2>1
<1> QED BY <1>2, <1>17 DEF t, data
-----------------------------------------------------------------------------
(***************************************************************************)
(* The packets sent                                                        *)
(***************************************************************************)
LEMMA XorSmall == ASSUME NEW x \in 0..31, NEW y \in 0..31 PROVE Xor(x, y) \in 0..31
<1> DEFINE bit(w) == ((x \div w + y \div w) % 2) * w
<1>1. x \in Nat /\ x <= 31 /\ y \in Nat /\ y <= 31 OBVIOUS
<1>2. bit(1) \in 0..1 /\ bit(2) \in 0..2 /\ bit(4) \in 0..4 /\ bit(8) \in 0..8 /\ bit(16) \in 0..16 BY <1>1
<1>3. /\ bit(32) = 0 /\ bit(64) = 0 /\ bit(128) = 0 /\ bit(256) = 0 /\ bit(512) = 0 /\ bit(1024) = 0
      /\ bit(2048) = 0 /\ bit(4096) = 0 /\ bit(8192) = 0 /\ bit(16384) = 0 /\ bit(32768) = 0
  BY <1>1
<1> HIDE DEF bit
<1>4. bit(1) + bit(2) + bit(4) + bit(8) + bit(16) + bit(32) + bit(64) + bit(128)
      + bit(256) + bit(512) + bit(1024) + bit(2048) + bit(4096) + bit(8192) + bit(16384) + bit(32768) \in 0..31
  BY <1>2, <1>3
<1> QED BY <1>4 DEF Xor, bit

\* The entries of the token table have five bits.
LEMMA TableSmall == \A k \in 0..31 : Entry(crc5_tbl, k) \in 0..31
<1>1. \A k \in 1..32 : crc5_tbl[k] \in 0..31 BY DEF crc5_tbl
<1>2. \A k \in 0..31 : k + 1 \in 1..32 OBVIOUS
<1> QED BY <1>1, <1>2 DEF Entry

\* So has the sum of a token.
LEMMA SumOfToken == ASSUME NEW word \in Nat PROVE calc_usb_crc5(word) \in 0..31
<1> DEFINE data == Xor(word, \h1f)
           start == IF data % 2 = 1 THEN \h14 ELSE 0
           low == (data \div 2) % 32
           high == (data \div 64) % 32
           first == Entry(crc5_tbl, Xor(low, start))
           second == Entry(crc5_tbl, Xor(high, first))
<1>1. data \in Nat
  <2>1. \h1f \in Nat OBVIOUS
  <2>2. data \in Word16 BY <2>1, XorType
  <2> QED BY <2>2, Word16Is
<1>2. calc_usb_crc5(word) = \h1f - second BY DEF calc_usb_crc5
<1> HIDE DEF data
<1>3. start \in 0..31 /\ low \in 0..31 /\ high \in 0..31 BY <1>1
<1> HIDE DEF start, low, high
<1>4. first \in 0..31 BY <1>3, XorSmall, TableSmall
<1> HIDE DEF first
<1>5. second \in 0..31 BY <1>3, <1>4, XorSmall, TableSmall
<1> HIDE DEF second
<1> QED BY <1>2, <1>5

\* A packet of this host: SYNC, a PID, and what the PID asks for.
Formed(bytes) ==
    /\ bytes \in Seq(Byte) /\ Len(bytes) >= 2 /\ bytes[1] = USB_SYNC
    /\ bytes[2] \in PidData => \E payload \in Payloads : bytes = DataPacket(bytes[2], payload)
    /\ bytes[2] \in PidHandshake => Len(bytes) = 2
    /\ bytes[2] \in {PidOut, PidSof} => \E word \in Words : bytes = TokenPacket(bytes[2], word)
    /\ bytes[2] \notin PidData \cup PidHandshake => Len(bytes) = 4

\* Where the bytes of a data packet are.
LEMMA DataShape ==
    ASSUME NEW pid \in PidData, NEW payload \in Payloads
    PROVE  LET bytes == DataPacket(pid, payload)
           IN  /\ bytes \in Seq(Byte) /\ Len(bytes) = Len(payload) + 4
               /\ bytes[1] = USB_SYNC /\ bytes[2] = pid
               /\ SubSeq(bytes, 3, Len(bytes)) = Summed(payload)
               /\ payload \in Seq(Byte) /\ Len(payload) \in Nat /\ Len(payload) <= PIO_USB_EP_SIZE
<1> DEFINE sum == calc_usb_crc16(payload)
           two == <<sum % 256, sum \div 256>>
           head == <<USB_SYNC, pid>>
           m == Len(payload)
           start == head \o payload
           bytes == start \o two
           data == Summed(payload)
<1>1. payload \in Seq(Byte) /\ m <= PIO_USB_EP_SIZE BY PacketAssumption
<1>2. sum \in Word16 BY <1>1, SumType
<1>3. DataPacket(pid, payload) = bytes BY DEF DataPacket
<1>4. /\ data \in Seq(Byte) /\ Len(data) = m + 2 /\ \A k \in 1..m : data[k] = payload[k]
      /\ data[m + 1] = sum % 256 /\ data[m + 2] = sum \div 256
  BY <1>1, SummedShape
<1> HIDE DEF sum, data
<1>5. two \in Seq(Byte) /\ Len(two) = 2 /\ two[1] = sum % 256 /\ two[2] = sum \div 256
  <2>1. sum % 256 \in Byte /\ sum \div 256 \in Byte BY <1>2, SumBytes
  <2> QED BY <2>1
<1>6. head \in Seq(Byte) /\ Len(head) = 2 /\ head[1] = USB_SYNC /\ head[2] = pid
  BY DEF USB_SYNC, PidData, Byte
<1> HIDE DEF head, two
<1>7. /\ start \in Seq(Byte) /\ Len(start) = Len(head) + Len(payload)
      /\ \A i \in 1..Len(head) + Len(payload) : start[i] = IF i <= Len(head) THEN head[i] ELSE payload[i - Len(head)]
  BY <1>1, <1>6, ConcatProperties
<1> HIDE DEF start
<1>8. /\ bytes \in Seq(Byte) /\ Len(bytes) = Len(start) + Len(two)
      /\ \A i \in 1..Len(start) + Len(two) : bytes[i] = IF i <= Len(start) THEN start[i] ELSE two[i - Len(start)]
  <2>1. start \in Seq(Byte) BY <1>7
  <2>2. two \in Seq(Byte) BY <1>5
  <2> QED BY <2>1, <2>2, ConcatProperties
<1> HIDE DEF bytes
<1>9. m \in Nat BY <1>1
<1>10. Len(start) = m + 2 /\ \A i \in 1..2 + m : start[i] = IF i <= 2 THEN head[i] ELSE payload[i - 2]
  BY <1>6, <1>7, <1>9
<1>11. Len(bytes) = m + 4 /\ \A i \in 1..m + 4 : bytes[i] = IF i <= m + 2 THEN start[i] ELSE two[i - (m + 2)]
  <2>1. Len(start) + Len(two) = m + 4 BY <1>5, <1>9, <1>10
  <2> QED BY <1>8, <1>10, <2>1
<1> HIDE DEF m
<1>12. bytes[1] = USB_SYNC /\ bytes[2] = pid
  <2>1. 1 \in 1..m + 4 /\ 1 <= m + 2 /\ 2 \in 1..m + 4 /\ 2 <= m + 2 /\ 1 \in 1..2 + m /\ 2 \in 1..2 + m /\ 1 <= 2 /\ 2 <= 2
    BY <1>9
  <2>2. bytes[1] = start[1] /\ bytes[2] = start[2] /\ start[1] = head[1] /\ start[2] = head[2] BY <1>10, <1>11, <2>1
  <2> QED BY <1>6, <2>2
<1>13. ASSUME NEW i \in 1..m + 2 PROVE bytes[2 + i] = data[i]
  <2>1. 2 + i \in 1..m + 4 /\ i \in Nat BY <1>9
  <2>2. CASE i <= m
    <3>1. i \in 1..m /\ 2 + i <= m + 2 /\ 2 + i \in 1..2 + m /\ ~(2 + i <= 2) /\ (2 + i) - 2 = i BY <1>9, <2>2
    <3>2. bytes[2 + i] = start[2 + i] BY <1>11, <2>1, <3>1
    <3>3. start[2 + i] = payload[i] BY <1>10, <3>1
    <3> QED BY <1>4, <3>1, <3>2, <3>3
  <2>3. CASE i = m + 1
    <3>1. ~(2 + i <= m + 2) /\ (2 + i) - (m + 2) = 1 BY <1>9, <2>3
    <3>2. bytes[2 + i] = two[1] BY <1>11, <2>1, <3>1
    <3> QED BY <1>4, <1>5, <2>3, <3>2
  <2>4. CASE i = m + 2
    <3>1. ~(2 + i <= m + 2) /\ (2 + i) - (m + 2) = 2 BY <1>9, <2>4
    <3>2. bytes[2 + i] = two[2] BY <1>11, <2>1, <3>1
    <3> QED BY <1>4, <1>5, <2>4, <3>2
  <2>5. i <= m \/ i = m + 1 \/ i = m + 2 BY <1>9
  <2> QED BY <2>2, <2>3, <2>4, <2>5
<1>14. SubSeq(bytes, 3, Len(bytes)) = data
  <2>1. 3 \in 1..Len(bytes) + 1 /\ Len(bytes) \in 2..Len(bytes) /\ 1 + Len(bytes) - 3 = m + 2 BY <1>9, <1>11
  <2>2. SubSeq(bytes, 3, Len(bytes)) = [i \in 1..m + 2 |-> bytes[2 + i]]
    <3>1. SubSeq(bytes, 3, Len(bytes)) = [i \in 1..(1 + Len(bytes) - 3) |-> bytes[3 + i - 1]] BY <1>8, <2>1
    <3>2. \A i \in 1..m + 2 : 3 + i - 1 = 2 + i BY <1>9
    <3> QED BY <2>1, <3>1, <3>2
  <2>3. data = [i \in 1..m + 2 |-> data[i]] BY <1>4
  <2> QED BY <1>13, <2>2, <2>3
<1> QED BY <1>1, <1>3, <1>8, <1>9, <1>11, <1>12, <1>14 DEF m, data

\* prepare_tx_data makes a packet,
LEMMA DataFormed == ASSUME NEW pid \in PidData, NEW payload \in Payloads PROVE Formed(DataPacket(pid, payload))
<1> DEFINE bytes == DataPacket(pid, payload)
<1>1. /\ bytes \in Seq(Byte) /\ Len(bytes) = Len(payload) + 4 /\ Len(payload) \in Nat
      /\ bytes[1] = USB_SYNC /\ bytes[2] = pid
  BY DataShape
<1>2. pid \notin PidHandshake /\ pid \notin {PidOut, PidSof} BY DEF PidData, PidHandshake, PidOut, PidSof
<1>3. bytes = DataPacket(bytes[2], payload) BY <1>1
<1>4. Len(bytes) >= 2
  <2> DEFINE m == Len(payload)
  <2> HIDE DEF m
  <2>1. Len(bytes) = m + 4 /\ m \in Nat BY <1>1 DEF m
  <2> QED BY <2>1
<1> HIDE DEF bytes
<1>5. Formed(bytes) BY <1>1, <1>2, <1>3, <1>4 DEF Formed
<1> QED BY <1>5 DEF bytes

\* pio_usb_bus_send_token makes a packet,
LEMMA TokenFormed == ASSUME NEW pid \in {PidOut, PidSof}, NEW word \in Words PROVE Formed(TokenPacket(pid, word))
<1> DEFINE bytes == TokenPacket(pid, word)
           crc == calc_usb_crc5(word)
           low == word % 256
           high == word \div 256
<1>1. word \in Nat /\ word <= 2047 BY PacketAssumption
<1>2. crc \in 0..31 BY <1>1, SumOfToken
<1>3. bytes = <<USB_SYNC, pid, low, crc * 8 + high>> BY DEF TokenPacket
<1> HIDE DEF crc, bytes
<1>4. low \in 0..255 /\ high \in 0..7 BY <1>1
<1> HIDE DEF low, high
<1>5. crc * 8 + high \in 0..255 BY <1>2, <1>4
<1>6. pid \in Byte /\ USB_SYNC \in Byte /\ pid \notin PidData \cup PidHandshake
  BY DEF PidOut, PidSof, USB_SYNC, Byte, PidData, PidHandshake
<1>7. bytes \in Seq(Byte) /\ Len(bytes) = 4 /\ bytes[1] = USB_SYNC /\ bytes[2] = pid
  <2>1. low \in Byte /\ crc * 8 + high \in Byte BY <1>4, <1>5 DEF Byte
  <2> DEFINE last == crc * 8 + high
  <2> HIDE DEF last
  <2>2. last \in Byte /\ bytes = <<USB_SYNC, pid, low, last>> BY <1>3, <2>1 DEF last
  <2> QED BY <1>6, <2>1, <2>2
<1>8. bytes = TokenPacket(bytes[2], word) BY <1>7 DEF bytes
<1>9. Formed(bytes) BY <1>6, <1>7, <1>8 DEF Formed
<1> QED BY <1>9 DEF bytes

\* and so does pio_usb_bus_send_handshake.
LEMMA HandshakeFormed == ASSUME NEW pid \in PidHandshake PROVE Formed(<<USB_SYNC, pid>>)
<1> DEFINE bytes == <<USB_SYNC, pid>>
<1>1. pid \in Byte /\ USB_SYNC \in Byte /\ pid \notin PidData /\ pid \notin {PidOut, PidSof}
  BY DEF USB_SYNC, Byte, PidData, PidHandshake, PidOut, PidSof
<1>2. bytes \in Seq(Byte) /\ Len(bytes) = 2 /\ bytes[1] = USB_SYNC /\ bytes[2] = pid BY <1>1
<1> HIDE DEF bytes
<1>3. Formed(bytes) BY <1>1, <1>2 DEF Formed
<1> QED BY <1>3 DEF bytes
-----------------------------------------------------------------------------
(***************************************************************************)
(* The invariant                                                           *)
(***************************************************************************)
PacketInv ==
    /\ packet = <<>> => encoded = <<>>
    /\ packet # <<>> => Formed(packet) /\ encoded = pio_usb_ll_encode_tx_data(packet)

\* Nothing is sent at first.
LEMMA PacketInitInv == PacketInit => PacketInv
BY DEF PacketInit, PacketInv

\* Whatever is put on the wire is a packet and its encoding.
LEMMA PutInv == ASSUME NEW bytes, Formed(bytes), Put(bytes) PROVE PacketInv'
<1>1. packet' = bytes /\ encoded' = pio_usb_ll_encode_tx_data(bytes) BY DEF Put
<1>2. bytes # <<>> BY DEF Formed
<1> QED BY <1>1, <1>2 DEF PacketInv, Formed

\* Every step keeps the invariant.
LEMMA PacketNextInv == PacketInv /\ [PacketNext]_packet_vars => PacketInv'
<1> SUFFICES ASSUME PacketInv, [PacketNext]_packet_vars PROVE PacketInv'
  OBVIOUS
<1>1. CASE SendData
  <2>1. PICK pid \in PidData, payload \in Payloads : Put(DataPacket(pid, payload)) BY <1>1 DEF SendData
  <2> QED BY <2>1, DataFormed, PutInv
<1>2. CASE SendToken
  <2>1. PICK pid \in {PidOut, PidSof}, word \in Words : Put(TokenPacket(pid, word)) BY <1>2 DEF SendToken
  <2> QED BY <2>1, TokenFormed, PutInv
<1>3. CASE pio_usb_bus_send_handshake
  <2>1. PICK pid \in PidHandshake : Put(<<USB_SYNC, pid>>) BY <1>3 DEF pio_usb_bus_send_handshake
  <2> QED BY <2>1, HandshakeFormed, PutInv
<1>4. CASE Spoil
  <2>1. packet' = packet /\ encoded' = encoded BY <1>4 DEF Spoil
  <2> QED BY <2>1 DEF PacketInv, Formed
<1>5. CASE Cut
  <2>1. packet' = packet /\ encoded' = encoded BY <1>5 DEF Cut
  <2> QED BY <2>1 DEF PacketInv, Formed
<1>6. CASE pio_usb_bus_receive_packet_and_handshake
  <2>1. packet' = packet /\ encoded' = encoded BY <1>6 DEF pio_usb_bus_receive_packet_and_handshake
  <2> QED BY <2>1 DEF PacketInv, Formed
<1>7. CASE pio_usb_bus_wait_handshake
  <2>1. packet' = packet /\ encoded' = encoded BY <1>7 DEF pio_usb_bus_wait_handshake
  <2> QED BY <2>1 DEF PacketInv, Formed
<1>8. CASE Idle
  <2>1. packet' = <<>> /\ encoded' = <<>> BY <1>8 DEF Idle
  <2> QED BY <2>1 DEF PacketInv
<1>9. CASE UNCHANGED packet_vars
  <2>1. packet' = packet /\ encoded' = encoded BY <1>9 DEF packet_vars
  <2> QED BY <2>1 DEF PacketInv, Formed
<1> QED BY <1>1, <1>2, <1>3, <1>4, <1>5, <1>6, <1>7, <1>8, <1>9 DEF PacketNext

-----------------------------------------------------------------------------
(***************************************************************************)
(* What is encoded fits                                                    *)
(***************************************************************************)
LEMMA FormedShape ==
    ASSUME NEW bytes, Formed(bytes)
    PROVE  /\ bytes \in Seq(Byte) /\ Len(bytes) \in Nat /\ Len(bytes) >= 2 /\ bytes[1] = USB_SYNC
           /\ bytes[2] \in PidHandshake => Len(bytes) = 2
           /\ bytes[2] \in PidData => Len(bytes) <= PIO_USB_EP_SIZE + 4
           /\ bytes[2] \notin PidData \cup PidHandshake => Len(bytes) = 4
<1>1. bytes \in Seq(Byte) /\ Len(bytes) >= 2 /\ bytes[1] = USB_SYNC BY DEF Formed
<1>2. Len(bytes) \in Nat BY <1>1
<1>3. ASSUME bytes[2] \in PidData PROVE Len(bytes) <= PIO_USB_EP_SIZE + 4
  <2>1. PICK payload \in Payloads : bytes = DataPacket(bytes[2], payload) BY <1>3 DEF Formed
  <2> DEFINE m == Len(payload)
  <2>2. Len(bytes) = m + 4 /\ m \in Nat /\ m <= PIO_USB_EP_SIZE
    <3> DEFINE pid == bytes[2]
    <3>1. pid \in PidData BY <1>3
    <3> HIDE DEF pid
    <3>2. Len(DataPacket(pid, payload)) = Len(payload) + 4 /\ Len(payload) \in Nat /\ Len(payload) <= PIO_USB_EP_SIZE
      BY <3>1, DataShape
    <3> QED BY <2>1, <3>2 DEF pid
  <2> HIDE DEF m
  <2>3. PIO_USB_EP_SIZE \in Nat BY PacketAssumption
  <2> QED BY <2>2, <2>3
<1> QED BY <1>1, <1>2, <1>3 DEF Formed

\* The bits of a packet begin with the seven zeros of SYNC.
LEMMA SyncZeros ==
    ASSUME NEW bytes \in Seq(Byte), Len(bytes) >= 2, bytes[1] = USB_SYNC
    PROVE  \A k \in 1..7 : BitsOf(bytes)[k] = 0
<1>1. USB_SYNC \in Byte /\ USB_SYNC = 128 BY DEF USB_SYNC, Byte
<1>2. BitOf(128, 0) = 0 /\ BitOf(128, 1) = 0 /\ BitOf(128, 2) = 0 /\ BitOf(128, 3) = 0
      /\ BitOf(128, 4) = 0 /\ BitOf(128, 5) = 0 /\ BitOf(128, 6) = 0
  <2>1. 128 \in Byte BY DEF Byte
  <2>2. 128 % 2 = 0 /\ (128 \div 2) % 2 = 0 /\ (128 \div 4) % 2 = 0 /\ (128 \div 8) % 2 = 0
        /\ (128 \div 16) % 2 = 0 /\ (128 \div 32) % 2 = 0 /\ (128 \div 64) % 2 = 0
    OBVIOUS
  <2>3. /\ BitOf(128, 0) = 128 % 2 /\ BitOf(128, 1) = (128 \div 2) % 2
        /\ BitOf(128, 2) = (128 \div 4) % 2 /\ BitOf(128, 3) = (128 \div 8) % 2 /\ BitOf(128, 4) = (128 \div 16) % 2
        /\ BitOf(128, 5) = (128 \div 32) % 2 /\ BitOf(128, 6) = (128 \div 64) % 2
    BY <2>1, BitIs
  <2> QED BY <2>2, <2>3
<1>3. ASSUME NEW k \in 1..7 PROVE BitsOf(bytes)[k] = 0
  <2>1. 1 \in 1..Len(bytes) BY DEF USB_SYNC
  <2> DEFINE b == k - 1
  <2>2. b \in 0..7 /\ 8 * 1 - 7 + b = k /\ b \in 0..6 OBVIOUS
  <2> HIDE DEF b
  <2>3. BitsOf(bytes)[8 * 1 - 7 + b] = BitOf(bytes[1], b) BY <2>1, <2>2, BitsType
  <2>4. BitOf(128, b) = 0
    <3>1. b = 0 \/ b = 1 \/ b = 2 \/ b = 3 \/ b = 4 \/ b = 5 \/ b = 6 BY <2>2
    <3> QED BY <1>2, <3>1
  <2> QED BY <1>1, <2>2, <2>3, <2>4
<1> QED BY <1>3

\* At most one bit in six is stuffed in after SYNC.
LEMMA CodesLength ==
    ASSUME NEW bytes, Formed(bytes)
    PROVE  LET n == Len(CodesOf(bytes))
           IN  n \in Nat /\ n >= 8 * Len(bytes) /\ 6 * (n - 8 * Len(bytes)) <= 8 * Len(bytes) - 7
<1>1. bytes \in Seq(Byte) /\ Len(bytes) \in Nat /\ Len(bytes) >= 2 /\ bytes[1] = USB_SYNC BY FormedShape
<1> DEFINE bits == BitsOf(bytes)
           m == Len(bytes)
           long == Len(bits)
           n == Len(Encoding(bits)[Len(bits)].codes)
<1>2. bits \in Seq({0, 1}) /\ long = 8 * m BY <1>1, BitsType
<1>3. \A k \in 1..7 : bits[k] = 0 BY <1>1, SyncZeros
<1>4. CodesOf(bytes) = Encoding(bits)[Len(bits)].codes BY <1>1, CodesType
<1> HIDE DEF bits
<1>5. 7 \in 0..Len(bits)
  <2> HIDE DEF m
  <2>1. m \in Nat /\ m >= 2 BY <1>1 DEF m
  <2> QED BY <1>2, <2>1
<1>6. n \in Nat /\ n >= Len(bits) /\ 6 * (n - Len(bits)) <= Len(bits) - 7 BY <1>2, <1>3, <1>5, EncodingLength
<1> QED BY <1>2, <1>4, <1>6

\* Whole bytes are played, and they fit: what comes after the codes is arithmetic.
LEMMA Sizes ==
    ASSUME NEW n \in Nat, NEW m \in Nat, NEW most \in Nat, m <= most, m >= 2,
           n >= 8 * m, 6 * (n - 8 * m) <= 8 * m - 7
    PROVE  LET long == n + 2 + (4 - ((n + 2) % 4))
           IN  /\ long % 4 = 0
               /\ m = 2 => long = 20
               /\ long <= 4 * EncodedSize(most)
<1> DEFINE r == (n + 2) % 4
           d == (n + 2) \div 4
           long == n + 2 + (4 - r)
           q == (most * 2 * 7) \div 6
<1>1. r \in 0..3 /\ d \in Nat /\ n + 2 = 4 * d + r OBVIOUS
<1>2. q \in Nat /\ 6 * q + 5 >= 14 * most OBVIOUS
<1> HIDE DEF r, d
<1>3. long = 4 * (d + 1) BY <1>1
<1>4. long % 4 = 0
  <2> DEFINE e == d + 1
  <2>1. e \in Nat BY <1>1
  <2> HIDE DEF e
  <2>2. (4 * e) % 4 = 0 BY <2>1
  <2> QED BY <1>3, <2>2 DEF e
<1>5. m = 2 => long = 20 BY <1>1
<1> HIDE DEF q, long
<1>6. long <= 4 * (q + 2) BY <1>1, <1>2, <1>3
<1> QED BY <1>4, <1>5, <1>6 DEF r, q, long, EncodedSize
\* The level of an encoded packet changes at least every seven bit times.
LEMMA LevelChanges ==
    ASSUME NEW bytes \in Seq(Byte)
    PROVE  LET out == pio_usb_ll_encode_tx_data(bytes)
           IN  \A i \in 1..Len(out) - 7 : \E k \in 1..7 : out[i + k] # out[i]
<1> DEFINE out == pio_usb_ll_encode_tx_data(bytes)
           c == CodesOf(bytes)
           n == Len(c)
           p == 4 - ((n + 2) % 4)
<1>1. /\ n \in Nat /\ p \in 1..4 /\ Len(out) = n + 2 + p
      /\ \A i \in 1..n : out[i] = c[i]
      /\ out[n + 1] = "SE0"
  BY EncodedShape
<1>2. c \in Seq(LineLevel) /\ \A i \in 1..n : Soon(c, i) \/ i + 5 >= n
  <2> DEFINE bits == BitsOf(bytes)
  <2>1. bits \in Seq({0, 1}) BY BitsType
  <2>2. c = Encoding(bits)[Len(bits)].codes BY CodesType
  <2> HIDE DEF c, bits
  <2> QED BY <2>1, <2>2, EncodingChanges
<1> HIDE DEF out, c, p
<1>3. \A i \in 1..n : c[i] # "SE0" BY <1>2 DEF LineLevel
<1>4. ASSUME NEW i \in 1..Len(out) - 7 PROVE \E k \in 1..7 : out[i + k] # out[i]
  <2> HIDE DEF n
  <2>1. i \in 1..n BY <1>1
  <2>2. out[i] = c[i] BY <1>1, <2>1
  <2>3. CASE Soon(c, i)
    <3>1. PICK k \in 1..7 : i + k <= n /\ c[i + k] # c[i] BY <2>3 DEF Soon, n
    <3>2. i + k \in 1..n BY <1>1, <2>1, <3>1
    <3>3. out[i + k] # out[i] BY <1>1, <2>2, <3>1, <3>2
    <3> QED BY <3>3
  <2>4. CASE i + 5 >= n
    <3> DEFINE k == n + 1 - i
    <3>1. k \in 1..7 /\ i + k = n + 1 BY <1>1, <2>1, <2>4
    <3> HIDE DEF k
    <3>2. out[i + k] # out[i] BY <1>1, <1>3, <2>1, <2>2, <3>1
    <3> QED BY <3>1, <3>2
  <2> QED BY <1>2, <2>1, <2>3, <2>4
<1> QED BY <1>4 DEF out

\* What the invariant says of the encoded packet is that it fits.
LEMMA InvFits == PacketInv => EncodingFits
<1> SUFFICES ASSUME PacketInv, packet # <<>> PROVE EncodingFits
  BY DEF EncodingFits
<1> DEFINE m == Len(packet)
           c == CodesOf(packet)
           n == Len(c)
           p == 4 - ((n + 2) % 4)
<1>1. Formed(packet) /\ encoded = pio_usb_ll_encode_tx_data(packet) BY DEF PacketInv
<1>2. /\ packet \in Seq(Byte) /\ m \in Nat /\ m >= 2
      /\ packet[2] \in PidHandshake => m = 2
      /\ packet[2] \in PidData => m <= PIO_USB_EP_SIZE + 4
      /\ packet[2] \notin PidData \cup PidHandshake => m = 4
  BY <1>1, FormedShape
<1>3. /\ n \in Nat /\ p \in 1..4 /\ Len(encoded) = n + 2 + p
      /\ \A i \in n + 3..n + 2 + p : encoded[i] = "K"
  BY <1>1, <1>2, EncodedShape
<1>4. n >= 8 * m /\ 6 * (n - 8 * m) <= 8 * m - 7 BY <1>1, CodesLength
<1>5. PIO_USB_EP_SIZE \in Nat BY PacketAssumption
<1>6. \A i \in 1..Len(encoded) - 7 : \E k \in 1..7 : encoded[i + k] # encoded[i] BY <1>1, <1>2, LevelChanges
<1> HIDE DEF m, n
<1>7. \A most \in Nat : m <= most =>
         /\ (n + 2 + p) % 4 = 0
         /\ m = 2 => n + 2 + p = 20
         /\ n + 2 + p <= 4 * EncodedSize(most)
  BY <1>2, <1>3, <1>4, Sizes
<1> HIDE DEF p
<1>8. encoded[n + 2 + p] = "K"
  <2>1. n + 2 + p \in n + 3..n + 2 + p BY <1>3
  <2> QED BY <1>3, <2>1
<1>9. Len(encoded) % 4 = 0
  <2>1. m <= m BY <1>2
  <2> QED BY <1>2, <1>3, <1>7, <2>1
<1>10. CASE packet[2] \in PidHandshake
  <2>1. IsHandshake BY <1>10 DEF IsHandshake
  <2>2. m <= m /\ m = 2 BY <1>2, <1>10
  <2>3. Len(encoded) = 4 * HandshakeSize
    <3>1. Len(encoded) = 20 BY <1>2, <1>3, <1>7, <2>2
    <3> QED BY <3>1 DEF HandshakeSize
  <2> QED BY <1>3, <1>6, <1>8, <1>9, <2>1, <2>3 DEF EncodingFits
<1>11. CASE packet[2] \notin PidHandshake
  <2>1. ~IsHandshake BY <1>11 DEF IsHandshake
  <2> DEFINE most == IF IsData THEN PIO_USB_EP_SIZE + 4 ELSE 4
  <2>2. most \in Nat /\ m <= most
    <3>1. CASE IsData
      <4>1. m <= PIO_USB_EP_SIZE + 4 /\ most = PIO_USB_EP_SIZE + 4 BY <1>2, <3>1 DEF IsData
      <4> QED BY <1>5, <4>1
    <3>2. CASE ~IsData
      <4>1. packet[2] \notin PidData BY <3>2 DEF IsData
      <4>2. m = 4 /\ most = 4 BY <1>2, <1>11, <3>2, <4>1
      <4> QED BY <4>2
    <3> QED BY <3>1, <3>2
  <2> HIDE DEF most
  <2>3. Len(encoded) <= 4 * EncodedSize(most) BY <1>3, <1>7, <2>2
  <2> QED BY <1>3, <1>6, <1>8, <1>9, <2>1, <2>3 DEF EncodingFits, most
<1> QED BY <1>10, <1>11

\* An encoded packet fits its buffer, for every payload up to PIO_USB_EP_SIZE, is a whole number
\* of bytes, ends with an idle line, and changes the level at least every seven bit times.
\* (pio_usb_ll_encode_tx_data, endpoint_t.buffer)
THEOREM PacketsFit == PacketSpec => []EncodingFits
<1>1. PacketSpec => []PacketInv BY PacketInitInv, PacketNextInv, PTL DEF PacketSpec
<1> QED BY <1>1, InvFits, PTL

-----------------------------------------------------------------------------
(***************************************************************************)
(* What arrives as it was sent is taken                                    *)
(***************************************************************************)
LEMMA DataTaken ==
    ASSUME NEW bytes, Formed(bytes), bytes[2] \in PidData
    PROVE  LET data == SubSeq(bytes, 3, Len(bytes))
           IN  Len(bytes) >= 4 /\ Taking(data)[Len(data)].crc_match
<1> DEFINE pid == bytes[2]
<1>1. PICK payload \in Payloads : bytes = DataPacket(pid, payload) BY DEF Formed
<1>2. pid \in PidData OBVIOUS
<1> HIDE DEF pid
<1> DEFINE sent == DataPacket(pid, payload)
           m == Len(payload)
<1>3. /\ Len(sent) = m + 4 /\ m \in Nat /\ payload \in Seq(Byte)
      /\ SubSeq(sent, 3, Len(sent)) = Summed(payload)
  BY <1>2, DataShape
<1>4. Taking(Summed(payload))[Len(Summed(payload))].crc_match BY <1>3, SumMatches
<1> HIDE DEF sent, m
<1>5. Len(sent) >= 4 BY <1>3
<1>6. bytes = sent BY <1>1 DEF sent
<1> QED BY <1>3, <1>4, <1>5, <1>6

\* A step that takes a packet as it was sent.
LEMMA SoundStep ==
    ASSUME PacketInv, [PacketNext]_packet_vars, wire = encoded, wire # <<>>, wire' = <<>>
    PROVE  /\ usb_rx_buffer' = packet
           /\ IsData => received' = "acknowledged"
           /\ IsHandshake => received' = "handshake"
<1>1. packet # <<>> /\ Formed(packet) /\ encoded = pio_usb_ll_encode_tx_data(packet) BY DEF PacketInv
<1>2. packet \in Seq(Byte) /\ Len(packet) \in Nat /\ packet[1] = USB_SYNC /\ (packet[2] \in PidHandshake => Len(packet) = 2)
  BY <1>1, FormedShape
<1>3. Bytes = packet /\ EndOfPacket BY <1>1, <1>2, SoundBytes, SampledIs
<1>4. \A bytes : ~Put(bytes) BY <1>1 DEF Put
<1>5. ~SendData /\ ~SendToken /\ ~pio_usb_bus_send_handshake
  BY <1>4 DEF SendData, SendToken, pio_usb_bus_send_handshake
<1>6. wire \in Seq(Code) BY <1>1, <1>2, EncodedShape
<1>7. ~Spoil
  <2>1. SUFFICES ASSUME Spoil PROVE FALSE OBVIOUS
  <2>2. PICK n \in 1..Len(wire) : wire' = [wire EXCEPT ![n] = Opposite(@)] BY <2>1 DEF Spoil
  <2>3. DOMAIN wire' = 1..Len(wire) BY <1>6, <2>2
  <2> QED BY <2>3
<1>8. ~Cut
  <2>1. SUFFICES ASSUME Cut PROVE FALSE OBVIOUS
  <2>2. PICK n \in 1..Len(wire) - 6 : wire' = SubSeq(wire, 1, n) BY <2>1 DEF Cut
  <2>3. Len(wire) \in Nat BY <1>6
  <2>4. n \in 1..Len(wire) BY <2>3
  <2>5. Len(wire') = n BY <1>6, <2>2, <2>4
  <2> QED BY <2>4, <2>5
<1>9. ~Idle /\ ~UNCHANGED packet_vars BY DEF Idle, packet_vars
<1>10. CASE pio_usb_bus_receive_packet_and_handshake
  <2> DEFINE data == SubSeq(packet, 3, Len(packet))
             good == EndOfPacket /\ Len(packet) >= 4 /\ Taking(data)[Len(data)].crc_match
  <2>1. /\ ~IsHandshake /\ usb_rx_buffer' = packet
        /\ received' = IF good THEN "acknowledged" ELSE "dropped"
    BY <1>3, <1>10 DEF pio_usb_bus_receive_packet_and_handshake
  <2>2. IsData => good BY <1>1, <1>3, DataTaken DEF IsData
  <2> HIDE DEF good
  <2> QED BY <2>1, <2>2
<1>11. CASE pio_usb_bus_wait_handshake
  <2>1. IsHandshake BY <1>11 DEF pio_usb_bus_wait_handshake
  <2>2. packet[2] \in PidHandshake /\ packet[2] \notin PidData BY <2>1 DEF IsHandshake, PidHandshake, PidData
  <2>3. Len(packet) = 2 /\ ~(Len(packet) > 2)
    <3>1. Len(packet) = 2 BY <1>2, <2>2
    <3> QED BY <3>1
  <2>4. usb_rx_buffer' = packet BY <1>3, <1>11, <2>3 DEF pio_usb_bus_wait_handshake
  <2>5. received' = "handshake" BY <1>2, <1>3, <1>11, <2>3 DEF pio_usb_bus_wait_handshake
  <2>6. ~IsData BY <2>2 DEF IsData
  <2> QED BY <2>4, <2>5, <2>6
<1> QED BY <1>5, <1>7, <1>8, <1>9, <1>10, <1>11 DEF PacketNext

\* A packet of any payload that arrives as it was sent is taken as it was sent.
\* (pio_usb_ll_encode_tx_data, usb_nrzi_decoder, pio_usb_bus_receive_packet_and_handshake)
THEOREM SoundPacketsTaken == PacketSpec => SoundIsTaken
<1>1. PacketSpec => []PacketInv BY PacketInitInv, PacketNextInv, PTL DEF PacketSpec
<1>2. PacketInv /\ [PacketNext]_packet_vars =>
        [wire = encoded /\ wire # <<>> /\ wire' = <<>> =>
           /\ usb_rx_buffer' = packet
           /\ IsData => received' = "acknowledged"
           /\ IsHandshake => received' = "handshake"]_packet_vars
  BY SoundStep
<1> QED BY <1>1, <1>2, PTL DEF PacketSpec, SoundIsTaken

-----------------------------------------------------------------------------
(***************************************************************************)
(* Exclusive or                                                            *)
(***************************************************************************)

\* Dividing by a power of two is halving.
LEMMA Halving ==
    ASSUME NEW x \in Nat
    PROVE  /\ x \div 4 = (x \div 2) \div 2 /\ x \div 8 = (x \div 2) \div 4 /\ x \div 16 = (x \div 2) \div 8
           /\ x \div 32 = (x \div 2) \div 16 /\ x \div 64 = (x \div 2) \div 32 /\ x \div 128 = (x \div 2) \div 64
           /\ x \div 256 = (x \div 2) \div 128 /\ x \div 512 = (x \div 2) \div 256
           /\ x \div 1024 = (x \div 2) \div 512 /\ x \div 2048 = (x \div 2) \div 1024
           /\ x \div 4096 = (x \div 2) \div 2048 /\ x \div 8192 = (x \div 2) \div 4096
           /\ x \div 16384 = (x \div 2) \div 8192 /\ x \div 32768 = (x \div 2) \div 16384
OBVIOUS

\* Dividing by one changes nothing.
LEMMA DivOne == \A x \in Nat : x \div 1 = x
OBVIOUS

\* The last bits are taken by themselves.
LEMMA XorHalves ==
    ASSUME NEW x \in Word16, NEW y \in Word16
    PROVE  /\ Xor(x, y) = 2 * Xor(x \div 2, y \div 2) + (((x % 2) + (y % 2)) % 2)
           /\ Xor(x \div 2, y \div 2) \in Nat
<1> DEFINE a == x \div 2
           b == y \div 2
           i == x % 2
           j == y % 2
           low(w) == (a \div w + b \div w) % 2
           bit(w) == (x \div w + y \div w) % 2
<1>a. x \in Nat /\ x <= 65535 /\ y \in Nat /\ y <= 65535 BY Word16Is
<1>b. /\ a \in Nat /\ a <= 32767 /\ i \in {0, 1} /\ x = 2 * a + i
      /\ b \in Nat /\ b <= 32767 /\ j \in {0, 1} /\ y = 2 * b + j
  BY <1>a
<1>c. x \div 2 = a /\ y \div 2 = b OBVIOUS
<1>1. /\ bit(2) = low(1) /\ bit(4) = low(2) /\ bit(8) = low(4) /\ bit(16) = low(8) /\ bit(32) = low(16)
      /\ bit(64) = low(32) /\ bit(128) = low(64) /\ bit(256) = low(128) /\ bit(512) = low(256) /\ bit(1024) = low(512)
      /\ bit(2048) = low(1024) /\ bit(4096) = low(2048) /\ bit(8192) = low(4096) /\ bit(16384) = low(8192)
      /\ bit(32768) = low(16384)
  <2>1. /\ x \div 2 = a \div 1 /\ x \div 4 = a \div 2 /\ x \div 8 = a \div 4 /\ x \div 16 = a \div 8 /\ x \div 32 = a \div 16
        /\ x \div 64 = a \div 32 /\ x \div 128 = a \div 64 /\ x \div 256 = a \div 128 /\ x \div 512 = a \div 256 /\ x \div 1024 = a \div 512
        /\ x \div 2048 = a \div 1024 /\ x \div 4096 = a \div 2048 /\ x \div 8192 = a \div 4096 /\ x \div 16384 = a \div 8192 /\ x \div 32768 = a \div 16384
    BY <1>a, <1>b, <1>c, Halving, DivOne
  <2>2. /\ y \div 2 = b \div 1 /\ y \div 4 = b \div 2 /\ y \div 8 = b \div 4 /\ y \div 16 = b \div 8 /\ y \div 32 = b \div 16
        /\ y \div 64 = b \div 32 /\ y \div 128 = b \div 64 /\ y \div 256 = b \div 128 /\ y \div 512 = b \div 256 /\ y \div 1024 = b \div 512
        /\ y \div 2048 = b \div 1024 /\ y \div 4096 = b \div 2048 /\ y \div 8192 = b \div 4096 /\ y \div 16384 = b \div 8192 /\ y \div 32768 = b \div 16384
    BY <1>a, <1>b, <1>c, Halving, DivOne
  <2>3. \A w, v : x \div w = a \div v /\ y \div w = b \div v => bit(w) = low(v) OBVIOUS
  <2> HIDE DEF bit, low
  <2> QED BY <2>1, <2>2, <2>3
<1>2. bit(1) = (i + j) % 2
  <2> HIDE DEF a, b, i, j
  <2>1. x \div 1 = 2 * a + i /\ y \div 1 = 2 * b + j BY <1>a, <1>b, DivOne
  <2>2. ((2 * a + i) + (2 * b + j)) % 2 = (i + j) % 2 BY <1>b
  <2> QED BY <2>1, <2>2
<1>3. low(32768) = 0
  <2>1. a \div 32768 = 0 /\ b \div 32768 = 0
    <3> HIDE DEF a, b
    <3> QED BY <1>b
  <2> QED BY <2>1
<1>4. /\ low(1) \in Nat /\ low(2) \in Nat /\ low(4) \in Nat /\ low(8) \in Nat /\ low(16) \in Nat /\ low(32) \in Nat
      /\ low(64) \in Nat /\ low(128) \in Nat /\ low(256) \in Nat /\ low(512) \in Nat /\ low(1024) \in Nat
      /\ low(2048) \in Nat /\ low(4096) \in Nat /\ low(8192) \in Nat /\ low(16384) \in Nat
  <2> HIDE DEF a, b
  <2> QED BY <1>b
<1>5. /\ Xor(x, y) = bit(1) * 1 + bit(2) * 2 + bit(4) * 4 + bit(8) * 8 + bit(16) * 16 + bit(32) * 32 + bit(64) * 64
           + bit(128) * 128 + bit(256) * 256 + bit(512) * 512 + bit(1024) * 1024 + bit(2048) * 2048
           + bit(4096) * 4096 + bit(8192) * 8192 + bit(16384) * 16384 + bit(32768) * 32768
      /\ Xor(a, b) = low(1) * 1 + low(2) * 2 + low(4) * 4 + low(8) * 8 + low(16) * 16 + low(32) * 32 + low(64) * 64
           + low(128) * 128 + low(256) * 256 + low(512) * 512 + low(1024) * 1024 + low(2048) * 2048
           + low(4096) * 4096 + low(8192) * 8192 + low(16384) * 16384 + low(32768) * 32768
  BY DEF Xor
<1>6. (i + j) % 2 \in Nat
  <2> HIDE DEF i, j
  <2> QED BY <1>b
<1> HIDE DEF a, b, i, j
<1> DEFINE k == (i + j) % 2
           l0 == low(1)  l1 == low(2)  l2 == low(4)  l3 == low(8)  l4 == low(16)  l5 == low(32)  l6 == low(64)  l7 == low(128)
           l8 == low(256)  l9 == low(512)  l10 == low(1024)  l11 == low(2048)  l12 == low(4096)  l13 == low(8192)  l14 == low(16384)
<1> HIDE DEF bit, low, k
<1>7. l0 \in Nat /\ l1 \in Nat /\ l2 \in Nat /\ l3 \in Nat /\ l4 \in Nat /\ l5 \in Nat /\ l6 \in Nat /\ l7 \in Nat /\ l8 \in Nat /\ l9 \in Nat /\ l10 \in Nat /\ l11 \in Nat /\ l12 \in Nat /\ l13 \in Nat /\ l14 \in Nat /\ k \in Nat
  BY <1>4, <1>6 DEF k
<1>8. Xor(x, y) = k + l0 * 2 + l1 * 4 + l2 * 8 + l3 * 16 + l4 * 32 + l5 * 64 + l6 * 128 + l7 * 256 + l8 * 512 + l9 * 1024 + l10 * 2048 + l11 * 4096 + l12 * 8192 + l13 * 16384 + l14 * 32768
  <2>1. k * 1 = k
    <3> HIDE DEF k
    <3> QED BY <1>7
  <2> QED BY <1>1, <1>2, <1>5, <2>1 DEF k
<1>9. Xor(a, b) = l0 * 1 + l1 * 2 + l2 * 4 + l3 * 8 + l4 * 16 + l5 * 32 + l6 * 64 + l7 * 128 + l8 * 256 + l9 * 512 + l10 * 1024 + l11 * 2048 + l12 * 4096 + l13 * 8192 + l14 * 16384
  <2> DEFINE top == low(32768)
  <2>1. top = 0 BY <1>3
  <2> HIDE DEF top
  <2>2. top * 32768 = 0 BY <2>1
  <2> DEFINE rest == l0 * 1 + l1 * 2 + l2 * 4 + l3 * 8 + l4 * 16 + l5 * 32 + l6 * 64 + l7 * 128 + l8 * 256 + l9 * 512
                     + l10 * 1024 + l11 * 2048 + l12 * 4096 + l13 * 8192 + l14 * 16384
  <2>3. Xor(a, b) = rest + top * 32768 BY <1>5 DEF top
  <2>4. rest \in Nat
    <3> HIDE DEF l0, l1, l2, l3, l4, l5, l6, l7, l8, l9, l10, l11, l12, l13, l14
    <3> QED BY <1>7
  <2> HIDE DEF rest
  <2>5. rest + 0 = rest BY <2>4
  <2> QED BY <2>2, <2>3, <2>5 DEF rest
<1> HIDE DEF l0, l1, l2, l3, l4, l5, l6, l7, l8, l9, l10, l11, l12, l13, l14
<1>10. Xor(x, y) = k + 2 * Xor(a, b) /\ Xor(a, b) \in Nat BY <1>7, <1>8, <1>9
<1>11. Xor(x, y) = 2 * Xor(a, b) + k BY <1>7, <1>10
<1> QED BY <1>10, <1>11 DEF k, a, b, i, j

\* Exclusive or is computed half by half: the words but for their last bits, and the last bits.
LEMMA XorStep ==
    ASSUME NEW x \in Word16, NEW y \in Word16
    PROVE  /\ Xor(x, y) \in Word16 /\ x \div 2 \in Word16
           /\ Xor(x, y) \div 2 = Xor(x \div 2, y \div 2)
           /\ Xor(x, y) % 2 = ((x % 2) + (y % 2)) % 2
<1> DEFINE a == x \div 2
           b == y \div 2
           i == x % 2
           j == y % 2
           half == Xor(a, b)
           k == (i + j) % 2
<1>1. x \in Nat /\ x <= 65535 /\ y \in Nat /\ y <= 65535 BY Word16Is
<1>2. a \in Nat /\ a <= 32767 /\ i \in {0, 1} /\ j \in {0, 1} BY <1>1
<1>3. Xor(x, y) \in Word16 BY <1>1, XorType
<1>4. Xor(x, y) = 2 * half + k /\ half \in Nat BY XorHalves
<1> HIDE DEF a, b, i, j
<1>6. k \in {0, 1} BY <1>2
<1> HIDE DEF half, k
<1>7. (2 * half + k) \div 2 = half /\ (2 * half + k) % 2 = k BY <1>4, <1>6
<1>8. a \in Word16
  <2>1. a <= 65535 BY <1>2
  <2> QED BY <1>2, <2>1, Word16Is
<1> QED BY <1>3, <1>4, <1>7, <1>8 DEF half, k, a, b, i, j

\* So words with the same halves and the same last bit are the same.
LEMMA SameHalves ==
    ASSUME NEW x \in Word16, NEW y \in Word16, x \div 2 = y \div 2, x % 2 = y % 2
    PROVE  x = y
<1>1. x \in Nat /\ y \in Nat BY Word16Is
<1> QED BY <1>1

\* What holds of a number when it holds of its half holds of all words.
LEMMA HalfInduction ==
    ASSUME NEW T, 0 \in T, \A x \in Word16 : x \div 2 \in T => x \in T
    PROVE  \A x \in Word16 : x \in T
<1> DEFINE last == 65535
           U == {n \in 0..last : \A x \in Word16 : x <= n => x \in T}
<1>1. last \in Nat OBVIOUS
<1>2. \A x \in Word16 : x \in Nat /\ x <= last /\ x \div 2 \in Word16
  <2> TAKE x \in Word16
  <2>1. x \in Nat /\ x <= 65535 BY Word16Is
  <2>2. x \div 2 \in Nat /\ x \div 2 <= 65535 BY <2>1
  <2> QED BY <2>1, <2>2, Word16Is
<1> HIDE DEF last
<1>3. 0 \in U
  <2>1. \A x \in Word16 : x <= 0 => x = 0 BY <1>2
  <2>2. 0 \in 0..last BY <1>1
  <2> QED BY <2>1, <2>2
<1>4. ASSUME NEW n \in 1..last, n - 1 \in U PROVE n \in U
  <2>1. n \in 0..last BY <1>1
  <2>2. ASSUME NEW x \in Word16, x <= n PROVE x \in T
    <3> DEFINE a == x \div 2
    <3>1. a \in Word16 BY <1>2
    <3>2. x = 0 \/ a <= n - 1 BY <1>2, <2>2
    <3> HIDE DEF a
    <3>3. x = 0 \/ a \in T BY <1>4, <3>1, <3>2
    <3> QED BY <3>3 DEF a
  <2> QED BY <2>1, <2>2
<1>5. \A n \in 0..last : n \in U
  <2> HIDE DEF U
  <2> QED BY <1>1, <1>3, <1>4, UpTo
<1>6. last \in U BY <1>1, <1>5
<1> QED BY <1>2, <1>6

\* What exclusive or is: zero is neutral,
LEMMA XorZero == \A x \in Word16 : Xor(x, 0) = x
<1> DEFINE T == {x \in Word16 : Xor(x, 0) = x}
<1>1. 0 \in Word16 BY Word16Is
<1>2. 0 \in T
  <2>1. Xor(0, 0) = 0 BY DEF Xor
  <2> QED BY <1>1, <2>1
<1>3. ASSUME NEW x \in Word16, x \div 2 \in T PROVE x \in T
  <2> DEFINE a == x \div 2
  <2>1. /\ Xor(x, 0) \in Word16 /\ Xor(x, 0) \div 2 = Xor(a, 0 \div 2) /\ Xor(x, 0) % 2 = ((x % 2) + (0 % 2)) % 2
    BY <1>1, XorStep
  <2>2. 0 \div 2 = 0 /\ 0 % 2 = 0 OBVIOUS
  <2>3. ((x % 2) + 0) % 2 = x % 2
    <3>1. x \in Nat BY Word16Is
    <3> QED BY <3>1
  <2>4. Xor(a, 0) = a BY <1>3
  <2>5. Xor(x, 0) \div 2 = a /\ Xor(x, 0) % 2 = x % 2 BY <2>1, <2>2, <2>3, <2>4
  <2>6. Xor(x, 0) = x BY <2>1, <2>5, SameHalves
  <2> QED BY <2>6
<1> HIDE DEF T
<1>4. \A x \in Word16 : x \in T BY <1>2, <1>3, HalfInduction
<1> QED BY <1>4 DEF T

\* the order does not matter,
LEMMA XorComm == \A x, y \in Nat : Xor(x, y) = Xor(y, x)
<1> TAKE x, y \in Nat
<1> DEFINE u(w) == x \div w
           v(w) == y \div w
<1>1. \A w \in Nat \ {0} : u(w) + v(w) = v(w) + u(w)
  <2> TAKE w \in Nat \ {0}
  <2>1. u(w) \in Int /\ v(w) \in Int OBVIOUS
  <2> HIDE DEF u, v
  <2> QED BY <2>1
<1> QED BY <1>1 DEF Xor

\* a word is its own inverse,
LEMMA XorSelf == \A x \in Word16 : Xor(x, x) = 0
<1> DEFINE T == {x \in Word16 : Xor(x, x) = 0}
<1>1. 0 \in Word16 BY Word16Is
<1>2. 0 \in T
  <2>1. Xor(0, 0) = 0 BY DEF Xor
  <2> QED BY <1>1, <2>1
<1>3. ASSUME NEW x \in Word16, x \div 2 \in T PROVE x \in T
  <2>1. /\ Xor(x, x) \in Word16 /\ Xor(x, x) \div 2 = Xor(x \div 2, x \div 2) /\ Xor(x, x) % 2 = ((x % 2) + (x % 2)) % 2
    BY XorStep
  <2>2. 0 \div 2 = 0 /\ 0 % 2 = 0 OBVIOUS
  <2>3. ((x % 2) + (x % 2)) % 2 = 0
    <3>1. x \in Nat BY Word16Is
    <3> QED BY <3>1
  <2>4. Xor(x \div 2, x \div 2) = 0 BY <1>3
  <2>5. Xor(x, x) = 0 BY <1>1, <2>1, <2>2, <2>3, <2>4, SameHalves
  <2> QED BY <2>5
<1> HIDE DEF T
<1>4. \A x \in Word16 : x \in T BY <1>2, <1>3, HalfInduction
<1> QED BY <1>4 DEF T

\* and neither do parentheses.
LEMMA XorAssoc == \A x, y, z \in Word16 : Xor(Xor(x, y), z) = Xor(x, Xor(y, z))
<1> DEFINE Law(x) == \A y, z \in Word16 : Xor(Xor(x, y), z) = Xor(x, Xor(y, z))
           T == {x \in Word16 : Law(x)}
<1>1. 0 \in Word16 BY Word16Is
<1>2. \A y \in Word16 : Xor(0, y) = y
  <2>1. \A y \in Word16 : Xor(0, y) = Xor(y, 0) BY <1>1, XorComm, Word16Is
  <2> QED BY <2>1, XorZero
<1>3. \A x, y \in Word16 : Xor(x, y) \in Word16 BY XorStep
<1>4. 0 \in T
  <2>1. ASSUME NEW y \in Word16, NEW z \in Word16 PROVE Xor(Xor(0, y), z) = Xor(0, Xor(y, z))
    BY <1>2, <1>3
  <2> QED BY <1>1, <2>1
<1>5. ASSUME NEW x \in Word16, x \div 2 \in T PROVE x \in T
  <2>1. ASSUME NEW y \in Word16, NEW z \in Word16 PROVE Xor(Xor(x, y), z) = Xor(x, Xor(y, z))
    <3> DEFINE a == x \div 2
               b == y \div 2
               c == z \div 2
               i == x % 2
               j == y % 2
               k == z % 2
               p == Xor(x, y)
               q == Xor(y, z)
    <3>1. p \in Word16 /\ p \div 2 = Xor(a, b) /\ p % 2 = (i + j) % 2 BY XorStep
    <3>2. q \in Word16 /\ q \div 2 = Xor(b, c) /\ q % 2 = (j + k) % 2 BY XorStep
    <3> HIDE DEF p, q
    <3>3. Xor(p, z) \in Word16 /\ Xor(p, z) \div 2 = Xor(p \div 2, c) /\ Xor(p, z) % 2 = ((p % 2) + k) % 2 BY <3>1, XorStep
    <3>4. Xor(x, q) \in Word16 /\ Xor(x, q) \div 2 = Xor(a, q \div 2) /\ Xor(x, q) % 2 = (i + (q % 2)) % 2 BY <3>2, XorStep
    <3>5. b \in Word16 /\ c \in Word16 BY XorStep
    <3>6. i \in {0, 1} /\ j \in {0, 1} /\ k \in {0, 1}
      <4>1. x \in Nat /\ y \in Nat /\ z \in Nat BY Word16Is
      <4> QED BY <4>1
    <3>7. Law(a) BY <1>5
    <3> HIDE DEF a, b, c, i, j, k
    <3>8. (((i + j) % 2) + k) % 2 = (i + ((j + k) % 2)) % 2 BY <3>6
    <3>9. Xor(Xor(a, b), c) = Xor(a, Xor(b, c)) BY <3>5, <3>7
    <3>10. Xor(p, z) \div 2 = Xor(x, q) \div 2 /\ Xor(p, z) % 2 = Xor(x, q) % 2 BY <3>1, <3>2, <3>3, <3>4, <3>8, <3>9
    <3>11. Xor(p, z) = Xor(x, q) BY <3>3, <3>4, <3>10, SameHalves
    <3> QED BY <3>11 DEF p, q
  <2> QED BY <2>1
<1> HIDE DEF T
<1>6. \A x \in Word16 : x \in T BY <1>4, <1>5, HalfInduction
<1> QED BY <1>6 DEF T

\* Four words can be taken in any order.
LEMMA XorRearrange ==
    ASSUME NEW a \in Word16, NEW b \in Word16, NEW c \in Word16, NEW d \in Word16
    PROVE  Xor(Xor(a, b), Xor(c, d)) = Xor(Xor(a, c), Xor(b, d))
<1>1. Xor(b, c) = Xor(c, b) BY XorComm, Word16Is
<1>2. /\ Xor(a, b) \in Word16 /\ Xor(c, d) \in Word16 /\ Xor(a, c) \in Word16 /\ Xor(b, d) \in Word16
      /\ Xor(b, c) \in Word16 /\ Xor(c, b) \in Word16
  BY XorStep
<1>3. Xor(Xor(a, b), Xor(c, d)) = Xor(a, Xor(b, Xor(c, d))) BY <1>2, XorAssoc
<1>4. Xor(b, Xor(c, d)) = Xor(Xor(b, c), d) BY XorAssoc
<1>5. Xor(Xor(c, b), d) = Xor(c, Xor(b, d)) BY XorAssoc
<1>6. Xor(Xor(a, c), Xor(b, d)) = Xor(a, Xor(c, Xor(b, d))) BY <1>2, XorAssoc
<1> QED BY <1>1, <1>3, <1>4, <1>5, <1>6

\* Below p, a power of two, nothing is carried.
Apart(p) == \A m, r \in Nat : r < p /\ m * p + r <= 65535 => Xor(m * p, r) = m * p + r

\* Nor below the next power of two,
LEMMA ApartTwice == ASSUME NEW p \in Nat, Apart(p) PROVE Apart(2 * p)
<1> SUFFICES ASSUME NEW m \in Nat, NEW r \in Nat, r < 2 * p, m * (2 * p) + r <= 65535
             PROVE  Xor(m * (2 * p), r) = m * (2 * p) + r
  BY DEF Apart
<1> DEFINE s == m * p
           t == r \div 2
           i == r % 2
           x == m * (2 * p)
<1>1. s \in Nat /\ x = 2 * s OBVIOUS
<1>2. t \in Nat /\ i \in {0, 1} /\ r = 2 * t + i OBVIOUS
<1> HIDE DEF t, i
<1>3. t < p BY <1>2
<1> HIDE DEF s, x
<1>4. s + t <= 65535 /\ x <= 65535 /\ r <= 65535 /\ x \in Nat
  <2>1. x + r <= 65535 BY DEF x
  <2> QED BY <1>1, <1>2, <2>1
<1>5. Xor(s, t) = s + t BY <1>2, <1>3, <1>4 DEF Apart, s
<1>6. x \div 2 = s /\ x % 2 = 0 BY <1>1
<1>7. x \in Word16 /\ r \in Word16 BY <1>4, Word16Is
<1>8. Xor(x, r) = 2 * Xor(x \div 2, r \div 2) + (((x % 2) + (r % 2)) % 2) BY <1>7, XorHalves
<1>9. Xor(x, r) = 2 * Xor(s, t) + ((0 + i) % 2) BY <1>6, <1>8 DEF t, i
<1>10. (0 + i) % 2 = i BY <1>2
<1>11. Xor(x, r) = x + r
  <2>1. Xor(x, r) = 2 * (s + t) + i BY <1>5, <1>9, <1>10
  <2> QED BY <1>1, <1>2, <2>1
<1> QED BY <1>11 DEF x

\* so below none up to 256.
LEMMA ApartPowers ==
    /\ Apart(1) /\ Apart(2) /\ Apart(4) /\ Apart(8) /\ Apart(16) /\ Apart(32) /\ Apart(64) /\ Apart(128) /\ Apart(256)
<1>1. Apart(1)
  <2> SUFFICES ASSUME NEW m \in Nat, NEW r \in Nat, r < 1, m * 1 + r <= 65535
               PROVE  Xor(m * 1, r) = m * 1 + r
    BY DEF Apart
  <2>1. r = 0 /\ m * 1 = m /\ m * 1 + r = m /\ m <= 65535 OBVIOUS
  <2>2. Xor(m, 0) = m BY <2>1, XorZero, Word16Is
  <2> QED BY <2>1, <2>2
<1>2. /\ 2 * 1 = 2 /\ 2 * 2 = 4 /\ 2 * 4 = 8 /\ 2 * 8 = 16 /\ 2 * 16 = 32 /\ 2 * 32 = 64 /\ 2 * 64 = 128 /\ 2 * 128 = 256
      /\ 1 \in Nat /\ 2 \in Nat /\ 4 \in Nat /\ 8 \in Nat /\ 16 \in Nat /\ 32 \in Nat /\ 64 \in Nat /\ 128 \in Nat
  OBVIOUS
<1>3. \A p \in Nat : Apart(p) => Apart(2 * p) BY ApartTwice
<1>4. Apart(2) /\ Apart(4) BY <1>1, <1>2, <1>3
<1>5. Apart(8) /\ Apart(16) BY <1>2, <1>3, <1>4
<1>6. Apart(32) /\ Apart(64) BY <1>2, <1>3, <1>5
<1>7. Apart(128) /\ Apart(256) BY <1>2, <1>3, <1>6
<1> QED BY <1>1, <1>4, <1>5, <1>6, <1>7

\* The exclusive or of two bytes is a byte.
LEMMA XorByte == ASSUME NEW x \in 0..255, NEW y \in 0..255 PROVE Xor(x, y) \in 0..255
<1> DEFINE bit(w) == ((x \div w + y \div w) % 2) * w
           Fine(b, w) == b \in Nat /\ b <= w
           b1 == bit(1)
           b2 == bit(2)
           b4 == bit(4)
           b8 == bit(8)
           b16 == bit(16)
           b32 == bit(32)
           b64 == bit(64)
           b128 == bit(128)
<1>1. x \in Nat /\ x <= 255 /\ y \in Nat /\ y <= 255 OBVIOUS
<1>2. /\ Fine(b1, 1) /\ Fine(b2, 2) /\ Fine(b4, 4) /\ Fine(b8, 8)
      /\ Fine(b16, 16) /\ Fine(b32, 32) /\ Fine(b64, 64) /\ Fine(b128, 128)
  BY <1>1
<1>3. /\ bit(256) = 0 /\ bit(512) = 0 /\ bit(1024) = 0
      /\ bit(2048) = 0 /\ bit(4096) = 0 /\ bit(8192) = 0 /\ bit(16384) = 0 /\ bit(32768) = 0
  BY <1>1
<1> DEFINE low == b1 + b2 + b4 + b8 + b16 + b32 + b64 + b128
<1>4. Xor(x, y) = low + bit(256) + bit(512) + bit(1024) + bit(2048) + bit(4096) + bit(8192) + bit(16384) + bit(32768)
  BY DEF Xor
<1> HIDE DEF bit, b1, b2, b4, b8, b16, b32, b64, b128
<1>5. low \in Nat /\ low <= 255 BY <1>2
<1> HIDE DEF low
<1>6. Xor(x, y) = low BY <1>3, <1>4, <1>5
<1> QED BY <1>5, <1>6

-----------------------------------------------------------------------------
(***************************************************************************)
(* Dividing by a polynomial: what a CRC does to a word, one bit at a time, *)
(* from the last.  It is linear, so an entry of a table is made of those   *)
(* of the bits of its index.                                               *)
(***************************************************************************)

\* One bit of the division, and n of them.
Divided(p, x) == Xor(x \div 2, IF x % 2 = 1 THEN p ELSE 0)
Division(p, x) ==
    LET d[n \in 0..16] == IF n = 0 THEN x ELSE Divided(p, d[n - 1])
    IN  d

\* What is left after a bit is a word.
LEMMA DividedType ==
    ASSUME NEW p \in Word16, NEW x \in Word16
    PROVE  Divided(p, x) \in Word16
<1>1. 0 \in Word16 BY Word16Is
<1>2. x \div 2 \in Word16 /\ (IF x % 2 = 1 THEN p ELSE 0) \in Word16 BY <1>1, XorStep
<1> QED BY <1>2, XorStep DEF Divided

\* The division runs bit by bit.
LEMMA DivisionRun ==
    ASSUME NEW p \in Word16, NEW x \in Word16
    PROVE  /\ Division(p, x) \in [0..16 -> Word16] /\ Division(p, x)[0] = x
           /\ \A k \in 1..16 : Division(p, x)[k] = Divided(p, Division(p, x)[k - 1])
<1> DEFINE n == 16
           step == [k \in 1..n |-> [y \in Word16 |-> Divided(p, y)]]
           Body(f) == [k \in 0..n |-> IF k = 0 THEN x ELSE Divided(p, f[k - 1])]
           F == CHOOSE f : f = Body(f)
<1>1. n \in Nat OBVIOUS
<1>2. \A y \in Word16 : Divided(p, y) \in Word16 BY DividedType
<1>3. step \in Steps(n, Word16) BY <1>2 DEF Steps
<1>4. PICK g : IsRun(g, n, Word16, x, step)
  <2> HIDE DEF step, n
  <2> QED BY <1>1, <1>3, RunExists
<1>5. \A k \in 1..n : k - 1 \in 0..n /\ k \in 0..n /\ k # 0 OBVIOUS
<1>6. g = Body(g)
  <2>1. ASSUME NEW k \in 0..n PROVE g[k] = Body(g)[k]
    <3>1. CASE k = 0 BY <1>4, <3>1 DEF IsRun
    <3>2. CASE k # 0
      <4>1. k \in 1..n BY <3>2
      <4> QED BY <1>4, <1>5, <4>1 DEF IsRun
    <3> QED BY <3>1, <3>2
  <2>2. DOMAIN g = 0..n /\ g = [k \in 0..n |-> g[k]] BY <1>4 DEF IsRun
  <2> QED BY <2>1, <2>2
<1>7. F = Body(F)
  <2> HIDE DEF Body
  <2> QED BY <1>6
<1>8. Division(p, x) = F BY DEF Division
<1> HIDE DEF F, step
<1>9. F[0] = x /\ \A k \in 1..n : F[k] = Divided(p, F[k - 1])
  <2>1. 0 \in 0..n BY <1>1
  <2> HIDE DEF n
  <2> QED BY <1>5, <1>7, <2>1
<1> DEFINE T == {k \in 0..n : F[k] \in Word16}
<1>10. \A k \in 0..n : k \in T
  <2>1. 0 \in T BY <1>1, <1>9
  <2>2. ASSUME NEW k \in 1..n, k - 1 \in T PROVE k \in T BY <1>2, <1>5, <1>9, <2>2
  <2> HIDE DEF T, n
  <2> QED BY <1>1, <2>1, <2>2, UpTo
<1>11. F \in [0..n -> Word16]
  <2>1. DOMAIN F = 0..n /\ F = [k \in 0..n |-> F[k]] BY <1>7
  <2>2. \A k \in 0..n : F[k] \in Word16 BY <1>10
  <2> HIDE DEF n, T
  <2> QED BY <2>1, <2>2
<1> QED BY <1>8, <1>9, <1>11

\* Division is linear.
LEMMA DividedLinear ==
    ASSUME NEW p \in Word16, NEW x \in Word16, NEW y \in Word16
    PROVE  Divided(p, Xor(x, y)) = Xor(Divided(p, x), Divided(p, y))
<1> DEFINE z == Xor(x, y)
           Rest(w) == IF w % 2 = 1 THEN p ELSE 0
<1>1. z \in Word16 /\ z \div 2 = Xor(x \div 2, y \div 2) /\ z % 2 = ((x % 2) + (y % 2)) % 2 BY XorStep
<1>2. 0 \in Word16 BY Word16Is
<1>3. x % 2 \in {0, 1} /\ y % 2 \in {0, 1}
  <2>1. x \in Nat /\ y \in Nat BY Word16Is
  <2> QED BY <2>1
<1>4. Rest(x) \in Word16 /\ Rest(y) \in Word16 BY <1>2
<1>5. Xor(p, p) = 0 /\ Xor(p, 0) = p /\ Xor(0, 0) = 0 /\ Xor(0, p) = p
  <2>1. Xor(0, p) = Xor(p, 0) BY <1>2, XorComm, Word16Is
  <2> QED BY <1>2, <2>1, XorSelf, XorZero
<1>6. Rest(z) = Xor(Rest(x), Rest(y))
  <2> DEFINE i == x % 2
             j == y % 2
  <2>1. i \in {0, 1} /\ j \in {0, 1} /\ z % 2 = (i + j) % 2 BY <1>1, <1>3
  <2>2. Rest(x) = (IF i = 1 THEN p ELSE 0) /\ Rest(y) = (IF j = 1 THEN p ELSE 0) OBVIOUS
  <2> HIDE DEF i, j, z
  <2>3. z % 2 = 1 <=> i # j BY <2>1
  <2>4. Rest(z) = IF i # j THEN p ELSE 0 BY <2>3
  <2> HIDE DEF Rest
  <2> QED BY <1>5, <2>1, <2>2, <2>4
<1>7. x \div 2 \in Word16 /\ y \div 2 \in Word16 BY XorStep
<1>8. Divided(p, x) = Xor(x \div 2, Rest(x)) /\ Divided(p, y) = Xor(y \div 2, Rest(y)) /\ Divided(p, z) = Xor(z \div 2, Rest(z))
  BY DEF Divided
<1> HIDE DEF z, Rest
<1>9. Xor(Xor(x \div 2, y \div 2), Xor(Rest(x), Rest(y))) = Xor(Xor(x \div 2, Rest(x)), Xor(y \div 2, Rest(y)))
  BY <1>4, <1>7, XorRearrange
<1>10. Divided(p, z) = Xor(Divided(p, x), Divided(p, y)) BY <1>1, <1>6, <1>8, <1>9
<1> QED BY <1>10 DEF z

\* And so are n bits of it.
LEMMA DivisionLinear ==
    ASSUME NEW p \in Word16, NEW x \in Word16, NEW y \in Word16
    PROVE  \A k \in 0..16 : Division(p, Xor(x, y))[k] = Xor(Division(p, x)[k], Division(p, y)[k])
<1> DEFINE n == 16
           z == Xor(x, y)
           dx == Division(p, x)
           dy == Division(p, y)
           dz == Division(p, z)
<1>1. n \in Nat OBVIOUS
<1>2. z \in Word16 BY XorStep
<1> HIDE DEF z
<1>3. dx \in [0..n -> Word16] /\ dx[0] = x /\ \A k \in 1..n : dx[k] = Divided(p, dx[k - 1]) BY DivisionRun
<1>4. dy \in [0..n -> Word16] /\ dy[0] = y /\ \A k \in 1..n : dy[k] = Divided(p, dy[k - 1]) BY DivisionRun
<1>5. dz \in [0..n -> Word16] /\ dz[0] = z /\ \A k \in 1..n : dz[k] = Divided(p, dz[k - 1]) BY <1>2, DivisionRun
<1> HIDE DEF dx, dy, dz
<1> DEFINE T == {k \in 0..n : dz[k] = Xor(dx[k], dy[k])}
<1>6. 0 \in T
  <2>1. 0 \in 0..n OBVIOUS
  <2> QED BY <1>3, <1>4, <1>5, <2>1 DEF z
<1>7. ASSUME NEW k \in 1..n, k - 1 \in T PROVE k \in T
  <2>1. k - 1 \in 0..n /\ k \in 0..n OBVIOUS
  <2>2. dx[k - 1] \in Word16 /\ dy[k - 1] \in Word16 BY <1>3, <1>4, <2>1
  <2>3. dz[k - 1] = Xor(dx[k - 1], dy[k - 1]) BY <1>7
  <2>4. Divided(p, Xor(dx[k - 1], dy[k - 1])) = Xor(Divided(p, dx[k - 1]), Divided(p, dy[k - 1]))
    BY <2>2, DividedLinear
  <2>5. dz[k] = Xor(dx[k], dy[k]) BY <1>3, <1>4, <1>5, <2>3, <2>4
  <2> QED BY <2>1, <2>5
<1>8. \A k \in 0..n : k \in T
  <2> HIDE DEF T, n
  <2> QED BY <1>1, <1>6, <1>7, UpTo
<1> QED BY <1>8 DEF dx, dy, dz, z

\* A zero bit is only shifted out.
LEMMA DivisionOfTwice ==
    ASSUME NEW p \in Word16, NEW x \in Word16, 2 * x \in Word16
    PROVE  \A k \in 0..15 : Division(p, 2 * x)[k + 1] = Division(p, x)[k]
<1> DEFINE n == 15
           y == 2 * x
           dx == Division(p, x)
           dy == Division(p, y)
<1>1. n \in Nat /\ x \in Nat BY Word16Is
<1>2. y \in Word16 /\ y \div 2 = x /\ y % 2 = 0 BY <1>1
<1> HIDE DEF y
<1>3. dx[0] = x /\ \A k \in 1..16 : dx[k] = Divided(p, dx[k - 1]) BY DivisionRun
<1>4. dy[0] = y /\ \A k \in 1..16 : dy[k] = Divided(p, dy[k - 1]) BY <1>2, DivisionRun
<1>5. Divided(p, y) = x BY <1>2, XorZero DEF Divided
<1> HIDE DEF dx, dy
<1> DEFINE T == {k \in 0..n : dy[k + 1] = dx[k]}
<1>6. 0 \in T
  <2>1. 0 \in 0..n /\ 0 + 1 \in 1..16 /\ (0 + 1) - 1 = 0 OBVIOUS
  <2> QED BY <1>3, <1>4, <1>5, <2>1
<1>7. ASSUME NEW k \in 1..n, k - 1 \in T PROVE k \in T
  <2>1. k \in 0..n /\ k \in 1..16 /\ k + 1 \in 1..16 /\ (k + 1) - 1 = k /\ (k - 1) + 1 = k OBVIOUS
  <2>2. dy[k] = dx[k - 1] BY <1>7, <2>1
  <2>3. dy[k + 1] = Divided(p, dy[k]) /\ dx[k] = Divided(p, dx[k - 1]) BY <1>3, <1>4, <2>1
  <2> QED BY <2>1, <2>2, <2>3
<1>8. \A k \in 0..n : k \in T
  <2> HIDE DEF T, n
  <2> QED BY <1>1, <1>6, <1>7, UpTo
<1> QED BY <1>8 DEF dx, dy, y

\* Bits are divided one after the other: j, and then the rest.
Splits(p, x, j) == \A k \in 0..16 - j : Division(p, x)[j + k] = Division(p, Division(p, x)[j])[k]

\* So it can be stopped and gone on with.
LEMMA DivisionSplit == ASSUME NEW p \in Word16, NEW x \in Word16, NEW j \in 0..16 PROVE Splits(p, x, j)
<1> DEFINE n == 16 - j
           dx == Division(p, x)
           y == dx[j]
           dy == Division(p, y)
<1>1. n \in Nat OBVIOUS
<1>2. dx \in [0..16 -> Word16] /\ \A k \in 1..16 : dx[k] = Divided(p, dx[k - 1]) BY DivisionRun
<1> HIDE DEF dx
<1>3. y \in Word16 BY <1>2
<1> HIDE DEF y
<1>4. dy[0] = y /\ \A k \in 1..16 : dy[k] = Divided(p, dy[k - 1]) BY <1>3, DivisionRun
<1> HIDE DEF dy
<1> DEFINE T == {k \in 0..n : dx[j + k] = dy[k]}
<1>5. 0 \in T
  <2>1. 0 \in 0..n /\ j + 0 = j OBVIOUS
  <2> QED BY <1>4, <2>1 DEF y
<1>6. ASSUME NEW k \in 1..n, k - 1 \in T PROVE k \in T
  <2>1. k \in 0..n /\ k \in 1..16 /\ j + k \in 1..16 /\ (j + k) - 1 = j + (k - 1) OBVIOUS
  <2>2. dx[j + (k - 1)] = dy[k - 1] BY <1>6
  <2>3. dx[j + k] = Divided(p, dx[(j + k) - 1]) /\ dy[k] = Divided(p, dy[k - 1]) BY <1>2, <1>4, <2>1
  <2> QED BY <2>1, <2>2, <2>3
<1>7. \A k \in 0..n : k \in T
  <2> HIDE DEF T, n
  <2> QED BY <1>1, <1>5, <1>6, UpTo
<1> QED BY <1>7 DEF dx, dy, y, Splits

\* One more zero bit is one more bit to divide.
LEMMA DivisionTwice ==
    ASSUME NEW p \in Word16, NEW x \in Nat, NEW y \in Nat, y = 2 * x, y <= 65535, NEW k \in 0..15, NEW j \in 1..16, j = k + 1
    PROVE  Division(p, y)[j] = Division(p, x)[k]
<1>1. x \in Word16 /\ y \in Word16 BY Word16Is
<1>2. 2 * x \in Word16 BY <1>1
<1>3. Division(p, 2 * x)[k + 1] = Division(p, x)[k] BY <1>1, <1>2, DivisionOfTwice
<1> QED BY <1>3

\* Dividing the zeros of a shifted byte, or of five shifted bits, leaves what was shifted.
LEMMA DivisionOfByte ==
    ASSUME NEW p \in Word16, NEW h \in Nat, h <= 255
    PROVE  Division(p, 256 * h)[8] = h
<1> DEFINE d(m) == m * h
<1>1. /\ d(1) \in Nat /\ d(2) = 2 * d(1) /\ d(4) = 2 * d(2) /\ d(8) = 2 * d(4) /\ d(16) = 2 * d(8)
      /\ d(32) = 2 * d(16) /\ d(64) = 2 * d(32) /\ d(128) = 2 * d(64) /\ d(256) = 2 * d(128)
      /\ d(2) \in Nat /\ d(4) \in Nat /\ d(8) \in Nat /\ d(16) \in Nat /\ d(32) \in Nat /\ d(64) \in Nat
      /\ d(128) \in Nat /\ d(256) \in Nat /\ d(256) <= 65535 /\ d(1) = h
  OBVIOUS
<1> HIDE DEF d
<1>2. /\ d(128) <= 65535 /\ d(64) <= 65535 /\ d(32) <= 65535 /\ d(16) <= 65535 /\ d(8) <= 65535
      /\ d(4) <= 65535 /\ d(2) <= 65535 /\ d(1) <= 65535
  BY <1>1
<1>3. /\ 0 \in 0..15 /\ 1 \in 0..15 /\ 2 \in 0..15 /\ 3 \in 0..15 /\ 4 \in 0..15 /\ 5 \in 0..15 /\ 6 \in 0..15 /\ 7 \in 0..15
      /\ 1 \in 1..16 /\ 2 \in 1..16 /\ 3 \in 1..16 /\ 4 \in 1..16 /\ 5 \in 1..16 /\ 6 \in 1..16 /\ 7 \in 1..16 /\ 8 \in 1..16
      /\ 1 = 0 + 1 /\ 2 = 1 + 1 /\ 3 = 2 + 1 /\ 4 = 3 + 1 /\ 5 = 4 + 1 /\ 6 = 5 + 1 /\ 7 = 6 + 1 /\ 8 = 7 + 1
  OBVIOUS
<1>4. \A x, y \in Nat, k \in 0..15, j \in 1..16 :
        y = 2 * x /\ y <= 65535 /\ j = k + 1 => Division(p, y)[j] = Division(p, x)[k]
  BY DivisionTwice
<1>5. Division(p, d(1))[0] = d(1)
  <2>1. d(1) \in Word16 BY <1>1, <1>2, Word16Is
  <2> QED BY <2>1, DivisionRun
<1>6. Division(p, d(2))[1] = Division(p, d(1))[0] BY <1>1, <1>2, <1>3, <1>4
<1>7. Division(p, d(4))[2] = Division(p, d(2))[1] BY <1>1, <1>2, <1>3, <1>4
<1>8. Division(p, d(8))[3] = Division(p, d(4))[2] BY <1>1, <1>2, <1>3, <1>4
<1>9. Division(p, d(16))[4] = Division(p, d(8))[3] BY <1>1, <1>2, <1>3, <1>4
<1>10. Division(p, d(32))[5] = Division(p, d(16))[4] BY <1>1, <1>2, <1>3, <1>4
<1>11. Division(p, d(64))[6] = Division(p, d(32))[5] BY <1>1, <1>2, <1>3, <1>4
<1>12. Division(p, d(128))[7] = Division(p, d(64))[6] BY <1>1, <1>2, <1>3, <1>4
<1>13. Division(p, d(256))[8] = Division(p, d(128))[7] BY <1>1, <1>2, <1>3, <1>4
<1>14. Division(p, d(256))[8] = h BY <1>1, <1>5, <1>6, <1>7, <1>8, <1>9, <1>10, <1>11, <1>12, <1>13
<1> QED BY <1>14 DEF d

\* The same for five.
LEMMA DivisionOfFive ==
    ASSUME NEW p \in Word16, NEW h \in Nat, h <= 63
    PROVE  Division(p, 32 * h)[5] = h
<1> DEFINE d(m) == m * h
<1>1. /\ d(1) \in Nat /\ d(2) = 2 * d(1) /\ d(4) = 2 * d(2) /\ d(8) = 2 * d(4) /\ d(16) = 2 * d(8)
      /\ d(32) = 2 * d(16)
      /\ d(2) \in Nat /\ d(4) \in Nat /\ d(8) \in Nat /\ d(16) \in Nat /\ d(32) \in Nat
      /\ d(32) <= 65535 /\ d(1) = h
  OBVIOUS
<1> HIDE DEF d
<1>2. d(16) <= 65535 /\ d(8) <= 65535 /\ d(4) <= 65535 /\ d(2) <= 65535 /\ d(1) <= 65535
  BY <1>1
<1>3. /\ 0 \in 0..15 /\ 1 \in 0..15 /\ 2 \in 0..15 /\ 3 \in 0..15 /\ 4 \in 0..15
      /\ 1 \in 1..16 /\ 2 \in 1..16 /\ 3 \in 1..16 /\ 4 \in 1..16 /\ 5 \in 1..16
      /\ 1 = 0 + 1 /\ 2 = 1 + 1 /\ 3 = 2 + 1 /\ 4 = 3 + 1 /\ 5 = 4 + 1
  OBVIOUS
<1>4. \A x, y \in Nat, k \in 0..15, j \in 1..16 :
        y = 2 * x /\ y <= 65535 /\ j = k + 1 => Division(p, y)[j] = Division(p, x)[k]
  BY DivisionTwice
<1>5. Division(p, d(1))[0] = d(1)
  <2>1. d(1) \in Word16 BY <1>1, <1>2, Word16Is
  <2> QED BY <2>1, DivisionRun
<1>6. Division(p, d(2))[1] = Division(p, d(1))[0] BY <1>1, <1>2, <1>3, <1>4
<1>7. Division(p, d(4))[2] = Division(p, d(2))[1] BY <1>1, <1>2, <1>3, <1>4
<1>8. Division(p, d(8))[3] = Division(p, d(4))[2] BY <1>1, <1>2, <1>3, <1>4
<1>9. Division(p, d(16))[4] = Division(p, d(8))[3] BY <1>1, <1>2, <1>3, <1>4
<1>10. Division(p, d(32))[5] = Division(p, d(16))[4] BY <1>1, <1>2, <1>3, <1>4
<1>11. Division(p, d(32))[5] = h BY <1>1, <1>5, <1>6, <1>7, <1>8, <1>9, <1>10
<1> QED BY <1>11 DEF d

\* What is the same in every bit is the same: two functions that take words apart by their bits.
LEMMA Doubled ==
    ASSUME NEW f, NEW g, NEW n \in Nat, \A v \in Nat : v < n => f[v] = g[v], f[n] = g[n],
           \A r \in Nat : r < n => f[n + r] = Xor(f[n], f[r]), \A r \in Nat : r < n => g[n + r] = Xor(g[n], g[r])
    PROVE  \A v \in Nat : v < 2 * n => f[v] = g[v]
<1> SUFFICES ASSUME NEW v \in Nat, v < 2 * n PROVE f[v] = g[v] OBVIOUS
<1>1. CASE v < n BY <1>1
<1>2. CASE ~(v < n)
  <2> DEFINE r == v - n
  <2>1. r \in Nat /\ r < n /\ n + r = v BY <1>2
  <2> HIDE DEF r
  <2>2. f[n + r] = Xor(f[n], f[r]) /\ g[n + r] = Xor(g[n], g[r]) BY <2>1
  <2>3. f[r] = g[r] BY <2>1
  <2> QED BY <2>1, <2>2, <2>3
<1> QED BY <1>1, <1>2

\* An index of the byte table is taken apart at p.
Apart16(p) == \A r \in 0..p - 1 : Entry(crc16_tbl, p + r) = Xor(Entry(crc16_tbl, p), Entry(crc16_tbl, r))

\* The byte table can be taken apart at every bit,
LEMMA TableApart16 ==
    /\ Apart16(1) /\ Apart16(2) /\ Apart16(4) /\ Apart16(8) /\ Apart16(16) /\ Apart16(32) /\ Apart16(64) /\ Apart16(128)
<1>1. Apart16(1) BY SMTT(200) DEF Apart16, Entry, crc16_tbl, Xor
<1>7. Apart16(2) BY SMTT(200) DEF Apart16, Entry, crc16_tbl, Xor
<1>8. Apart16(4) BY SMTT(200) DEF Apart16, Entry, crc16_tbl, Xor
<1>2. Apart16(8) BY SMTT(200) DEF Apart16, Entry, crc16_tbl, Xor
<1>3. Apart16(16) BY SMTT(200) DEF Apart16, Entry, crc16_tbl, Xor
<1>4. Apart16(32) BY SMTT(200) DEF Apart16, Entry, crc16_tbl, Xor
<1>5. Apart16(64) BY SMTT(200) DEF Apart16, Entry, crc16_tbl, Xor
<1>6. Apart16(128) BY SMTT(200) DEF Apart16, Entry, crc16_tbl, Xor
<1> QED BY <1>1, <1>2, <1>3, <1>4, <1>5, <1>6, <1>7, <1>8

\* and its entry of a bit is one division more than the entry of the next.
LEMMA TableHalved16 ==
    /\ Entry(crc16_tbl, 0) = 0
    /\ Entry(crc16_tbl, 128) = Divided(\ha001, 1)
    /\ Entry(crc16_tbl, 64) = Divided(\ha001, Entry(crc16_tbl, 128))
    /\ Entry(crc16_tbl, 32) = Divided(\ha001, Entry(crc16_tbl, 64))
    /\ Entry(crc16_tbl, 16) = Divided(\ha001, Entry(crc16_tbl, 32))
    /\ Entry(crc16_tbl, 8) = Divided(\ha001, Entry(crc16_tbl, 16))
    /\ Entry(crc16_tbl, 4) = Divided(\ha001, Entry(crc16_tbl, 8))
    /\ Entry(crc16_tbl, 2) = Divided(\ha001, Entry(crc16_tbl, 4))
    /\ Entry(crc16_tbl, 1) = Divided(\ha001, Entry(crc16_tbl, 2))
<1>1. /\ Entry(crc16_tbl, 0) = 0
      /\ Entry(crc16_tbl, 128) = \ha001 /\ Entry(crc16_tbl, 64) = \hf001 /\ Entry(crc16_tbl, 32) = \hd801
      /\ Entry(crc16_tbl, 16) = \hcc01 /\ Entry(crc16_tbl, 8) = \hc601 /\ Entry(crc16_tbl, 4) = \hc301
      /\ Entry(crc16_tbl, 2) = \hc181 /\ Entry(crc16_tbl, 1) = \hc0c1
  BY DEF Entry, crc16_tbl
<1>2. Divided(\ha001, 1) = \ha001 /\ Divided(\ha001, \ha001) = \hf001 BY DEF Divided, Xor
<1>3. Divided(\ha001, \hf001) = \hd801 /\ Divided(\ha001, \hd801) = \hcc01 BY DEF Divided, Xor
<1>4. Divided(\ha001, \hcc01) = \hc601 /\ Divided(\ha001, \hc601) = \hc301 BY DEF Divided, Xor
<1>5. Divided(\ha001, \hc301) = \hc181 /\ Divided(\ha001, \hc181) = \hc0c1 BY DEF Divided, Xor
<1> QED BY <1>1, <1>2, <1>3, <1>4, <1>5

\* An index of the token table is taken apart at p.
Apart5(p) == \A r \in 0..p - 1 : Entry(crc5_tbl, p + r) = Xor(Entry(crc5_tbl, p), Entry(crc5_tbl, r))

\* So can the token table,
LEMMA TableApart5 == Apart5(1) /\ Apart5(2) /\ Apart5(4) /\ Apart5(8) /\ Apart5(16)
BY SMTT(200) DEF Apart5, Entry, crc5_tbl, Xor

\* and so is its entry of a bit.
LEMMA TableHalved5 ==
    /\ Entry(crc5_tbl, 0) = 0
    /\ Entry(crc5_tbl, 16) = Divided(\h14, 1)
    /\ Entry(crc5_tbl, 8) = Divided(\h14, Entry(crc5_tbl, 16))
    /\ Entry(crc5_tbl, 4) = Divided(\h14, Entry(crc5_tbl, 8))
    /\ Entry(crc5_tbl, 2) = Divided(\h14, Entry(crc5_tbl, 4))
    /\ Entry(crc5_tbl, 1) = Divided(\h14, Entry(crc5_tbl, 2))
BY SMTT(200) DEF Entry, crc5_tbl, Divided, Xor

\* The division of half a number is one bit further than that of the number.
LEMMA DivisionHalved ==
    ASSUME NEW p \in Word16, NEW x \in Nat, NEW y \in Nat, y = 2 * x, y <= 65535, NEW k \in 1..15
    PROVE  Division(p, x)[k] = Divided(p, Division(p, y)[k])
<1> DEFINE j == k - 1
<1>1. j \in 0..15 /\ k \in 1..16 /\ k = j + 1 /\ x <= 65535 OBVIOUS
<1>2. x \in Word16 BY <1>1, Word16Is
<1>3. Division(p, x)[k] = Divided(p, Division(p, x)[j]) BY <1>1, <1>2, DivisionRun
<1> HIDE DEF j
<1>4. Division(p, y)[k] = Division(p, x)[j] BY <1>1, DivisionTwice
<1> QED BY <1>3, <1>4

\* Division takes words apart by their bits.
LEMMA DivisionApart ==
    ASSUME NEW p \in Word16, NEW n \in Nat, Apart(n), n <= 256, NEW r \in Nat, r < n, NEW k \in 0..16
    PROVE  Division(p, n + r)[k] = Xor(Division(p, n)[k], Division(p, r)[k])
<1> DEFINE s == n + r
           one == 1
<1>1. s <= 65535 /\ n <= 65535 /\ r <= 65535 /\ one * n = n /\ one \in Nat OBVIOUS
<1>2. n \in Word16 /\ r \in Word16 BY <1>1, Word16Is
<1> HIDE DEF one
<1>3. Xor(n, r) = s
  <2>1. one * n + r <= 65535 BY <1>1
  <2>2. Xor(one * n, r) = one * n + r BY <1>1, <2>1 DEF Apart
  <2> QED BY <1>1, <2>2
<1> HIDE DEF s
<1>4. Division(p, Xor(n, r))[k] = Xor(Division(p, n)[k], Division(p, r)[k]) BY <1>2, DivisionLinear
<1>5. Division(p, s)[k] = Xor(Division(p, n)[k], Division(p, r)[k]) BY <1>3, <1>4
<1> QED BY <1>5 DEF s

\* An entry of the byte table is eight bits of the division of its index,
LEMMA TableDivides16 == \A v \in Nat : v < 256 => Entry(crc16_tbl, v) = Division(\ha001, v)[8]
<1> DEFINE T == [v \in Nat |-> Entry(crc16_tbl, v)]
           D == [v \in Nat |-> Division(\ha001, v)[8]]
           p == \ha001
           Same(n) == \A v \in Nat : v < n => T[v] = D[v]
<1>1. p \in Word16 BY Word16Is
<1>2. \A v \in Nat : T[v] = Entry(crc16_tbl, v) /\ D[v] = Division(p, v)[8] OBVIOUS
<1>3. /\ T[0] = 0 /\ T[128] = Divided(p, 1)
      /\ T[64] = Divided(p, T[128])
      /\ T[32] = Divided(p, T[64])
      /\ T[16] = Divided(p, T[32])
      /\ T[8] = Divided(p, T[16])
      /\ T[4] = Divided(p, T[8])
      /\ T[2] = Divided(p, T[4])
      /\ T[1] = Divided(p, T[2])
  BY TableHalved16
<1> HIDE DEF T, D, p
<1>4. D[0] = 0 /\ D[256] = 1
  <2>1. 0 \in Nat /\ 0 <= 31 /\ 1 \in Nat /\ 1 <= 31 /\ 256 * 0 = 0 /\ 256 * 1 = 256 OBVIOUS
  <2> QED BY <1>1, <1>2, <2>1, DivisionOfByte
<1>5. \A x, y \in Nat : y = 2 * x /\ y <= 65535 => D[x] = Divided(p, D[y])
  <2>1. 8 \in 1..15 OBVIOUS
  <2> QED BY <1>1, <1>2, <2>1, DivisionHalved
<1>6. D[128] = Divided(p, D[256])
      /\ D[64] = Divided(p, D[128])
      /\ D[32] = Divided(p, D[64])
      /\ D[16] = Divided(p, D[32])
      /\ D[8] = Divided(p, D[16])
      /\ D[4] = Divided(p, D[8])
      /\ D[2] = Divided(p, D[4])
      /\ D[1] = Divided(p, D[2])
  <2>1. /\ 1 \in Nat /\ 2 \in Nat /\ 2 = 2 * 1 /\ 2 <= 65535
        /\ 2 \in Nat /\ 4 \in Nat /\ 4 = 2 * 2 /\ 4 <= 65535
        /\ 4 \in Nat /\ 8 \in Nat /\ 8 = 2 * 4 /\ 8 <= 65535
        /\ 8 \in Nat /\ 16 \in Nat /\ 16 = 2 * 8 /\ 16 <= 65535
        /\ 16 \in Nat /\ 32 \in Nat /\ 32 = 2 * 16 /\ 32 <= 65535
        /\ 32 \in Nat /\ 64 \in Nat /\ 64 = 2 * 32 /\ 64 <= 65535
        /\ 64 \in Nat /\ 128 \in Nat /\ 128 = 2 * 64 /\ 128 <= 65535
        /\ 128 \in Nat /\ 256 \in Nat /\ 256 = 2 * 128 /\ 256 <= 65535
    OBVIOUS
  <2> QED BY <1>5, <2>1
<1>7. T[1] = D[1] /\ T[2] = D[2] /\ T[4] = D[4] /\ T[8] = D[8] /\ T[16] = D[16] /\ T[32] = D[32] /\ T[64] = D[64] /\ T[128] = D[128]
  BY <1>3, <1>4, <1>6
<1>8. \A n \in Nat : Apart16(n) => \A r \in Nat : r < n => T[n + r] = Xor(T[n], T[r])
  <2> SUFFICES ASSUME NEW n \in Nat, Apart16(n), NEW r \in Nat, r < n PROVE T[n + r] = Xor(T[n], T[r]) OBVIOUS
  <2>1. r \in 0..n - 1 /\ n + r \in Nat OBVIOUS
  <2> QED BY <1>2, <2>1 DEF Apart16
<1>9. \A n \in Nat : Apart(n) /\ n <= 128 => \A r \in Nat : r < n => D[n + r] = Xor(D[n], D[r])
  <2> SUFFICES ASSUME NEW n \in Nat, Apart(n), n <= 128, NEW r \in Nat, r < n PROVE D[n + r] = Xor(D[n], D[r]) OBVIOUS
  <2> QED BY <1>1, <1>2, DivisionApart
<1>10. \A n \in Nat : Same(n) /\ T[n] = D[n] /\ Apart16(n) /\ Apart(n) /\ n <= 128 => Same(2 * n)
  BY <1>8, <1>9, Doubled
<1>11. Same(1)
  <2>1. T[0] = D[0] BY <1>3, <1>4
  <2>2. \A v \in Nat : v < 1 => v = 0 OBVIOUS
  <2> QED BY <2>1, <2>2
<1> HIDE DEF Same
<1>12. 2 * 1 = 2 /\ 2 * 2 = 4 /\ 2 * 4 = 8 /\ 2 * 8 = 16 /\ 2 * 16 = 32 /\ 2 * 32 = 64 /\ 2 * 64 = 128 /\ 2 * 128 = 256
  OBVIOUS
<1>13. 1 \in Nat /\ 2 \in Nat /\ 4 \in Nat /\ 8 \in Nat /\ 16 \in Nat /\ 32 \in Nat /\ 64 \in Nat /\ 128 \in Nat
       /\ 1 <= 128 /\ 2 <= 128 /\ 4 <= 128 /\ 8 <= 128 /\ 16 <= 128 /\ 32 <= 128 /\ 64 <= 128 /\ 128 <= 128
  OBVIOUS
<1>14. Same(2) BY <1>7, <1>10, <1>11, <1>12, <1>13, TableApart16, ApartPowers
<1>15. Same(4) BY <1>7, <1>10, <1>14, <1>12, <1>13, TableApart16, ApartPowers
<1>16. Same(8) BY <1>7, <1>10, <1>15, <1>12, <1>13, TableApart16, ApartPowers
<1>17. Same(16) BY <1>7, <1>10, <1>16, <1>12, <1>13, TableApart16, ApartPowers
<1>18. Same(32) BY <1>7, <1>10, <1>17, <1>12, <1>13, TableApart16, ApartPowers
<1>19. Same(64) BY <1>7, <1>10, <1>18, <1>12, <1>13, TableApart16, ApartPowers
<1>20. Same(128) BY <1>7, <1>10, <1>19, <1>12, <1>13, TableApart16, ApartPowers
<1>21. Same(256) BY <1>7, <1>10, <1>20, <1>12, <1>13, TableApart16, ApartPowers
<1> QED BY <1>2, <1>21 DEF Same, p

\* and one of the token table five.
LEMMA TableDivides5 == \A v \in Nat : v < 32 => Entry(crc5_tbl, v) = Division(\h14, v)[5]
<1> DEFINE T == [v \in Nat |-> Entry(crc5_tbl, v)]
           D == [v \in Nat |-> Division(\h14, v)[5]]
           p == \h14
           Same(n) == \A v \in Nat : v < n => T[v] = D[v]
<1>1. p \in Word16 BY Word16Is
<1>2. \A v \in Nat : T[v] = Entry(crc5_tbl, v) /\ D[v] = Division(p, v)[5] OBVIOUS
<1>3. /\ T[0] = 0 /\ T[16] = Divided(p, 1)
      /\ T[8] = Divided(p, T[16])
      /\ T[4] = Divided(p, T[8])
      /\ T[2] = Divided(p, T[4])
      /\ T[1] = Divided(p, T[2])
  BY TableHalved5
<1> HIDE DEF T, D, p
<1>4. D[0] = 0 /\ D[32] = 1
  <2>1. 0 \in Nat /\ 0 <= 31 /\ 1 \in Nat /\ 1 <= 31 /\ 32 * 0 = 0 /\ 32 * 1 = 32 OBVIOUS
  <2> QED BY <1>1, <1>2, <2>1, DivisionOfFive
<1>5. \A x, y \in Nat : y = 2 * x /\ y <= 65535 => D[x] = Divided(p, D[y])
  <2>1. 5 \in 1..15 OBVIOUS
  <2> QED BY <1>1, <1>2, <2>1, DivisionHalved
<1>6. D[16] = Divided(p, D[32])
      /\ D[8] = Divided(p, D[16])
      /\ D[4] = Divided(p, D[8])
      /\ D[2] = Divided(p, D[4])
      /\ D[1] = Divided(p, D[2])
  <2>1. /\ 1 \in Nat /\ 2 \in Nat /\ 2 = 2 * 1 /\ 2 <= 65535
        /\ 2 \in Nat /\ 4 \in Nat /\ 4 = 2 * 2 /\ 4 <= 65535
        /\ 4 \in Nat /\ 8 \in Nat /\ 8 = 2 * 4 /\ 8 <= 65535
        /\ 8 \in Nat /\ 16 \in Nat /\ 16 = 2 * 8 /\ 16 <= 65535
        /\ 16 \in Nat /\ 32 \in Nat /\ 32 = 2 * 16 /\ 32 <= 65535
    OBVIOUS
  <2> QED BY <1>5, <2>1
<1>7. T[1] = D[1] /\ T[2] = D[2] /\ T[4] = D[4] /\ T[8] = D[8] /\ T[16] = D[16]
  BY <1>3, <1>4, <1>6
<1>8. \A n \in Nat : Apart5(n) => \A r \in Nat : r < n => T[n + r] = Xor(T[n], T[r])
  <2> SUFFICES ASSUME NEW n \in Nat, Apart5(n), NEW r \in Nat, r < n PROVE T[n + r] = Xor(T[n], T[r]) OBVIOUS
  <2>1. r \in 0..n - 1 /\ n + r \in Nat OBVIOUS
  <2> QED BY <1>2, <2>1 DEF Apart5
<1>9. \A n \in Nat : Apart(n) /\ n <= 16 => \A r \in Nat : r < n => D[n + r] = Xor(D[n], D[r])
  <2> SUFFICES ASSUME NEW n \in Nat, Apart(n), n <= 16, NEW r \in Nat, r < n PROVE D[n + r] = Xor(D[n], D[r]) OBVIOUS
  <2> QED BY <1>1, <1>2, DivisionApart
<1>10. \A n \in Nat : Same(n) /\ T[n] = D[n] /\ Apart5(n) /\ Apart(n) /\ n <= 16 => Same(2 * n)
  BY <1>8, <1>9, Doubled
<1>11. Same(1)
  <2>1. T[0] = D[0] BY <1>3, <1>4
  <2>2. \A v \in Nat : v < 1 => v = 0 OBVIOUS
  <2> QED BY <2>1, <2>2
<1> HIDE DEF Same
<1>12. 2 * 1 = 2 /\ 2 * 2 = 4 /\ 2 * 4 = 8 /\ 2 * 8 = 16 /\ 2 * 16 = 32
  OBVIOUS
<1>13. 1 \in Nat /\ 2 \in Nat /\ 4 \in Nat /\ 8 \in Nat /\ 16 \in Nat
       /\ 1 <= 16 /\ 2 <= 16 /\ 4 <= 16 /\ 8 <= 16 /\ 16 <= 16
  OBVIOUS
<1>14. Same(2) BY <1>7, <1>10, <1>11, <1>12, <1>13, TableApart5, ApartPowers
<1>15. Same(4) BY <1>7, <1>10, <1>14, <1>12, <1>13, TableApart5, ApartPowers
<1>16. Same(8) BY <1>7, <1>10, <1>15, <1>12, <1>13, TableApart5, ApartPowers
<1>17. Same(16) BY <1>7, <1>10, <1>16, <1>12, <1>13, TableApart5, ApartPowers
<1>18. Same(32) BY <1>7, <1>10, <1>17, <1>12, <1>13, TableApart5, ApartPowers
<1> QED BY <1>2, <1>18 DEF Same, p

-----------------------------------------------------------------------------
(***************************************************************************)
(* The CRCs bit by bit                                                     *)
(***************************************************************************)
\* The CRC after one more bit is a word.
LEMMA ShiftType ==
    ASSUME NEW p \in Word16, NEW r \in Word16, NEW bit \in {0, 1}
    PROVE  Shift(p, r, bit) \in Word16
<1>1. r \div 2 \in Word16 BY XorStep
<1>2. Xor(r \div 2, p) \in Word16 BY <1>1, XorStep
<1> QED BY <1>1, <1>2 DEF Shift

\* The CRC runs bit by bit.
LEMMA ShiftingRun ==
    ASSUME NEW p \in Word16, NEW ones \in Word16, NEW bits \in Seq({0, 1})
    PROVE  /\ Shifting(p, ones, bits) \in [0..Len(bits) -> Word16] /\ Shifting(p, ones, bits)[0] = ones
           /\ \A k \in 1..Len(bits) : Shifting(p, ones, bits)[k] = Shift(p, Shifting(p, ones, bits)[k - 1], bits[k])
<1> DEFINE n == Len(bits)
           step == [k \in 1..n |-> [x \in Word16 |-> Shift(p, x, bits[k])]]
           Body(f) == [k \in 0..n |-> IF k = 0 THEN ones ELSE Shift(p, f[k - 1], bits[k])]
           F == CHOOSE f : f = Body(f)
<1>1. n \in Nat /\ \A k \in 1..n : bits[k] \in {0, 1} OBVIOUS
<1>2. \A x \in Word16, y \in {0, 1} : Shift(p, x, y) \in Word16 BY ShiftType
<1>3. step \in Steps(n, Word16) BY <1>1, <1>2 DEF Steps
<1>4. PICK g : IsRun(g, n, Word16, ones, step)
  <2> HIDE DEF step, n
  <2> QED BY <1>1, <1>3, RunExists
<1>5. \A k \in 1..n : k - 1 \in 0..n /\ k \in 0..n /\ k # 0 BY <1>1
<1>6. g = Body(g)
  <2>1. ASSUME NEW k \in 0..n PROVE g[k] = Body(g)[k]
    <3>1. CASE k = 0 BY <1>4, <3>1 DEF IsRun
    <3>2. CASE k # 0
      <4>1. k \in 1..n BY <1>1, <3>2
      <4> QED BY <1>4, <1>5, <4>1 DEF IsRun
    <3> QED BY <3>1, <3>2
  <2>2. DOMAIN g = 0..n /\ g = [k \in 0..n |-> g[k]] BY <1>4 DEF IsRun
  <2> QED BY <2>1, <2>2
<1>7. F = Body(F)
  <2> HIDE DEF Body
  <2> QED BY <1>6
<1>8. Shifting(p, ones, bits) = F BY DEF Shifting
<1> HIDE DEF F, step
<1>9. F[0] = ones /\ \A k \in 1..n : F[k] = Shift(p, F[k - 1], bits[k])
  <2>1. 0 \in 0..n BY <1>1
  <2> HIDE DEF n
  <2> QED BY <1>5, <1>7, <2>1
<1> DEFINE T == {k \in 0..n : F[k] \in Word16}
<1>10. \A k \in 0..n : k \in T
  <2>1. 0 \in T BY <1>1, <1>9
  <2>2. ASSUME NEW k \in 1..n, k - 1 \in T PROVE k \in T BY <1>1, <1>2, <1>5, <1>9, <2>2
  <2> HIDE DEF T, n
  <2> QED BY <1>1, <2>1, <2>2, UpTo
<1>11. F \in [0..n -> Word16]
  <2>1. DOMAIN F = 0..n /\ F = [k \in 0..n |-> F[k]] BY <1>7
  <2>2. \A k \in 0..n : F[k] \in Word16 BY <1>10
  <2> HIDE DEF n, T
  <2> QED BY <2>1, <2>2
<1> QED BY <1>8, <1>9, <1>11

\* Taking the last bit of a word into a CRC divides the two together by one bit.
LEMMA ShiftDivides ==
    ASSUME NEW p \in Word16, NEW r \in Word16, NEW y \in Word16
    PROVE  Xor(Shift(p, r, y % 2), y \div 2) = Divided(p, Xor(r, y))
<1> DEFINE a == r \div 2
           b == y \div 2
           i == r % 2
           j == y % 2
           x == Xor(r, y)
           rest == IF (r + j) % 2 = 1 THEN p ELSE 0
<1>1. x \div 2 = Xor(a, b) /\ x % 2 = ((r % 2) + (y % 2)) % 2 /\ a \in Word16 /\ b \in Word16 BY XorStep
<1>2. (r + j) % 2 = ((r % 2) + (y % 2)) % 2
  <2>1. r \in Nat /\ y \in Nat BY Word16Is
  <2>2. r = 2 * a + i /\ a \in Nat /\ i \in {0, 1} /\ j \in {0, 1} BY <2>1
  <2> HIDE DEF a, i, j
  <2>3. (r + j) % 2 = (i + j) % 2
    <3>1. r + j = 2 * a + (i + j) /\ i + j \in {0, 1, 2} BY <2>2
    <3> QED BY <2>2
  <2> QED BY <2>3 DEF i, j
<1>3. rest \in Word16
  <2>1. 0 \in Word16 BY Word16Is
  <2> QED BY <2>1
<1>4. Shift(p, r, j) = Xor(a, rest) BY <1>1, XorZero DEF Shift
<1>5. Divided(p, x) = Xor(Xor(a, b), rest) BY <1>1, <1>2 DEF Divided
<1> HIDE DEF a, b, rest, x
<1>6. Xor(Xor(a, rest), b) = Xor(a, Xor(rest, b)) /\ Xor(Xor(a, b), rest) = Xor(a, Xor(b, rest)) BY <1>1, <1>3, XorAssoc
<1>7. Xor(rest, b) = Xor(b, rest) BY <1>1, <1>3, XorComm, Word16Is
<1>8. Xor(Shift(p, r, j), b) = Divided(p, x) BY <1>4, <1>5, <1>6, <1>7
<1> QED BY <1>8 DEF b, x

\* So n bits do, when r is the CRC after each and y what is left of the word.
IsShifts(r, y, p, n) ==
    /\ \A k \in 0..n : r[k] \in Word16 /\ y[k] \in Word16
    /\ \A k \in 1..n : y[k] = y[k - 1] \div 2 /\ r[k] = Shift(p, r[k - 1], y[k - 1] % 2)

\* Then what the two make together has been divided n times.
LEMMA ShiftsDivide ==
    ASSUME NEW p \in Word16, NEW n \in 0..16, NEW r, NEW y, IsShifts(r, y, p, n)
    PROVE  Xor(r[n], y[n]) = Division(p, Xor(r[0], y[0]))[n]
<1> USE DEF IsShifts
<1> DEFINE x == Xor(r[0], y[0])
           d == Division(p, x)
           T == {k \in 0..n : Xor(r[k], y[k]) = d[k]}
<1>1. n \in Nat /\ 0 \in 0..n /\ n \in 0..n OBVIOUS
<1>2. x \in Word16 BY <1>1, XorStep
<1> HIDE DEF x
<1>3. d[0] = x /\ \A k \in 1..16 : d[k] = Divided(p, d[k - 1]) BY <1>2, DivisionRun
<1> HIDE DEF d
<1>4. 0 \in T BY <1>1, <1>3 DEF x
<1>5. ASSUME NEW k \in 1..n, k - 1 \in T PROVE k \in T
  <2>1. k \in 0..n /\ k \in 1..16 /\ k - 1 \in 0..n OBVIOUS
  <2>2. Xor(r[k - 1], y[k - 1]) = d[k - 1] BY <1>5
  <2>3. Xor(Shift(p, r[k - 1], y[k - 1] % 2), y[k - 1] \div 2) = Divided(p, Xor(r[k - 1], y[k - 1]))
    BY <2>1, ShiftDivides
  <2>4. Xor(r[k], y[k]) = d[k] BY <1>3, <2>1, <2>2, <2>3
  <2> QED BY <2>1, <2>4
<1>6. \A k \in 0..n : k \in T
  <2> HIDE DEF T
  <2> QED BY <1>1, <1>4, <1>5, UpTo
<1> QED BY <1>1, <1>6 DEF d, x

\* What is left of a word after each bit, and its bits.
IsHalves(y, x) ==
    /\ \A k \in 0..16 : y[k] \in Word16
    /\ y[0] = x /\ y[8] = x \div 256 /\ y[11] = x \div 2048
    /\ \A k \in 1..16 : y[k] = y[k - 1] \div 2
    /\ \A k \in 0..10 : y[k] % 2 = BitOf(x, k)

\* Every word has such halves.
LEMMA WordHalves ==
    ASSUME NEW x \in Nat, x <= 65535
    PROVE  \E y : IsHalves(y, x)
<1> DEFINE zero == 0
           y == Division(zero, x)
<1>1. zero \in Word16 /\ x \in Word16 BY Word16Is
<1>2. \A w \in Word16 : Divided(zero, w) = w \div 2
  <2>1. ASSUME NEW w \in Word16 PROVE Divided(zero, w) = w \div 2
    <3>1. w \div 2 \in Word16 BY XorStep
    <3>2. Divided(zero, w) = Xor(w \div 2, 0) BY DEF Divided
    <3> QED BY <3>1, <3>2, XorZero
  <2> QED BY <2>1
<1> HIDE DEF zero
<1>3. y \in [0..16 -> Word16] /\ y[0] = x /\ \A k \in 1..16 : y[k] = Divided(zero, y[k - 1]) BY <1>1, DivisionRun
<1> HIDE DEF y
<1> DEFINE Half(n) == n \div 2
           q(w) == x \div w
<1>4. \A k \in 1..16 : y[k] = Half(y[k - 1])
  <2> TAKE k \in 1..16
  <2>1. k - 1 \in 0..16 OBVIOUS
  <2> QED BY <1>2, <1>3, <2>1
<1>5. /\ Half(x) = q(2) /\ Half(q(2)) = q(4) /\ Half(q(4)) = q(8) /\ Half(q(8)) = q(16) /\ Half(q(16)) = q(32)
      /\ Half(q(32)) = q(64) /\ Half(q(64)) = q(128) /\ Half(q(128)) = q(256) /\ Half(q(256)) = q(512)
      /\ Half(q(512)) = q(1024) /\ Half(q(1024)) = q(2048)
  OBVIOUS
<1> HIDE DEF Half, q
<1>6. /\ y[1] = Half(y[0]) /\ y[2] = Half(y[1]) /\ y[3] = Half(y[2]) /\ y[4] = Half(y[3]) /\ y[5] = Half(y[4])
      /\ y[6] = Half(y[5]) /\ y[7] = Half(y[6]) /\ y[8] = Half(y[7]) /\ y[9] = Half(y[8]) /\ y[10] = Half(y[9])
      /\ y[11] = Half(y[10])
  <2>1. /\ 1 \in 1..16 /\ 2 \in 1..16 /\ 3 \in 1..16 /\ 4 \in 1..16 /\ 5 \in 1..16 /\ 6 \in 1..16 /\ 7 \in 1..16
        /\ 8 \in 1..16 /\ 9 \in 1..16 /\ 10 \in 1..16 /\ 11 \in 1..16
        /\ 1 - 1 = 0 /\ 2 - 1 = 1 /\ 3 - 1 = 2 /\ 4 - 1 = 3 /\ 5 - 1 = 4 /\ 6 - 1 = 5 /\ 7 - 1 = 6
        /\ 8 - 1 = 7 /\ 9 - 1 = 8 /\ 10 - 1 = 9 /\ 11 - 1 = 10
    OBVIOUS
  <2> QED BY <1>4, <2>1
<1>7. /\ y[0] = x /\ y[1] = q(2) /\ y[2] = q(4) /\ y[3] = q(8) /\ y[4] = q(16) /\ y[5] = q(32)
      /\ y[6] = q(64) /\ y[7] = q(128) /\ y[8] = q(256) /\ y[9] = q(512) /\ y[10] = q(1024)
      /\ y[11] = q(2048)
  BY <1>3, <1>5, <1>6
<1>8. ASSUME NEW k \in 0..10 PROVE y[k] % 2 = BitOf(x, k)
  <2>1. k \in {0, 1, 2, 3, 4, 5, 6, 7, 8, 9, 10} OBVIOUS
  <2>2. x \div 1 = x OBVIOUS
  <2> QED BY <1>7, <2>1, <2>2 DEF BitOf, Weight, q
<1>9. IsHalves(y, x) BY <1>3, <1>4, <1>7, <1>8 DEF Half, q, IsHalves
<1> QED BY <1>9

\* A byte by the table is eight bits.
LEMMA ByteDivides ==
    ASSUME NEW crc \in Word16, NEW data \in Byte
    PROVE  update_usb_crc16(crc, data) = Division(\ha001, Xor(crc, data))[8]
<1> DEFINE h == crc \div 256
           l == crc % 256
           high == h * 256
           s == Xor(l, data)
           x == Xor(crc, data)
           p == \ha001
<1>1. crc \in Nat /\ crc <= 65535 /\ data \in Nat /\ data <= 255 BY Word16Is DEF Byte
<1>2. h \in Nat /\ h <= 255 /\ l \in Nat /\ l <= 255 /\ l < 256 /\ high \in Nat /\ high + l = crc /\ high <= 65280 BY <1>1
<1>3. high = h * 256 /\ high = 256 * h BY <1>2
<1> HIDE DEF h, l, high
<1>4. s \in Nat /\ s <= 255
  <2>1. l \in 0..255 /\ data \in 0..255 BY <1>1, <1>2
  <2>2. s \in 0..255 BY <2>1, XorByte
  <2> HIDE DEF s
  <2> QED BY <2>2
<1>5. high \in Word16 /\ l \in Word16 /\ data \in Word16 BY <1>1, <1>2, Word16Is
<1>6. \A r \in Nat : r < 256 /\ high + r <= 65535 => Xor(high, r) = high + r
  <2>1. \A m, r \in Nat : r < 256 /\ m * 256 + r <= 65535 => Xor(m * 256, r) = m * 256 + r BY ApartPowers DEF Apart
  <2> QED BY <1>2, <1>3, <2>1
<1>7. Xor(high, l) = crc BY <1>1, <1>2, <1>6
<1>8. Xor(Xor(high, l), data) = Xor(high, s) BY <1>5, XorAssoc
<1>9. s \in Word16
  <2> HIDE DEF s
  <2>1. s <= 65535 BY <1>4
  <2> QED BY <1>4, <2>1, Word16Is
<1> HIDE DEF s
<1>10. Xor(high, s) = high + s
  <2>1. s < 256 /\ high + s <= 65535 BY <1>2, <1>4
  <2> QED BY <1>4, <1>6, <2>1
<1>11. x = high + s BY <1>7, <1>8, <1>10
<1> HIDE DEF x
<1>12. x % 256 = s BY <1>2, <1>3, <1>4, <1>11
<1>13. p \in Word16 BY Word16Is
<1>14. Entry(crc16_tbl, s) = Division(p, s)[8]
  <2>1. s < 256 BY <1>4
  <2> QED BY <1>4, <2>1, TableDivides16
<1> HIDE DEF p
<1>15. Division(p, high)[8] = h
  <2>1. Division(p, 256 * h)[8] = h BY <1>2, <1>13, DivisionOfByte
  <2> QED BY <1>3, <2>1
<1>16. Division(p, Xor(high, s))[8] = Xor(Division(p, high)[8], Division(p, s)[8])
  <2>1. 8 \in 0..16 OBVIOUS
  <2> QED BY <1>5, <1>9, <1>13, <2>1, DivisionLinear
<1>17. Division(p, x)[8] = Xor(h, Entry(crc16_tbl, s)) BY <1>10, <1>11, <1>14, <1>15, <1>16
<1>18. update_usb_crc16(crc, data) = Xor(h, Entry(crc16_tbl, s)) BY <1>12 DEF update_usb_crc16, h, x
<1> QED BY <1>17, <1>18 DEF p, x

\* So the CRC of eight bits is that of the byte.
LEMMA EightShifts ==
    ASSUME NEW data \in Byte, NEW r, \A k \in 0..8 : r[k] \in Word16,
           \A k \in 1..8 : r[k] = Shift(\ha001, r[k - 1], BitOf(data, k - 1))
    PROVE  r[8] = update_usb_crc16(r[0], data)
<1> DEFINE p == \ha001
           n == 8
<1>1. p \in Word16 /\ n \in 0..16 BY Word16Is
<1>2. data \in Nat /\ data <= 65535 /\ data \div 256 = 0 BY DEF Byte
<1>a. PICK y : IsHalves(y, data) BY <1>2, WordHalves
<1>3. /\ \A k \in 0..16 : y[k] \in Word16
      /\ y[0] = data /\ y[8] = data \div 256
      /\ \A k \in 1..16 : y[k] = y[k - 1] \div 2
      /\ \A k \in 0..10 : y[k] % 2 = BitOf(data, k)
  BY <1>a DEF IsHalves
<1>4. \A k \in 0..n : y[k] \in Word16 BY <1>3
<1>5. \A k \in 1..n : y[k] = y[k - 1] \div 2 /\ r[k] = Shift(p, r[k - 1], y[k - 1] % 2)
  <2> TAKE k \in 1..n
  <2>1. k \in 1..16 /\ k - 1 \in 0..10 OBVIOUS
  <2>2. y[k - 1] % 2 = BitOf(data, k - 1) BY <1>3, <2>1
  <2>3. y[k] = y[k - 1] \div 2 BY <1>3, <2>1
  <2>4. r[k] = Shift(p, r[k - 1], BitOf(data, k - 1)) OBVIOUS
  <2> QED BY <2>2, <2>3, <2>4
<1>6. \A k \in 0..n : r[k] \in Word16 OBVIOUS
<1> HIDE DEF p
<1>7. Xor(r[n], y[n]) = Division(p, Xor(r[0], y[0]))[n]
  <2>1. IsShifts(r, y, p, n) BY <1>4, <1>5, <1>6 DEF IsShifts
  <2> HIDE DEF n
  <2> QED BY <1>1, <2>1, ShiftsDivide
<1>8. 8 \in 0..8 /\ 0 \in 0..8 OBVIOUS
<1>9. Xor(r[8], 0) = r[8] BY <1>6, <1>8, XorZero
<1>10. r[8] = Division(p, Xor(r[0], data))[8] BY <1>2, <1>3, <1>7, <1>9
<1>11. update_usb_crc16(r[0], data) = Division(p, Xor(r[0], data))[8] BY <1>6, <1>8, ByteDivides DEF p
<1> QED BY <1>10, <1>11

\* The CRC by table is the CRC of the USB specification, whatever the data.
LEMMA Crc16Agrees == ASSUME NEW data \in Seq(Byte) PROVE calc_usb_crc16(data) = Crc16(data)
<1> DEFINE n == Len(data)
           bits == BitsOf(data)
           ones == \hffff
           p == \ha001
           F == Shifting(p, ones, bits)
           U == Updated(data)
           m == Len(bits)
<1>1. n \in Nat /\ \A k \in 1..n : data[k] \in Byte OBVIOUS
<1>2. /\ bits \in Seq({0, 1}) /\ m = 8 * n
      /\ \A k \in 1..n, b \in 0..7 : bits[8 * k - 7 + b] = BitOf(data[k], b)
  BY BitsType
<1>3. p \in Word16 /\ ones \in Word16 BY Word16Is
<1>4. U[0] = ones /\ \A k \in 1..n : U[k] = update_usb_crc16(U[k - 1], data[k]) BY CrcRun DEF NoCrc
<1> HIDE DEF bits, p, ones, U
<1>5. F \in [0..m -> Word16] /\ F[0] = ones /\ \A k \in 1..m : F[k] = Shift(p, F[k - 1], bits[k])
  BY <1>2, <1>3, ShiftingRun
<1> HIDE DEF F, m, n
<1> DEFINE T == {k \in 0..n : F[8 * k] = U[k]}
<1>6. 0 \in T
  <2>1. 0 \in 0..n /\ 8 * 0 = 0 BY <1>1
  <2> QED BY <1>4, <1>5, <2>1
<1>7. ASSUME NEW k \in 1..n, k - 1 \in T PROVE k \in T
  <2> DEFINE from == 8 * (k - 1)
             r == [j \in 0..8 |-> F[from + j]]
             x == data[k]
  <2>1. k \in 0..n /\ from \in Nat /\ from + 8 = 8 * k /\ from + 8 <= m /\ m \in Nat BY <1>1, <1>2
  <2>2. \A j \in 1..8 : 8 * k - 7 + (j - 1) = from + j /\ j - 1 \in 0..7 BY <1>1
  <2>3. F[from] = U[k - 1] BY <1>7
  <2> HIDE DEF from
  <2>4. \A j \in 0..8 : r[j] = F[from + j] /\ r[j] \in Word16
    <3>1. \A j \in 0..8 : from + j \in 0..m BY <2>1
    <3> QED BY <1>5, <3>1
  <2>5. ASSUME NEW j \in 1..8 PROVE r[j] = Shift(p, r[j - 1], BitOf(x, j - 1))
    <3>1. j \in 0..8 /\ j - 1 \in 0..8 /\ from + j \in 1..m /\ (from + j) - 1 = from + (j - 1) BY <2>1
    <3>2. bits[from + j] = BitOf(x, j - 1)
      <4>1. bits[8 * k - 7 + (j - 1)] = BitOf(data[k], j - 1) BY <1>2, <2>2
      <4> QED BY <2>2, <4>1
    <3>3. F[from + j] = Shift(p, F[(from + j) - 1], bits[from + j]) BY <1>5, <3>1
    <3> HIDE DEF r
    <3> QED BY <2>4, <3>1, <3>2, <3>3
  <2>6. x \in Byte BY <1>1
  <2> HIDE DEF r, x
  <2>7. r[8] = update_usb_crc16(r[0], x) BY <2>4, <2>5, <2>6, EightShifts DEF p
  <2>8. r[0] = F[from] /\ r[8] = F[8 * k]
    <3>1. 0 \in 0..8 /\ 8 \in 0..8 /\ from + 0 = from BY <2>1
    <3> QED BY <2>1, <2>4, <3>1
  <2>9. F[8 * k] = U[k] BY <1>4, <2>3, <2>7, <2>8 DEF x
  <2> QED BY <2>1, <2>9
<1>8. \A k \in 0..n : k \in T
  <2> HIDE DEF T
  <2> QED BY <1>1, <1>6, <1>7, UpTo
<1>9. F[8 * n] = U[n]
  <2>1. n \in 0..n BY <1>1
  <2> QED BY <1>8, <2>1
<1>10. calc_usb_crc16(data) = ones - U[n] BY DEF calc_usb_crc16, ones, U, n
<1>11. Crc16(data) = ones - F[8 * n] BY DEF Crc16, ones, F, n, p, bits
<1> QED BY <1>9, <1>10, <1>11

\* The eleven bits of a token, by its table.
LEMMA TokenDivides ==
    ASSUME NEW word \in Nat, word <= 2047
    PROVE  calc_usb_crc5(word) = \h1f - Division(\h14, Xor(word, \h1f))[11]
<1> DEFINE ones == \h1f
           p == \h14
           data == Xor(word, ones)
           half == data \div 2
           high == data \div 64
           low == half % 32
           start == IF data % 2 = 1 THEN p ELSE 0
           mixed == Xor(low, start)
           first == Entry(crc5_tbl, mixed)
           last == Xor(high, first)
           shifted == high * 32
           d == Division(p, data)
           x == Xor(half, start)
           y == Xor(shifted, mixed)
<1>1. p \in Word16 /\ ones \in Word16 /\ p \in 0..31 /\ ones \in 0..31 BY Word16Is
<1>2. data \in Nat /\ data <= 2047
  <2> DEFINE h == word \div 32
             l == word % 32
             top == h * 32
             s == Xor(l, ones)
  <2>1. h \in Nat /\ l \in 0..31 /\ top \in Nat /\ top <= 2016 /\ top + l = word OBVIOUS
  <2> HIDE DEF ones
  <2>2. s \in 0..31 BY <1>1, <2>1, XorSmall
  <2>3. \A r \in Nat : r < 32 /\ top + r <= 65535 => Xor(top, r) = top + r
    <3>1. \A m, r \in Nat : r < 32 /\ m * 32 + r <= 65535 => Xor(m * 32, r) = m * 32 + r BY ApartPowers DEF Apart
    <3> HIDE DEF h
    <3> QED BY <2>1, <3>1
  <2> HIDE DEF h, l, top
  <2>4. Xor(top, l) = word
    <3>1. l \in Nat /\ l < 32 /\ top + l <= 65535 BY <2>1
    <3> QED BY <2>1, <2>3, <3>1
  <2>5. top \in Word16 /\ l \in Word16
    <3>1. l \in Nat /\ l <= 65535 /\ top <= 65535 BY <2>1
    <3> QED BY <2>1, <3>1, Word16Is
  <2>6. data = Xor(top, s) BY <1>1, <2>4, <2>5, XorAssoc
  <2> HIDE DEF s, data
  <2>7. Xor(top, s) = top + s
    <3>1. s \in Nat /\ s < 32 /\ top + s <= 65535 BY <2>1, <2>2
    <3> QED BY <2>3, <3>1
  <2>8. top + s \in Nat /\ top + s <= 2047 BY <2>1, <2>2
  <2> QED BY <2>6, <2>7, <2>8
<1>3. calc_usb_crc5(word) = ones - Entry(crc5_tbl, Xor(high % 32, first)) BY DEF calc_usb_crc5
<1> HIDE DEF ones, data
<1>4. /\ half \in Nat /\ high \in Nat /\ high <= 31 /\ low \in Nat /\ low <= 31
      /\ shifted \in Nat /\ shifted <= 992 /\ shifted + low = half /\ half <= 1023
  BY <1>2
<1>5. start \in 0..31 /\ start \in Word16
  <2>1. 0 \in Word16 BY Word16Is
  <2> QED BY <1>1, <2>1
<1>6. d[1] = x
  <2>1. data <= 65535 BY <1>2
  <2>2. data \in Word16 BY <1>2, <2>1, Word16Is
  <2>3. 1 \in 1..16 /\ 1 - 1 = 0 OBVIOUS
  <2>4. d[1] = Divided(p, data) BY <1>1, <2>2, <2>3, DivisionRun
  <2> QED BY <2>4 DEF Divided
<1>7. \A r \in Nat : r < 32 /\ shifted + r <= 65535 => Xor(shifted, r) = shifted + r
  <2>1. \A m, r \in Nat : r < 32 /\ m * 32 + r <= 65535 => Xor(m * 32, r) = m * 32 + r BY ApartPowers DEF Apart
  <2> HIDE DEF high
  <2> QED BY <1>4, <2>1
<1>8. shifted = 32 * high BY <1>4
<1> HIDE DEF half, high, low, start, shifted
<1>9. high % 32 = high BY <1>4
<1>10. low \in 0..31 /\ high \in 0..31 /\ low < 32 /\ shifted + low <= 65535 BY <1>4
<1>11. mixed \in 0..31 BY <1>5, <1>10, XorSmall
<1>12. first \in 0..31
  <2> HIDE DEF mixed
  <2> QED BY <1>11, TableSmall
<1>13. last \in 0..31
  <2> HIDE DEF first
  <2> QED BY <1>10, <1>12, XorSmall
<1>14. low \in Word16 /\ high \in Word16 /\ shifted \in Word16
  <2>1. low <= 65535 /\ high <= 65535 /\ shifted <= 65535 BY <1>4
  <2> QED BY <1>4, <2>1, Word16Is
<1>15. x = y
  <2>1. Xor(shifted, low) = half BY <1>4, <1>7, <1>10
  <2>2. Xor(Xor(shifted, low), start) = Xor(shifted, Xor(low, start)) BY <1>5, <1>14, XorAssoc
  <2> QED BY <2>1, <2>2
<1> HIDE DEF x
<1> DEFINE e == Division(p, y)
<1>16. \A v : v \in 0..31 => v \in Nat /\ v < 32 /\ v <= 65535 OBVIOUS
<1>17. mixed \in Word16 /\ last \in Word16 /\ first \in Word16
  <2> HIDE DEF mixed, last, first
  <2> QED BY <1>11, <1>12, <1>13, <1>16, Word16Is
<1>18. y \in Word16
  <2> HIDE DEF mixed
  <2> QED BY <1>14, <1>17, XorStep
<1> HIDE DEF d, e
<1>19. e[5] = last
  <2>1. 5 \in 0..16 OBVIOUS
  <2>2. Division(p, shifted)[5] = high
    <3>1. high <= 63 BY <1>4
    <3>2. Division(p, 32 * high)[5] = high BY <1>1, <1>4, <3>1, DivisionOfFive
    <3> QED BY <1>8, <3>2
  <2>3. Division(p, mixed)[5] = first
    <3> HIDE DEF mixed
    <3> QED BY <1>11, <1>16, TableDivides5 DEF p, first
  <2> HIDE DEF p, mixed, first
  <2>4. Division(p, Xor(shifted, mixed))[5] = Xor(Division(p, shifted)[5], Division(p, mixed)[5])
    BY <1>1, <1>14, <1>17, <2>1, DivisionLinear
  <2> QED BY <2>2, <2>3, <2>4 DEF e
<1>20. d[6] = last /\ d[11] = Entry(crc5_tbl, last)
  <2> HIDE DEF y, last, p
  <2>1. data <= 65535 BY <1>2
  <2>2. data \in Word16 BY <1>2, <2>1, Word16Is
  <2>3. 1 \in 0..16 /\ 5 \in 0..16 - 1 /\ 1 + 5 = 6 /\ 6 \in 0..16 /\ 5 \in 0..16 - 6 /\ 6 + 5 = 11 OBVIOUS
  <2>4. Splits(p, data, 1) /\ Splits(p, data, 6) BY <1>1, <2>2, <2>3, DivisionSplit
  <2>5. d[6] = Division(p, d[1])[5]
    <3>1. d[1 + 5] = Division(p, d[1])[5] BY <2>3, <2>4 DEF Splits, d
    <3> QED BY <3>1
  <2>6. d[11] = Division(p, d[6])[5]
    <3>1. d[6 + 5] = Division(p, d[6])[5] BY <2>3, <2>4 DEF Splits, d
    <3> QED BY <3>1
  <2>7. d[6] = last BY <1>6, <1>15, <1>19, <2>5 DEF e
  <2>8. Entry(crc5_tbl, last) = Division(p, last)[5] BY <1>13, <1>16, TableDivides5 DEF p
  <2> QED BY <2>6, <2>7, <2>8
<1>21. calc_usb_crc5(word) = ones - d[11] BY <1>3, <1>9, <1>20
<1> QED BY <1>21 DEF ones, d, p, data

\* The sum of a token is the CRC of the USB specification, whatever its eleven bits.
LEMMA Crc5Agrees == ASSUME NEW word \in Nat, word <= 2047 PROVE calc_usb_crc5(word) = Crc5(word)
<1> DEFINE n == 11
           p == \h14
           ones == \h1f
           bits == TokenBits(word)
           r == Shifting(p, ones, bits)
<1>1. p \in Word16 /\ ones \in Word16 /\ n \in 0..16 BY Word16Is
<1>2. word <= 65535 /\ word \div 2048 = 0 OBVIOUS
<1>3. PICK y : IsHalves(y, word) BY <1>2, WordHalves
<1>4. /\ \A k \in 0..16 : y[k] \in Word16
      /\ y[0] = word /\ y[11] = word \div 2048
      /\ \A k \in 1..16 : y[k] = y[k - 1] \div 2
      /\ \A k \in 0..10 : y[k] % 2 = BitOf(word, k)
  BY <1>3 DEF IsHalves
<1>5. \A k \in 1..n : y[k - 1] % 2 \in {0, 1} /\ bits[k] = y[k - 1] % 2
  <2> TAKE k \in 1..n
  <2>1. k - 1 \in 0..16 /\ k - 1 \in 0..10 OBVIOUS
  <2>2. y[k - 1] \in Nat BY <1>4, <2>1, Word16Is
  <2>3. bits[k] = BitOf(word, k - 1) BY DEF TokenBits
  <2> QED BY <1>4, <2>1, <2>2, <2>3
<1>6. bits \in Seq({0, 1}) /\ Len(bits) = n
  <2>1. bits = [b \in 1..n |-> BitOf(word, b - 1)] BY DEF TokenBits
  <2>2. bits = [b \in 1..n |-> bits[b]] BY <2>1
  <2>3. n \in Nat OBVIOUS
  <2> HIDE DEF bits, n
  <2>4. bits \in [1..n -> {0, 1}] BY <1>5, <2>2
  <2> QED BY <2>3, <2>4
<1> HIDE DEF bits, p, ones
<1>7. r \in [0..n -> Word16] /\ r[0] = ones /\ \A k \in 1..n : r[k] = Shift(p, r[k - 1], bits[k])
  BY <1>1, <1>6, ShiftingRun
<1> HIDE DEF r
<1>8. \A k \in 0..n : r[k] \in Word16 /\ y[k] \in Word16
  <2>1. \A k \in 0..n : k \in 0..16 OBVIOUS
  <2> QED BY <1>4, <1>7, <2>1
<1>9. \A k \in 1..n : y[k] = y[k - 1] \div 2 /\ r[k] = Shift(p, r[k - 1], y[k - 1] % 2)
  <2> TAKE k \in 1..n
  <2>1. k \in 1..16 OBVIOUS
  <2> QED BY <1>4, <1>5, <1>7, <2>1
<1>10. Xor(r[n], y[n]) = Division(p, Xor(r[0], y[0]))[n]
  <2>1. IsShifts(r, y, p, n) BY <1>8, <1>9 DEF IsShifts
  <2> HIDE DEF n
  <2> QED BY <1>1, <2>1, ShiftsDivide
<1>11. Xor(r[11], 0) = r[11]
  <2>1. 11 \in 0..n OBVIOUS
  <2> QED BY <1>8, <2>1, XorZero
<1>12. Xor(ones, word) = Xor(word, ones) BY <1>1, XorComm, Word16Is
<1>13. r[11] = Division(p, Xor(word, ones))[11] BY <1>2, <1>4, <1>7, <1>10, <1>11, <1>12
<1>14. calc_usb_crc5(word) = ones - r[11] BY <1>13, TokenDivides DEF ones, p
<1>15. Crc5(word) = ones - r[11] BY DEF Crc5, ones, r, p, bits
<1> QED BY <1>14, <1>15

-----------------------------------------------------------------------------
(***************************************************************************)
(* The sums of the packets                                                 *)
(***************************************************************************)

\* Where the data and the sum of a data packet are.
LEMMA DataParts ==
    ASSUME NEW pid \in PidData, NEW payload \in Payloads
    PROVE  LET bytes == DataPacket(pid, payload)
               sum == calc_usb_crc16(payload)
           IN  /\ SubSeq(bytes, 3, Len(bytes) - 2) = payload
               /\ bytes[Len(bytes) - 1] = sum % 256 /\ bytes[Len(bytes)] = sum \div 256
<1> DEFINE bytes == DataPacket(pid, payload)
           sum == calc_usb_crc16(payload)
           data == Summed(payload)
           m == Len(payload)
           n == Len(bytes)
<1>1. /\ bytes \in Seq(Byte) /\ n = m + 4 /\ SubSeq(bytes, 3, Len(bytes)) = data
      /\ payload \in Seq(Byte) /\ m \in Nat
  BY DataShape
<1>2. /\ \A k \in 1..m : data[k] = payload[k]
      /\ data[m + 1] = sum % 256 /\ data[m + 2] = sum \div 256
  BY <1>1, SummedShape
<1> HIDE DEF bytes, sum, data
<1>3. payload = [i \in 1..m |-> payload[i]] BY <1>1
<1> HIDE DEF m
<1>4. n \in Nat BY <1>1
<1>5. \A i \in 1..m + 2 : data[i] = bytes[2 + i]
  <2>1. 3 \in 1..n + 1 /\ n \in 2..n /\ 1 + n - 3 = m + 2 BY <1>1
  <2>2. data = [i \in 1..(1 + n - 3) |-> bytes[3 + i - 1]] BY <1>1, <2>1, SubSeqProperties
  <2>3. \A i \in 1..m + 2 : 3 + i - 1 = 2 + i BY <1>1
  <2> QED BY <2>1, <2>2, <2>3
<1>6. SubSeq(bytes, 3, n - 2) = payload
  <2> DEFINE to == n - 2
  <2>1. 3 \in 1..n + 1 /\ to \in 2..n /\ 1 + to - 3 = m BY <1>1
  <2> HIDE DEF to, n
  <2>2. SubSeq(bytes, 3, to) = [i \in 1..(1 + to - 3) |-> bytes[3 + i - 1]] BY <1>1, <2>1, SubSeqProperties DEF n
  <2>3. \A i \in 1..m : 3 + i - 1 = 2 + i /\ i \in 1..m + 2 BY <1>1
  <2>4. SubSeq(bytes, 3, to) = payload BY <1>2, <1>3, <1>5, <2>1, <2>2, <2>3
  <2> QED BY <2>4 DEF to
<1>7. bytes[n - 1] = sum % 256 /\ bytes[n] = sum \div 256
  <2>1. m + 1 \in 1..m + 2 /\ m + 2 \in 1..m + 2 /\ 2 + (m + 1) = n - 1 /\ 2 + (m + 2) = n BY <1>1
  <2> HIDE DEF n
  <2> QED BY <1>2, <1>5, <2>1
<1> QED BY <1>6, <1>7 DEF bytes, sum

\* What the invariant says of a packet is that its sum is the CRC of the USB specification.
LEMMA InvAgrees == PacketInv => ChecksAgree
<1> SUFFICES ASSUME PacketInv, packet # <<>> PROVE ChecksAgree
  BY DEF ChecksAgree, IsData
<1>1. Formed(packet) BY DEF PacketInv
<1>2. ASSUME packet[2] \in PidData
      PROVE  packet[Len(packet) - 1] + packet[Len(packet)] * 256 = Crc16(Payload)
  <2> DEFINE pid == packet[2]
  <2>1. PICK payload \in Payloads : packet = DataPacket(pid, payload) BY <1>1, <1>2 DEF Formed
  <2> DEFINE sum == calc_usb_crc16(payload)
  <2>2. pid \in PidData BY <1>2
  <2> HIDE DEF pid
  <2>3. /\ SubSeq(packet, 3, Len(packet) - 2) = payload
        /\ packet[Len(packet) - 1] = sum % 256 /\ packet[Len(packet)] = sum \div 256
    BY <2>1, <2>2, DataParts
  <2>4. payload \in Seq(Byte) BY PacketAssumption
  <2>5. sum = Crc16(Payload) BY <2>3, <2>4, Crc16Agrees DEF Payload
  <2>6. sum \in Nat
    <3>1. sum \in Word16 BY <2>4, SumType
    <3> HIDE DEF sum
    <3> QED BY <3>1, Word16Is
  <2> HIDE DEF sum
  <2>7. (sum % 256) + (sum \div 256) * 256 = sum BY <2>6
  <2> QED BY <2>3, <2>5, <2>7
<1>3. ASSUME packet[2] \in {PidOut, PidSof}
      PROVE  packet[4] \div 8 = Crc5(packet[3] + (packet[4] % 8) * 256)
  <2> DEFINE pid == packet[2]
  <2>1. PICK word \in Words : packet = TokenPacket(pid, word) BY <1>1, <1>3 DEF Formed
  <2> HIDE DEF pid
  <2> DEFINE crc == calc_usb_crc5(word)
             low == word % 256
             high == word \div 256
             last == crc * 8 + high
  <2>2. word \in Nat /\ word <= 2047 BY PacketAssumption
  <2>3. crc = Crc5(word) BY <2>2, Crc5Agrees
  <2>4. crc \in 0..31 BY <2>2, SumOfToken
  <2>5. packet[3] = low /\ packet[4] = last BY <2>1 DEF TokenPacket
  <2> HIDE DEF crc
  <2>6. low \in Nat /\ high \in 0..7 /\ low + high * 256 = word BY <2>2
  <2> HIDE DEF low, high
  <2>7. last \div 8 = crc /\ last % 8 = high BY <2>4, <2>6
  <2> HIDE DEF last
  <2> QED BY <2>3, <2>5, <2>6, <2>7
<1> QED BY <1>2, <1>3 DEF ChecksAgree, IsData

\* The sum of every data packet and of every token is what the USB specification defines, for
\* data of any bytes and any length: the tables compute the remainder bit by bit.
\* (calc_usb_crc5, calc_usb_crc16, update_usb_crc16, prepare_tx_data, pio_usb_bus_send_token)
THEOREM PacketsChecked == PacketSpec => []ChecksAgree
<1>1. PacketSpec => []PacketInv BY PacketInitInv, PacketNextInv, PTL DEF PacketSpec
<1> QED BY <1>1, InvAgrees, PTL
=============================================================================
