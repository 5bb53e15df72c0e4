------------------------------ MODULE UsbPacket ------------------------------
(***************************************************************************)
(* Packets on the wire: src/src/Pico-PIO-USB/src/pio_usb.c and usb_crc.c.  *)
(* A packet is encoded (bit stuffing, NRZI, end of packet), goes over a    *)
(* line that may spoil one bit time or lose the rest of it, is decoded by  *)
(* the NRZI decoder of usb_rx.pio, and taken or dropped by the receiver.   *)
(*                                                                         *)
(* The sender of a packet the host receives is a device that encodes the   *)
(* same way.  The timing of the PIO programs is left out: the receiver     *)
(* samples each bit time once.                                             *)
(***************************************************************************)
EXTENDS Naturals, SequencesExt

CONSTANTS
    PIO_USB_EP_SIZE,    \* the longest data of a packet
    Payloads,           \* data of DATA0 and DATA1 packets
    Words,              \* the 11 bits of a token: endpoint and address, or the frame number
    Disturbed           \* payloads whose packets the line may spoil

Byte == 0..255

ASSUME PacketAssumption ==
    /\ PIO_USB_EP_SIZE \in Nat
    /\ \A payload \in Payloads : payload \in Seq(Byte) /\ Len(payload) <= PIO_USB_EP_SIZE
    /\ Words \subseteq 0..2047

VARIABLES
    packet,         \* the bytes sent
    encoded,        \* the 2-bit codes the TX program plays
    wire,           \* the codes the receiver samples; <<>> while the line is idle
    usb_rx_buffer,  \* bytes received
    received        \* what the receiver makes of them

packet_vars == <<packet, encoded, wire, usb_rx_buffer, received>>

USB_SYNC == \h80
PidOut == \he1
PidSof == \ha5
PidData == {\hc3, \h4b}                   \* DATA0, DATA1
PidHandshake == {\hd2, \h5a, \h1e}        \* ACK, NAK, STALL
EncodedSize(bytes) == (bytes * 2 * 7) \div 6 + 2  \* of ep->buffer and packet_encoded
HandshakeSize == 5                        \* of ack_encoded, nak_encoded, stall_encoded

-----------------------------------------------------------------------------
(***************************************************************************)
(* CRCs, by table                                                          *)
(***************************************************************************)
\* x ^ y, of 16 bits; with all ones, x ^ 0xffff is 0xffff - x.
Xor(x, y) ==
    LET bit(w) == ((x \div w + y \div w) % 2) * w
    IN  bit(1) + bit(2) + bit(4) + bit(8) + bit(16) + bit(32) + bit(64) + bit(128)
        + bit(256) + bit(512) + bit(1024) + bit(2048) + bit(4096) + bit(8192) + bit(16384) + bit(32768)

crc5_tbl ==
    <<\h00, \h0b, \h16, \h1d, \h05, \h0e, \h13, \h18,
      \h0a, \h01, \h1c, \h17, \h0f, \h04, \h19, \h12,
      \h14, \h1f, \h02, \h09, \h11, \h1a, \h07, \h0c,
      \h1e, \h15, \h08, \h03, \h1b, \h10, \h0d, \h06>>

crc16_tbl ==
    <<\h0000, \hc0c1, \hc181, \h0140, \hc301, \h03c0, \h0280, \hc241, \hc601, \h06c0, \h0780, \hc741, \h0500, \hc5c1, \hc481, \h0440,
      \hcc01, \h0cc0, \h0d80, \hcd41, \h0f00, \hcfc1, \hce81, \h0e40, \h0a00, \hcac1, \hcb81, \h0b40, \hc901, \h09c0, \h0880, \hc841,
      \hd801, \h18c0, \h1980, \hd941, \h1b00, \hdbc1, \hda81, \h1a40, \h1e00, \hdec1, \hdf81, \h1f40, \hdd01, \h1dc0, \h1c80, \hdc41,
      \h1400, \hd4c1, \hd581, \h1540, \hd701, \h17c0, \h1680, \hd641, \hd201, \h12c0, \h1380, \hd341, \h1100, \hd1c1, \hd081, \h1040,
      \hf001, \h30c0, \h3180, \hf141, \h3300, \hf3c1, \hf281, \h3240, \h3600, \hf6c1, \hf781, \h3740, \hf501, \h35c0, \h3480, \hf441,
      \h3c00, \hfcc1, \hfd81, \h3d40, \hff01, \h3fc0, \h3e80, \hfe41, \hfa01, \h3ac0, \h3b80, \hfb41, \h3900, \hf9c1, \hf881, \h3840,
      \h2800, \he8c1, \he981, \h2940, \heb01, \h2bc0, \h2a80, \hea41, \hee01, \h2ec0, \h2f80, \hef41, \h2d00, \hedc1, \hec81, \h2c40,
      \he401, \h24c0, \h2580, \he541, \h2700, \he7c1, \he681, \h2640, \h2200, \he2c1, \he381, \h2340, \he101, \h21c0, \h2080, \he041,
      \ha001, \h60c0, \h6180, \ha141, \h6300, \ha3c1, \ha281, \h6240, \h6600, \ha6c1, \ha781, \h6740, \ha501, \h65c0, \h6480, \ha441,
      \h6c00, \hacc1, \had81, \h6d40, \haf01, \h6fc0, \h6e80, \hae41, \haa01, \h6ac0, \h6b80, \hab41, \h6900, \ha9c1, \ha881, \h6840,
      \h7800, \hb8c1, \hb981, \h7940, \hbb01, \h7bc0, \h7a80, \hba41, \hbe01, \h7ec0, \h7f80, \hbf41, \h7d00, \hbdc1, \hbc81, \h7c40,
      \hb401, \h74c0, \h7580, \hb541, \h7700, \hb7c1, \hb681, \h7640, \h7200, \hb2c1, \hb381, \h7340, \hb101, \h71c0, \h7080, \hb041,
      \h5000, \h90c1, \h9181, \h5140, \h9301, \h53c0, \h5280, \h9241, \h9601, \h56c0, \h5780, \h9741, \h5500, \h95c1, \h9481, \h5440,
      \h9c01, \h5cc0, \h5d80, \h9d41, \h5f00, \h9fc1, \h9e81, \h5e40, \h5a00, \h9ac1, \h9b81, \h5b40, \h9901, \h59c0, \h5880, \h9841,
      \h8801, \h48c0, \h4980, \h8941, \h4b00, \h8bc1, \h8a81, \h4a40, \h4e00, \h8ec1, \h8f81, \h4f40, \h8d01, \h4dc0, \h4c80, \h8c41,
      \h4400, \h84c1, \h8581, \h4540, \h8701, \h47c0, \h4680, \h8641, \h8201, \h42c0, \h4380, \h8341, \h4100, \h81c1, \h8081, \h4040>>

Entry(tbl, index) == tbl[index + 1]

\* Fault: the low bit of the word is not taken into account.
Crc5WithoutLowBit(word) ==
    LET data == Xor(word, \h1f)
        first == Entry(crc5_tbl, (data \div 2) % 32)
    IN  \h1f - Entry(crc5_tbl, Xor((data \div 64) % 32, first))

calc_usb_crc5(word) ==
    LET data == Xor(word, \h1f)
        start == IF data % 2 = 1 THEN \h14 ELSE 0
        first == Entry(crc5_tbl, Xor((data \div 2) % 32, start))
    IN  \h1f - Entry(crc5_tbl, Xor((data \div 64) % 32, first))

update_usb_crc16(crc, data) == Xor(crc \div 256, Entry(crc16_tbl, Xor(crc, data) % 256))

\* The CRC after n bytes.
Updated(data) ==
    LET crc[n \in 0..Len(data)] == IF n = 0 THEN \hffff ELSE update_usb_crc16(crc[n - 1], data[n])
    IN  crc

calc_usb_crc16(data) == \hffff - Updated(data)[Len(data)]

-----------------------------------------------------------------------------
(***************************************************************************)
(* Sending                                                                 *)
(***************************************************************************)
Weight == <<1, 2, 4, 8, 16, 32, 64, 128, 256, 512, 1024>>
BitOf(byte, b) == (byte \div Weight[b + 1]) % 2
BitsOf(bytes) == [n \in 1..8 * Len(bytes) |-> BitOf(bytes[(n - 1) \div 8 + 1], (n - 1) % 8)]

Opposite(level) == IF level = "K" THEN "J" ELSE "K"

\* Fault: a bit is stuffed after seven ones.
EncodeStuffingLate(e, bit) ==
    LET level == IF bit = 1 THEN e.level ELSE Opposite(e.level)
        left == IF bit = 1 THEN e.bit_stuffing - 1 ELSE 7
        stuffed == IF left = 0 THEN <<Opposite(level)>> ELSE <<>>
    IN  [e EXCEPT !.codes = Append(@, level) \o stuffed,
                  !.level = IF left = 0 THEN Opposite(level) ELSE level,
                  !.bit_stuffing = IF left = 0 THEN 7 ELSE left]

\* A zero changes the level; after six ones a change is stuffed in.
EncodeBit(e, bit) ==
    LET level == IF bit = 1 THEN e.level ELSE Opposite(e.level)
        left == IF bit = 1 THEN e.bit_stuffing - 1 ELSE 6
        stuffed == IF left = 0 THEN <<Opposite(level)>> ELSE <<>>
    IN  [e EXCEPT !.codes = Append(@, level) \o stuffed,
                  !.level = IF left = 0 THEN Opposite(level) ELSE level,
                  !.bit_stuffing = IF left = 0 THEN 6 ELSE left]

\* Fault: the terminating Ks are there only to fill a byte.
PaddingIfNeeded(n) == [k \in 1..(4 - (n % 4)) % 4 |-> "K"]

\* At least one K, and then up to the end of a byte.
Padding(n) == [k \in 1..4 - (n % 4) |-> "K"]

\* What has been encoded after n bits.
Encoding(bits) ==
    LET e[n \in 0..Len(bits)] ==
            IF n = 0 THEN [codes |-> <<>>, level |-> "K", bit_stuffing |-> 6] ELSE EncodeBit(e[n - 1], bits[n])
    IN  e

pio_usb_ll_encode_tx_data(bytes) ==
    LET codes == Encoding(BitsOf(bytes))[8 * Len(bytes)].codes \o <<"SE0", "COMP">>
    IN  codes \o Padding(Len(codes))

\* prepare_tx_data
DataPacket(pid, payload) ==
    LET crc16 == calc_usb_crc16(payload)
    IN  <<USB_SYNC, pid>> \o payload \o <<crc16 % 256, crc16 \div 256>>

\* pio_usb_bus_send_token, and the start of frame of pio_usb_host_frame
TokenPacket(pid, word) ==
    <<USB_SYNC, pid, word % 256, calc_usb_crc5(word) * 8 + word \div 256>>

Put(bytes) ==
    /\ packet = <<>>
    /\ packet' = bytes /\ encoded' = pio_usb_ll_encode_tx_data(bytes) /\ wire' = encoded'
    /\ UNCHANGED <<usb_rx_buffer, received>>

SendData == \E pid \in PidData, payload \in Payloads : Put(DataPacket(pid, payload))
SendToken == \E pid \in {PidOut, PidSof}, word \in Words : Put(TokenPacket(pid, word))
pio_usb_bus_send_handshake == \E pid \in PidHandshake : Put(<<USB_SYNC, pid>>)

-----------------------------------------------------------------------------
(***************************************************************************)
(* The line                                                                *)
(***************************************************************************)
IsData == packet # <<>> /\ packet[2] \in PidData
IsHandshake == packet # <<>> /\ packet[2] \in PidHandshake
Payload == SubSeq(packet, 3, Len(packet) - 2)
Sensitive == wire # <<>> /\ wire = encoded /\ (IsHandshake \/ (IsData /\ Payload \in Disturbed))

\* One bit time is read wrong.
Spoil ==
    /\ Sensitive
    /\ \E n \in 1..Len(wire) : /\ wire[n] \in {"J", "K"} /\ n < Len(wire) - 4
                               /\ wire' = [wire EXCEPT ![n] = Opposite(@)]
    /\ UNCHANGED <<packet, encoded, usb_rx_buffer, received>>

\* The device is gone in the middle of the packet.
Cut ==
    /\ Sensitive
    /\ \E n \in 1..Len(wire) - 6 : wire' = SubSeq(wire, 1, n)
    /\ UNCHANGED <<packet, encoded, usb_rx_buffer, received>>

-----------------------------------------------------------------------------
(***************************************************************************)
(* Receiving                                                               *)
(***************************************************************************)

\* usb_nrzi_decoder: the bit after six ones is dropped, whatever it is.
DecodeLevel(d, level) ==
    LET stuffed == d.y = 0
        bit == IF level = d.x THEN 1 ELSE 0
    IN  [d EXCEPT !.x = IF stuffed THEN Opposite(@) ELSE level,
                  !.y = IF stuffed \/ bit = 0 THEN 6 ELSE @ - 1,
                  !.bits = IF stuffed THEN @ ELSE Append(@, bit)]

EndOfPacket == "SE0" \in Range(wire)
\* The codes before SE0.
Sampled == IF EndOfPacket THEN SubSeq(wire, 1, SelectInSeq(wire, LAMBDA code : code = "SE0") - 1)
           ELSE wire

\* What has been decoded after n codes.
Decoding(codes) ==
    LET d[n \in 0..Len(codes)] ==
            IF n = 0 THEN [x |-> "K", y |-> 6, bits |-> <<>>] ELSE DecodeLevel(d[n - 1], codes[n])
    IN  d

ByteOf(bits) ==
    bits[1] + 2 * bits[2] + 4 * bits[3] + 8 * bits[4] + 16 * bits[5] + 32 * bits[6] + 64 * bits[7] + 128 * bits[8]

\* Whole bytes only: the FIFO is filled every eight bits.
Bytes ==
    LET bits == Decoding(Sampled)[Len(Sampled)].bits
    IN  [n \in 1..Len(bits) \div 8 |-> ByteOf(SubSeq(bits, 8 * n - 7, 8 * n))]

\* Fault: only one byte of the sum is compared.
TakeComparingLow(c, data) ==
    LET got == (c.crc_receive \div 256) + data * 256
    IN  [crc |-> update_usb_crc16(c.crc, data), crc_prev |-> c.crc, crc_prev2 |-> c.crc_prev,
         crc_receive |-> got, crc_match |-> (\hffff - got) % 256 = c.crc_prev2 % 256]

\* One byte after the PID.
TakeByte(c, data) ==
    LET got == (c.crc_receive \div 256) + data * 256
    IN  [crc |-> update_usb_crc16(c.crc, data), crc_prev |-> c.crc, crc_prev2 |-> c.crc_prev,
         crc_receive |-> got, crc_match |-> \hffff - got = c.crc_prev]

NothingTaken == [crc |-> \hffff, crc_prev |-> \hffff, crc_prev2 |-> \hffff,
                 crc_receive |-> \hffff, crc_match |-> FALSE]

\* What has become of them after n bytes.
Taking(data) ==
    LET c[n \in 0..Len(data)] == IF n = 0 THEN NothingTaken ELSE TakeByte(c[n - 1], data[n])
    IN  c

\* The packet is acknowledged, and its length returned, if the CRC matches; a packet
\* without its end times out.
pio_usb_bus_receive_packet_and_handshake ==
    LET bytes == Bytes
        data == SubSeq(bytes, 3, Len(bytes))
        check == Taking(data)[Len(data)]
    IN  /\ wire # <<>> /\ ~IsHandshake
        /\ usb_rx_buffer' = bytes
        /\ received' = IF EndOfPacket /\ Len(bytes) >= 4 /\ check.crc_match THEN "acknowledged" ELSE "dropped"
        /\ wire' = <<>> /\ UNCHANGED <<packet, encoded>>

\* Two bytes, the first a SYNC; what it returns is the PID, or 0.
pio_usb_bus_wait_handshake ==
    LET bytes == IF Len(Bytes) > 2 THEN SubSeq(Bytes, 1, 2) ELSE Bytes
    IN  /\ wire # <<>> /\ IsHandshake
        /\ usb_rx_buffer' = bytes
        /\ received' = IF Len(bytes) = 2 /\ bytes[1] = USB_SYNC THEN "handshake" ELSE "invalid"
        /\ wire' = <<>> /\ UNCHANGED <<packet, encoded>>

-----------------------------------------------------------------------------
\* The next packet is taken by itself.
Idle ==
    /\ received # "nothing" /\ received' = "nothing"
    /\ packet' = <<>> /\ encoded' = <<>> /\ usb_rx_buffer' = <<>> /\ UNCHANGED wire

PacketInit == packet = <<>> /\ encoded = <<>> /\ wire = <<>> /\ usb_rx_buffer = <<>> /\ received = "nothing"

PacketNext ==
    \/ SendData \/ SendToken \/ pio_usb_bus_send_handshake
    \/ Spoil \/ Cut
    \/ pio_usb_bus_receive_packet_and_handshake \/ pio_usb_bus_wait_handshake
    \/ Idle

PacketSpec == PacketInit /\ [][PacketNext]_packet_vars

-----------------------------------------------------------------------------
(***************************************************************************)
(* Properties                                                              *)
(***************************************************************************)

\* The CRCs of the USB specification, bit by bit.
Shift(polynomial, crc, bit) ==
    IF (crc + bit) % 2 = 1 THEN Xor(crc \div 2, polynomial) ELSE crc \div 2
Shifting(polynomial, ones, bits) ==
    LET crc[n \in 0..Len(bits)] == IF n = 0 THEN ones ELSE Shift(polynomial, crc[n - 1], bits[n])
    IN  crc
TokenBits(word) == [b \in 1..11 |-> BitOf(word, b - 1)]
Crc16(bytes) == \hffff - Shifting(\ha001, \hffff, BitsOf(bytes))[8 * Len(bytes)]
Crc5(word) == \h1f - Shifting(\h14, \h1f, TokenBits(word))[11]

\* What the tables compute is what the USB specification defines, for the data of a packet
\* and for every token.  (calc_usb_crc5, calc_usb_crc16)
ChecksAgree ==
    /\ IsData => packet[Len(packet) - 1] + packet[Len(packet)] * 256 = Crc16(Payload)
    /\ packet # <<>> /\ packet[2] \in {PidOut, PidSof} =>
           packet[4] \div 8 = Crc5(packet[3] + (packet[4] % 8) * 256)

\* An encoded packet fits its buffer, is a whole number of bytes and ends with an idle line,
\* and the level changes at least every seven bit times.
\* (the buffer sizes of endpoint_t, pio_usb_bus_send_token and pio_usb_bus_init)
EncodingFits ==
    packet # <<>> =>
        /\ Len(encoded) % 4 = 0
        /\ encoded[Len(encoded)] = "K"
        /\ IF IsHandshake THEN Len(encoded) = 4 * HandshakeSize
           ELSE Len(encoded) <= 4 * EncodedSize(IF IsData THEN PIO_USB_EP_SIZE + 4 ELSE 4)
        /\ \A n \in 1..Len(encoded) - 7 : \E k \in 1..7 : encoded[n + k] # encoded[n]

\* A packet that arrives as it was sent is taken as it was sent: stuffing, NRZI and CRC of the
\* two directions are each other's inverse.  (pio_usb_ll_encode_tx_data, usb_nrzi_decoder)
SoundIsTaken ==
    [][wire = encoded /\ wire # <<>> /\ wire' = <<>> =>
           /\ usb_rx_buffer' = packet
           /\ IsData => received' = "acknowledged"
           /\ IsHandshake => received' = "handshake"]_packet_vars

\* A packet one bit time of which was read wrong, or that was cut, is never acknowledged with
\* its own PID, its own length and other data; a handshake is never read as another.  (Nothing
\* is said of other lengths: the decoder drops stuffed bits unchecked and bits that make no
\* whole byte, and what is left of a packet may have a CRC that matches.)
\* (receive_pid == expect_pid in usb_in_transaction, pio_usb_bus_wait_handshake)
NotFooled ==
    /\ (received = "acknowledged" /\ usb_rx_buffer[2] = packet[2] /\ Len(usb_rx_buffer) = Len(packet))
           => Tail(usb_rx_buffer) = Tail(packet)
    /\ received = "handshake" /\ usb_rx_buffer[2] \in PidHandshake => usb_rx_buffer = packet
=============================================================================
