----------------------------- MODULE PioUsbFrame -----------------------------
(***************************************************************************)
(* One frame of the PIO USB host, packet by packet: pio_usb_host_frame of  *)
(* src/src/Pico-PIO-USB/src/pio_usb_host.c and what it calls.              *)
(*                                                                         *)
(* All root ports share one transmitter and one receiver.  Before a packet *)
(* their registers must fit the device spoken to: its pins, its polarity,  *)
(* its bit rate and, for a low-speed device behind a hub, the PRE packet.  *)
(*                                                                         *)
(* The frame runs in a timer interrupt: the main loop acts between frames  *)
(* only, devices come and go at any time.  How a reset drives the line,    *)
(* aborts and what a transaction comes to are left open here: they are in  *)
(* PioUsbRootPort and PioUsbTransfer.                                      *)
(***************************************************************************)
EXTENDS Integers

CONSTANTS
    Ports,          \* root ports that are initialized: PIO_USB_ROOT_PORT_CNT at most
    PoolSize,       \* PIO_USB_EP_POOL_CNT
    Pinout,         \* "dpdm": pin_dm follows pin_dp, "dmdp": it precedes it
    Kinds,          \* the endpoints of devices: low-speed behind a hub, interrupt, IN, bInterval
    CounterMod      \* interval_counter is a uint8_t: 2^8

Program == {"dpdm", "dmdp"}
Kind == [need_pre : BOOLEAN, periodic : BOOLEAN, input : BOOLEAN, interval : 0..CounterMod-1]

ASSUME FrameAssumption ==
    /\ Ports \in Nat \ {0} /\ PoolSize \in Nat \ {0} /\ CounterMod \in Nat \ {0}
    /\ Pinout \in [0..Ports-1 -> Program]
    /\ Kinds \subseteq Kind

VARIABLES
    attached,       \* what is plugged into a port: "full", "low" or "none"
    connected, suspended, is_fullspeed,     \* of the root_port_t
    ep,             \* the pool: [size (it is open), root_idx, kind, interval_counter, has_transfer]
    pp,             \* pio_port_t, and the registers of its state machines
    phase,          \* where the frame is; "idle": between two frames
    root, slot,     \* the loop variables root_idx and ep_pool_idx
    left,           \* packets the transaction still sends
    \* history
    wire,           \* the last packet of the frame and how its answer is listened for
    since           \* frames its port was served since an endpoint had a transaction

port == <<connected, suspended, is_fullspeed>>
loop == <<phase, root, slot, left>>
vars == <<attached, port, ep, pp, loop, wire, since>>

Roots == 0..Ports-1
Slots == 0..PoolSize-1
Operating(r) == connected[r] /\ ~suspended[r]

-----------------------------------------------------------------------------
(***************************************************************************)
(* The registers.  "program" is what instr_mem holds, "first" its first    *)
(* instruction, which ends a packet: SE0, or the J of a program for PRE.   *)
(* rx_pin is the jmp pin of sm_rx, eop_pin the in pin of sm_eop.           *)
(***************************************************************************)
Pin == Roots \X {"dp", "dm"}
Speed == {"full", "low"}
Pp == [ low_speed : BOOLEAN, need_pre : BOOLEAN, fs_tx_program : Program,
        program : Program, first : {"SE0"} \cup Program, tx_div : Speed, tx_pins : Roots,
        rx_pin : Pin, eop_pin : Pin, eop_div : Speed ]

configure_fullspeed_host(p, r) ==
    [ low_speed |-> FALSE, need_pre |-> p.need_pre, fs_tx_program |-> Pinout[r],
      program |-> Pinout[r], first |-> "SE0", tx_div |-> "full", tx_pins |-> r,
      rx_pin |-> <<r, "dp">>, eop_pin |-> <<r, "dp">>, eop_div |-> "full" ]

Other(program) == IF program = "dpdm" THEN "dmdp" ELSE "dpdm"

configure_lowspeed_host(p, r) ==
    [ low_speed |-> TRUE, need_pre |-> p.need_pre, fs_tx_program |-> Pinout[r],
      program |-> Other(Pinout[r]), first |-> "SE0", tx_div |-> "low", tx_pins |-> r,
      rx_pin |-> <<r, "dm">>, eop_pin |-> <<r, "dm">>, eop_div |-> "low" ]

configure_root_port(p, r) ==
    IF is_fullspeed[r] THEN configure_fullspeed_host(p, r) ELSE configure_lowspeed_host(p, r)

\* Fault: the receiver stays at low speed.
RestoreTransmitterOnly(p) == [p EXCEPT !.low_speed = FALSE, !.tx_div = "full"]
restore_fs_bus(p) == [p EXCEPT !.low_speed = FALSE, !.tx_div = "full", !.eop_div = "full"]

\* send_pre: the registers while the PRE packet is sent, and after it.
BeforePre(p) == [p EXCEPT !.low_speed = FALSE, !.first = p.fs_tx_program, !.tx_div = "full"]
AfterPre(p) == [p EXCEPT !.low_speed = TRUE, !.first = "SE0", !.tx_div = "low", !.eop_div = "low"]

\* The pin that is high in a J of a program.
High(program, r) == IF program = Pinout[r] THEN "dp" ELSE "dm"

\* What the registers put on the line, and how they take an answer.
Signal(p) ==
    [ pins |-> p.tx_pins, J |-> High(p.program, p.tx_pins), rate |-> p.tx_div,
      end |-> IF p.first = "SE0" THEN "SE0" ELSE High(p.first, p.tx_pins) ]
Reception(p) ==
    [rx_pin |-> p.rx_pin, eop_pin |-> p.eop_pin, rate |-> p.eop_div, low_speed |-> p.low_speed]

Nothing == [pins |-> 0, J |-> "none", rate |-> "none", end |-> "none"]
Silence == [on |-> FALSE, to |-> 0, need_pre |-> FALSE, pre |-> Nothing, packet |-> Nothing,
            listening |-> Nothing]

\* A packet with the registers p to port r; need_pre: to a low-speed device behind a hub.
pio_usb_bus_usb_transfer(p, r, need_pre) ==
    LET sending == IF p.need_pre THEN AfterPre(p) ELSE p
    IN  /\ pp' = sending
        /\ wire' = [ on |-> TRUE, to |-> r, need_pre |-> need_pre,
                     pre |-> IF p.need_pre THEN Signal(BeforePre(p)) ELSE Nothing,
                     packet |-> Signal(sending), listening |-> Reception(sending) ]

\* What else a closed slot holds nobody reads.
Closed(has_transfer) ==
    [ size |-> FALSE, root_idx |-> 0, interval_counter |-> 0, has_transfer |-> has_transfer,
      kind |-> [need_pre |-> FALSE, periodic |-> FALSE, input |-> FALSE, interval |-> 0] ]

Init ==
    /\ attached = [r \in Roots |-> "none"]
    /\ connected = [r \in Roots |-> FALSE] /\ suspended = [r \in Roots |-> FALSE]
    /\ is_fullspeed = [r \in Roots |-> FALSE]
    /\ ep = [x \in Slots |-> Closed(FALSE)]
    /\ pp = configure_fullspeed_host([need_pre |-> FALSE], 0)
    /\ phase = "idle" /\ root = 0 /\ slot = 0 /\ left = 0
    /\ wire = Silence /\ since = [x \in Slots |-> 0]

-----------------------------------------------------------------------------
(***************************************************************************)
(* The devices.  One that is exchanged is away for at least a frame: a     *)
(* port takes the next one after the loss of the last was noticed.         *)
(***************************************************************************)
PlugIn(r, speed) ==
    /\ attached[r] = "none" /\ ~connected[r] /\ attached' = [attached EXCEPT ![r] = speed]
    /\ UNCHANGED <<port, ep, pp, loop, wire, since>>
Unplug(r) ==
    /\ attached[r] # "none" /\ attached' = [attached EXCEPT ![r] = "none"]
    /\ UNCHANGED <<port, ep, pp, loop, wire, since>>

-----------------------------------------------------------------------------
(***************************************************************************)
(* The frame                                                               *)
(***************************************************************************)
sof_timer ==
    /\ phase = "idle" /\ phase' = "sof" /\ root' = 0
    /\ UNCHANGED <<attached, port, ep, pp, slot, left, wire, since>>

\* On to the next port, or to what follows the loop.
NextPort(this, after) ==
    IF root + 1 < Ports THEN root' = root + 1 /\ phase' = this ELSE root' = 0 /\ phase' = after

\* connection_check finds the line in SE0: the transfers are retired.
Disconnect ==
    /\ connected' = [connected EXCEPT ![root] = FALSE]
    /\ suspended' = [suspended EXCEPT ![root] = TRUE]
    /\ ep' = [x \in Slots |-> IF ep[x].root_idx = root /\ ep[x].size
                              THEN [ep[x] EXCEPT !.has_transfer = FALSE] ELSE ep[x]]
    /\ UNCHANGED <<is_fullspeed, pp, wire>>

\* The start of frame, or the keep alive of a low-speed device.
SendSof ==
    /\ phase = "sof" /\ NextPort("sof", "ports")
    /\ \/ ~Operating(root) /\ UNCHANGED <<port, ep, pp, wire>>
       \/ Operating(root) /\ attached[root] = "none" /\ Disconnect
       \/ /\ Operating(root) /\ attached[root] # "none"
          /\ pio_usb_bus_usb_transfer(configure_root_port(pp, root), root, FALSE)
          /\ UNCHANGED <<port, ep>>
    /\ UNCHANGED <<attached, slot, left, since>>

Least(a, b) == IF a <= b THEN a ELSE b
\* Frames between two transactions of an endpoint: an interval of 0 wraps.
Period(kind) == IF ~kind.periodic THEN 1 ELSE IF kind.interval = 0 THEN CounterMod ELSE kind.interval
Counted == [x \in Slots |-> IF ep[x].size /\ ep[x].root_idx = root
                            THEN Least(since[x] + 1, Period(ep[x].kind)) ELSE since[x]]

\* The port is set up anew for its endpoints.
ServePort ==
    /\ phase = "ports"
    /\ \/ ~Operating(root) /\ NextPort("ports", "check") /\ UNCHANGED <<pp, slot, since>>
       \/ /\ Operating(root) /\ pp' = configure_root_port(pp, root)
          /\ phase' = "slots" /\ slot' = 0 /\ UNCHANGED root
          /\ since' = Counted
    /\ UNCHANGED <<attached, port, ep, left, wire>>

\* On to the next endpoint.
NextSlot ==
    IF slot + 1 < PoolSize THEN slot' = slot + 1 /\ phase' = "slots" /\ UNCHANGED root
    ELSE slot' = 0 /\ NextPort("ports", "check")

Mine == ep[slot].size /\ ep[slot].root_idx = root
Waiting == ep[slot].kind.periodic /\ ep[slot].interval_counter > 0

PassSlot ==
    /\ phase = "slots" /\ NextSlot
    /\ ~Mine \/ (~Waiting /\ ~ep[slot].has_transfer)
    /\ UNCHANGED <<attached, port, ep, pp, left, wire, since>>

CountDown ==
    /\ phase = "slots" /\ NextSlot
    /\ Mine /\ Waiting
    /\ ep' = [ep EXCEPT ![slot].interval_counter = @ - 1]
    /\ UNCHANGED <<attached, port, pp, left, wire, since>>

\* SETUP and OUT send a token and data, IN a token and, if data came, an ACK.
Packets(kind) == IF kind.input THEN {1, 2} ELSE {2}

StartTransaction ==
    /\ phase = "slots" /\ phase' = "packets"
    /\ Mine /\ ~Waiting /\ ep[slot].has_transfer
    /\ pp' = [pp EXCEPT !.need_pre = @ \/ ep[slot].kind.need_pre]
    /\ left' \in Packets(ep[slot].kind)
    /\ UNCHANGED <<attached, port, ep, root, slot, wire, since>>

SendPacket ==
    /\ phase = "packets" /\ left > 0 /\ left' = left - 1
    /\ pio_usb_bus_usb_transfer(pp, root, ep[slot].kind.need_pre)
    /\ UNCHANGED <<attached, port, ep, phase, root, slot, since>>

\* Fault: the frame of the transaction is not one of the interval.
NextCounterLate(kind) == kind.interval
\* interval - 1, a uint8_t.
NextCounter(kind) == IF kind.interval = 0 THEN CounterMod - 1 ELSE kind.interval - 1

EndTransaction ==
    /\ phase = "packets" /\ left = 0 /\ UNCHANGED left /\ NextSlot
    /\ \E pending \in BOOLEAN :
           ep' = [ep EXCEPT ![slot].has_transfer = pending,
                            ![slot].interval_counter =
                                IF ep[slot].kind.periodic THEN NextCounter(ep[slot].kind) ELSE @]
    /\ pp' = IF ep[slot].kind.need_pre THEN restore_fs_bus([pp EXCEPT !.need_pre = FALSE]) ELSE pp
    /\ since' = [since EXCEPT ![slot] = 0]
    /\ UNCHANGED <<attached, port, wire>>

\* The check for new connections ends the frame.
CheckConnections ==
    /\ phase = "check" /\ phase' = "idle"
    /\ LET found == {r \in Roots : ~connected[r] /\ attached[r] # "none"}
       IN  /\ connected' = [r \in Roots |-> connected[r] \/ r \in found]
           /\ suspended' = [r \in Roots |-> suspended[r] \/ r \in found]
           /\ is_fullspeed' = [r \in Roots |-> IF r \in found THEN attached[r] = "full" ELSE is_fullspeed[r]]
    /\ wire' = Silence
    /\ UNCHANGED <<attached, ep, pp, root, slot, left, since>>

pio_usb_host_frame ==
    \/ sof_timer \/ SendSof \/ ServePort \/ PassSlot \/ CountDown
    \/ StartTransaction \/ SendPacket \/ EndTransaction \/ CheckConnections

-----------------------------------------------------------------------------
(***************************************************************************)
(* The main loop: the calls of the host stack                              *)
(***************************************************************************)
pio_usb_host_port_reset_start(r) ==
    /\ phase = "idle" /\ connected[r]
    /\ suspended' = [suspended EXCEPT ![r] = TRUE]
    /\ UNCHANGED <<attached, connected, is_fullspeed, ep, pp, loop, wire, since>>

\* The stack has closed what was open before it resets a device.
pio_usb_host_port_reset_end(r) ==
    /\ phase = "idle" /\ suspended[r] /\ \A x \in Slots : ~(ep[x].size /\ ep[x].root_idx = r)
    /\ suspended' = [suspended EXCEPT ![r] = FALSE]
    /\ UNCHANGED <<attached, connected, is_fullspeed, ep, pp, loop, wire, since>>

\* Only behind a full-speed hub does the stack ask for PRE.
pio_usb_host_endpoint_open(x, r, kind) ==
    /\ phase = "idle" /\ ~ep[x].size
    /\ Operating(r) /\ (kind.need_pre => is_fullspeed[r])
    /\ ep' = [ep EXCEPT ![x] = [ size |-> TRUE, root_idx |-> r, kind |-> kind, interval_counter |-> 0,
                                 has_transfer |-> @.has_transfer ]]
    /\ since' = [since EXCEPT ![x] = Period(kind)]
    /\ UNCHANGED <<attached, port, pp, loop, wire>>

pio_usb_host_endpoint_close(x) ==
    /\ phase = "idle" /\ ep[x].size
    /\ ep' = [ep EXCEPT ![x] = Closed(@.has_transfer)] /\ since' = [since EXCEPT ![x] = 0]
    /\ UNCHANGED <<attached, port, pp, loop, wire>>

\* Its slots are those of the device of a port, or of one behind its hub.
pio_usb_host_close_device(r, slots) ==
    /\ phase = "idle" /\ \A x \in slots : ep[x].size /\ ep[x].root_idx = r
    /\ ep' = [x \in Slots |-> IF x \in slots THEN Closed(FALSE) ELSE ep[x]]
    /\ since' = [x \in Slots |-> IF x \in slots THEN 0 ELSE since[x]]
    /\ UNCHANGED <<attached, port, pp, loop, wire>>

\* pio_usb_host_send_setup and _endpoint_transfer start a transfer, _abort_transfer ends it.
Submit(x, pending) ==
    /\ phase = "idle" /\ ep[x].size /\ ep[x].has_transfer # pending
    /\ ep' = [ep EXCEPT ![x].has_transfer = pending]
    /\ UNCHANGED <<attached, port, pp, loop, wire, since>>

Main ==
    \/ \E r \in Roots : \/ pio_usb_host_port_reset_start(r) \/ pio_usb_host_port_reset_end(r)
                        \/ \E slots \in SUBSET Slots : pio_usb_host_close_device(r, slots)
    \/ \E x \in Slots : \/ pio_usb_host_endpoint_close(x) \/ \E pending \in BOOLEAN : Submit(x, pending)
                        \/ \E r \in Roots, kind \in Kinds : pio_usb_host_endpoint_open(x, r, kind)

Devices == \E r \in Roots : Unplug(r) \/ \E speed \in Speed : PlugIn(r, speed)

Next == pio_usb_host_frame \/ Main \/ Devices
Spec == Init /\ [][Next]_vars

-----------------------------------------------------------------------------
(***************************************************************************)
(* Properties                                                              *)
(***************************************************************************)
Endpoint == [size : BOOLEAN, root_idx : Roots, kind : Kind, interval_counter : 0..CounterMod-1,
             has_transfer : BOOLEAN]
Phase == {"idle", "sof", "ports", "slots", "packets", "check"}

\* Every variable keeps its type; interval_counter never goes below zero.
TypeOK ==
    /\ attached \in [Roots -> Speed \cup {"none"}]
    /\ connected \in [Roots -> BOOLEAN] /\ suspended \in [Roots -> BOOLEAN]
    /\ is_fullspeed \in [Roots -> BOOLEAN]
    /\ ep \in [Slots -> Endpoint] /\ pp \in Pp
    /\ phase \in Phase /\ root \in Roots /\ slot \in Slots /\ left \in 0..2
    /\ since \in [Slots -> 0..CounterMod]

\* What a device behind a port understands: J is a high level of the line its pull-up holds;
\* low speed behind a hub keeps the polarity of the hub.
Understood(speed, r, need_pre) ==
    [ pins |-> r, J |-> IF speed = "full" THEN "dp" ELSE "dm",
      rate |-> IF need_pre THEN "low" ELSE speed, end |-> "SE0" ]
Preamble(r) == [pins |-> r, J |-> "dp", rate |-> "full", end |-> "dp"]
Heard(speed, r, need_pre) ==
    LET pin == <<r, IF speed = "full" THEN "dp" ELSE "dm">>
    IN  [rx_pin |-> pin, eop_pin |-> pin, rate |-> IF need_pre THEN "low" ELSE speed,
         low_speed |-> need_pre \/ speed = "low"]

\* A device that is there understands every packet sent to it, whatever was sent before to the
\* devices of other ports and speeds: pins, polarity, bit rate, a PRE packet exactly if it needs
\* one; and its answer is listened for in the same way.
\* (configure_root_port, send_pre, restore_fs_bus in pio_usb_host_frame)
SpokenTo ==
    (wire.on /\ attached[wire.to] # "none") =>
        /\ wire.packet = Understood(attached[wire.to], wire.to, wire.need_pre)
        /\ wire.listening = Heard(attached[wire.to], wire.to, wire.need_pre)
        /\ wire.pre = IF wire.need_pre THEN Preamble(wire.to) ELSE Nothing

\* An endpoint has a transaction not sooner than its interval after the last one; and at the end
\* of a frame no transfer of a port that operates has waited for longer.
\* (interval_counter against interval in pio_usb_host_frame)
PolledOnTime ==
    /\ phase = "packets" => since[slot] = Period(ep[slot].kind)
    /\ phase = "check" =>
           \A x \in Slots : ep[x].size /\ ep[x].has_transfer /\ Operating(ep[x].root_idx)
                            => since[x] < Period(ep[x].kind)
=============================================================================
