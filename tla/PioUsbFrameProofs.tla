-------------------------- MODULE PioUsbFrameProofs --------------------------
(***************************************************************************)
(* Proofs about PioUsbFrame, for any number of ports, any pinouts, any     *)
(* size of the pool and any endpoints.                                     *)
(***************************************************************************)
EXTENDS PioUsbFrame, TLAPS

-----------------------------------------------------------------------------
(***************************************************************************)
(* Types, one group of variables after the other                           *)
(***************************************************************************)
PortTypes ==
    /\ attached \in [Roots -> Speed \cup {"none"}]
    /\ connected \in [Roots -> BOOLEAN] /\ suspended \in [Roots -> BOOLEAN]
    /\ is_fullspeed \in [Roots -> BOOLEAN]
LoopTypes == phase \in Phase /\ root \in Roots /\ slot \in Slots /\ left \in 0..2
PoolTypes == ep \in [Slots -> Endpoint] /\ since \in [Slots -> 0..CounterMod]

LEMMA FrameTypes == TypeOK <=> PortTypes /\ LoopTypes /\ PoolTypes /\ pp \in Pp
BY DEF TypeOK, PortTypes, LoopTypes, PoolTypes
LEMMA FrameTypesPrime == TypeOK' <=> PortTypes' /\ LoopTypes' /\ PoolTypes' /\ (pp \in Pp)'
BY DEF TypeOK, PortTypes, LoopTypes, PoolTypes

LEMMA ConfiguredType ==
    ASSUME PortTypes, NEW p, p.need_pre \in BOOLEAN, NEW r \in Roots
    PROVE  configure_root_port(p, r) \in Pp
<1>1. Pinout[r] \in Program /\ Other(Pinout[r]) \in Program
  BY FrameAssumption DEF Roots, Other, Program
<1>2. <<r, "dp">> \in Pin /\ <<r, "dm">> \in Pin
  BY DEF Pin
<1>3. configure_fullspeed_host(p, r) \in Pp
  BY <1>1, <1>2 DEF configure_fullspeed_host, Pp, Speed
<1>4. configure_lowspeed_host(p, r) \in Pp
  BY <1>1, <1>2 DEF configure_lowspeed_host, Pp, Speed
<1> QED BY <1>3, <1>4 DEF configure_root_port

LEMMA AfterPreType == ASSUME NEW p \in Pp PROVE AfterPre(p) \in Pp
BY DEF AfterPre, Pp, Speed

LEMMA RestoredType == ASSUME NEW p \in Pp PROVE restore_fs_bus([p EXCEPT !.need_pre = FALSE]) \in Pp
BY DEF restore_fs_bus, Pp, Speed

LEMMA TransferType ==
    ASSUME NEW p \in Pp, NEW r, NEW pre, pio_usb_bus_usb_transfer(p, r, pre) PROVE pp' \in Pp
BY AfterPreType DEF pio_usb_bus_usb_transfer

LEMMA PpNext == TypeOK /\ [Next]_vars => (pp \in Pp)'
<1> SUFFICES ASSUME TypeOK, [Next]_vars PROVE (pp \in Pp)'
  OBVIOUS
<1>1. PortTypes /\ LoopTypes /\ PoolTypes /\ pp \in Pp /\ pp.need_pre \in BOOLEAN
  BY FrameTypes DEF Pp
<1>2. root \in Roots /\ configure_root_port(pp, root) \in Pp
  BY <1>1, ConfiguredType DEF LoopTypes
<1>3. CASE SendSof
  BY <1>1, <1>2, <1>3, TransferType DEF SendSof, Disconnect
<1>4. CASE ServePort BY <1>1, <1>2, <1>4 DEF ServePort
<1>5. CASE StartTransaction
  <2>1. ep[slot].kind.need_pre \in BOOLEAN
    BY <1>1 DEF LoopTypes, PoolTypes, Endpoint, Kind
  <2>2. (pp.need_pre \/ ep[slot].kind.need_pre) \in BOOLEAN
    BY <1>1, <2>1
  <2> DEFINE pre == pp.need_pre \/ ep[slot].kind.need_pre
  <2>3. pp' = [pp EXCEPT !.need_pre = pre] BY <1>5 DEF StartTransaction
  <2>4. pre \in BOOLEAN BY <2>2
  <2> HIDE DEF pre
  <2> QED BY <1>1, <2>3, <2>4 DEF Pp
<1>6. CASE SendPacket BY <1>1, <1>6, TransferType DEF SendPacket
<1>7. CASE EndTransaction BY <1>1, <1>7, RestoredType DEF EndTransaction
<1>8. CASE UNCHANGED pp BY <1>1, <1>8
<1> QED
  BY <1>3, <1>4, <1>5, <1>6, <1>7, <1>8
     DEF Next, pio_usb_host_frame, sof_timer, PassSlot, CountDown, CheckConnections, vars, Devices, PlugIn, Unplug,
         Main, pio_usb_host_port_reset_start, pio_usb_host_port_reset_end, pio_usb_host_close_device,
         pio_usb_host_endpoint_close, Submit, pio_usb_host_endpoint_open

LEMMA PortsNext == TypeOK /\ [Next]_vars => PortTypes'
<1> SUFFICES ASSUME TypeOK, [Next]_vars PROVE PortTypes'
  OBVIOUS
<1> USE DEF PortTypes
<1>1. PortTypes /\ root \in Roots
  BY FrameTypes DEF LoopTypes
<1>2. CASE SendSof BY <1>1, <1>2 DEF SendSof, Disconnect, port
<1>3. CASE CheckConnections BY <1>1, <1>3 DEF CheckConnections
<1>4. CASE UNCHANGED <<attached, port>> BY <1>1, <1>4 DEF port
<1>5. CASE Devices BY <1>1, <1>5 DEF Devices, PlugIn, Unplug, port, Speed
<1>6. CASE \E r \in Roots : pio_usb_host_port_reset_start(r) \/ pio_usb_host_port_reset_end(r)
  BY <1>1, <1>6 DEF pio_usb_host_port_reset_start, pio_usb_host_port_reset_end
<1> QED
  BY <1>2, <1>3, <1>4, <1>5, <1>6
     DEF Next, pio_usb_host_frame, sof_timer, ServePort, PassSlot, CountDown, StartTransaction, SendPacket,
         EndTransaction, vars, port, Main, pio_usb_host_close_device,
         pio_usb_host_endpoint_close, Submit, pio_usb_host_endpoint_open

\* Where the loops over the ports and over the pool go on.
LEMMA NextPortType ==
    ASSUME LoopTypes, NEW this \in Phase, NEW after \in Phase, NextPort(this, after)
    PROVE  root' \in Roots /\ phase' \in Phase
BY FrameAssumption DEF NextPort, LoopTypes, Roots

LEMMA NextSlotType ==
    ASSUME LoopTypes, NextSlot PROVE root' \in Roots /\ phase' \in Phase /\ slot' \in Slots
<1>1. "ports" \in Phase /\ "check" \in Phase /\ "slots" \in Phase BY DEF Phase
<1>2. 0 \in Slots /\ root \in Roots /\ (slot + 1 < PoolSize => slot + 1 \in Slots)
  BY FrameAssumption DEF LoopTypes, Slots
<1> QED BY <1>1, <1>2, NextPortType DEF NextSlot

LEMMA LoopNext == TypeOK /\ [Next]_vars => LoopTypes'
<1> SUFFICES ASSUME TypeOK, [Next]_vars PROVE LoopTypes'
  OBVIOUS
<1>1. LoopTypes BY FrameTypes
<1>2. phase \in Phase /\ root \in Roots /\ slot \in Slots /\ left \in 0..2 BY <1>1 DEF LoopTypes
<1>3. {"idle", "sof", "ports", "slots", "packets", "check"} \subseteq Phase /\ 0 \in Roots /\ 0 \in Slots
  BY FrameAssumption DEF Phase, Roots, Slots
<1>4. CASE sof_timer BY <1>2, <1>3, <1>4 DEF sof_timer, LoopTypes
<1>5. CASE SendSof BY <1>1, <1>2, <1>3, <1>5, NextPortType DEF SendSof, LoopTypes
<1>6. CASE ServePort BY <1>1, <1>2, <1>3, <1>6, NextPortType DEF ServePort, LoopTypes
<1>7. CASE PassSlot \/ CountDown BY <1>1, <1>2, <1>7, NextSlotType DEF PassSlot, CountDown, LoopTypes
<1>8. CASE StartTransaction BY <1>2, <1>3, <1>8 DEF StartTransaction, Packets, LoopTypes
<1>9. CASE SendPacket BY <1>2, <1>9 DEF SendPacket, LoopTypes
<1>10. CASE EndTransaction BY <1>1, <1>2, <1>10, NextSlotType DEF EndTransaction, LoopTypes
<1>11. CASE CheckConnections BY <1>2, <1>3, <1>11 DEF CheckConnections, LoopTypes
<1>12. CASE UNCHANGED loop BY <1>2, <1>12 DEF loop, LoopTypes
<1> QED
  BY <1>4, <1>5, <1>6, <1>7, <1>8, <1>9, <1>10, <1>11, <1>12
     DEF Next, pio_usb_host_frame, vars, Devices, PlugIn, Unplug,
         Main, pio_usb_host_port_reset_start, pio_usb_host_port_reset_end, pio_usb_host_close_device,
         pio_usb_host_endpoint_close, Submit, pio_usb_host_endpoint_open, loop

\* The endpoints the steps of the pool write.
LEMMA PeriodType == ASSUME NEW kind \in Kind PROVE Period(kind) \in 1..CounterMod
BY FrameAssumption DEF Period, Kind

LEMMA EndpointTypes ==
    ASSUME NEW e \in Endpoint, NEW pending \in BOOLEAN
    PROVE  /\ [e EXCEPT !.has_transfer = pending] \in Endpoint
           /\ NextCounter(e.kind) \in 0..CounterMod-1
           /\ e.interval_counter > 0 => [e EXCEPT !.interval_counter = @ - 1] \in Endpoint
           /\ \A c \in 0..CounterMod-1 :
                  [e EXCEPT !.has_transfer = pending, !.interval_counter = c] \in Endpoint
           /\ Closed(pending) \in Endpoint
<1> USE FrameAssumption
<1>1. e.kind.interval \in 0..CounterMod-1 /\ e.interval_counter \in 0..CounterMod-1
  BY DEF Endpoint, Kind
<1>2. NextCounter(e.kind) \in 0..CounterMod-1
  BY <1>1 DEF NextCounter
<1>3. [e EXCEPT !.has_transfer = pending] \in Endpoint
  BY DEF Endpoint
<1>4. ASSUME e.interval_counter > 0 PROVE [e EXCEPT !.interval_counter = @ - 1] \in Endpoint
  <2>1. e.interval_counter - 1 \in 0..CounterMod-1 BY <1>1, <1>4
  <2> QED BY <2>1 DEF Endpoint
<1>5. ASSUME NEW c \in 0..CounterMod-1
      PROVE  [e EXCEPT !.has_transfer = pending, !.interval_counter = c] \in Endpoint
  BY <1>5 DEF Endpoint
<1>6. Closed(pending) \in Endpoint
  BY DEF Closed, Endpoint, Kind, Roots
<1> QED BY <1>2, <1>3, <1>4, <1>5, <1>6

LEMMA PoolNext == TypeOK /\ [Next]_vars => PoolTypes'
<1> SUFFICES ASSUME TypeOK, [Next]_vars PROVE PoolTypes'
  OBVIOUS
<1>1. ep \in [Slots -> Endpoint] /\ since \in [Slots -> 0..CounterMod] /\ slot \in Slots
  BY FrameTypes DEF PoolTypes, LoopTypes
<1>2. \A x \in Slots : ep[x] \in Endpoint BY <1>1
<1>3. 0 \in 0..CounterMod BY FrameAssumption
<1>4. CASE SendSof
  <2>1. UNCHANGED since BY <1>4 DEF SendSof
  <2>2. CASE UNCHANGED ep BY <1>1, <2>1, <2>2 DEF PoolTypes
  <2>3. CASE Disconnect
    <3>1. \A x \in Slots : [ep[x] EXCEPT !.has_transfer = FALSE] \in Endpoint BY <1>2, EndpointTypes
    <3> QED BY <1>1, <2>1, <2>3, <3>1 DEF Disconnect, PoolTypes
  <2> QED BY <1>4, <2>2, <2>3 DEF SendSof
<1>5. CASE ServePort
  <2>1. UNCHANGED ep BY <1>5 DEF ServePort
  <2>2. ASSUME NEW x \in Slots PROVE Least(since[x] + 1, Period(ep[x].kind)) \in 0..CounterMod
    <3>1. Period(ep[x].kind) \in 1..CounterMod BY <1>2, PeriodType DEF Endpoint
    <3>2. since[x] \in 0..CounterMod BY <1>1
    <3> QED BY <3>1, <3>2, FrameAssumption DEF Least
  <2>3. Counted \in [Slots -> 0..CounterMod] BY <1>1, <2>2 DEF Counted
  <2> QED BY <1>1, <1>5, <2>1, <2>3 DEF ServePort, PoolTypes
<1>6. CASE CountDown
  <2>1. ep[slot].interval_counter > 0 /\ UNCHANGED since
        /\ ep' = [ep EXCEPT ![slot].interval_counter = ep[slot].interval_counter - 1]
    BY <1>6 DEF CountDown, Waiting
  <2>2. [ep[slot] EXCEPT !.interval_counter = ep[slot].interval_counter - 1] \in Endpoint
    BY <1>1, <2>1, EndpointTypes
  <2>3. ep' = [ep EXCEPT ![slot] = [ep[slot] EXCEPT !.interval_counter = ep[slot].interval_counter - 1]]
    BY <2>1
  <2> QED BY <1>1, <2>1, <2>2, <2>3 DEF PoolTypes
<1>7. CASE EndTransaction
  <2>1. PICK pending \in BOOLEAN :
           ep' = [ep EXCEPT ![slot].has_transfer = pending,
                            ![slot].interval_counter =
                                IF ep[slot].kind.periodic THEN NextCounter(ep[slot].kind) ELSE @]
    BY <1>7 DEF EndTransaction
  <2> DEFINE c == IF ep[slot].kind.periodic THEN NextCounter(ep[slot].kind) ELSE ep[slot].interval_counter
  <2>2. c \in 0..CounterMod-1
    <3>1. ep[slot].interval_counter \in 0..CounterMod-1 BY <1>1 DEF Endpoint
    <3>2. NextCounter(ep[slot].kind) \in 0..CounterMod-1 BY <1>1, EndpointTypes
    <3> QED BY <3>1, <3>2
  <2>3. [ep[slot] EXCEPT !.has_transfer = pending, !.interval_counter = c] \in Endpoint
    BY <1>1, <2>2, EndpointTypes
  <2>4. ep' = [ep EXCEPT ![slot] = [ep[slot] EXCEPT !.has_transfer = pending, !.interval_counter = c]]
    BY <2>1
  <2>5. since' = [since EXCEPT ![slot] = 0] BY <1>7 DEF EndTransaction
  <2> HIDE DEF c
  <2> QED BY <1>1, <1>3, <2>3, <2>4, <2>5 DEF PoolTypes
<1>8. ASSUME NEW x \in Slots, NEW r \in Roots, NEW kind \in Kinds, pio_usb_host_endpoint_open(x, r, kind)
      PROVE  PoolTypes'
  <2>1. kind \in Kind /\ Period(kind) \in 0..CounterMod BY FrameAssumption, PeriodType
  <2>2. ep[x].has_transfer \in BOOLEAN BY <1>2 DEF Endpoint
  <2>3. [ size |-> TRUE, root_idx |-> r, kind |-> kind, interval_counter |-> 0,
          has_transfer |-> ep[x].has_transfer ] \in Endpoint
    BY <2>1, <2>2, FrameAssumption DEF Endpoint
  <2> QED BY <1>1, <1>8, <2>1, <2>3 DEF pio_usb_host_endpoint_open, PoolTypes
<1>9. ASSUME NEW x \in Slots, pio_usb_host_endpoint_close(x) PROVE PoolTypes'
  <2>1. ep[x].has_transfer \in BOOLEAN BY <1>2 DEF Endpoint
  <2>2. Closed(ep[x].has_transfer) \in Endpoint BY <1>2, <2>1, EndpointTypes
  <2> QED BY <1>1, <1>3, <1>9, <2>2 DEF pio_usb_host_endpoint_close, PoolTypes
<1>10. ASSUME NEW r \in Roots, NEW slots \in SUBSET Slots, pio_usb_host_close_device(r, slots) PROVE PoolTypes'
  <2>1. \A x \in Slots : Closed(FALSE) \in Endpoint BY <1>2, EndpointTypes
  <2> QED BY <1>1, <1>3, <1>10, <2>1 DEF pio_usb_host_close_device, PoolTypes
<1>11. ASSUME NEW x \in Slots, NEW pending \in BOOLEAN, Submit(x, pending) PROVE PoolTypes'
  <2>1. [ep[x] EXCEPT !.has_transfer = pending] \in Endpoint BY <1>2, EndpointTypes
  <2>2. ep' = [ep EXCEPT ![x] = [ep[x] EXCEPT !.has_transfer = pending]] /\ UNCHANGED since
    BY <1>11 DEF Submit
  <2> QED BY <1>1, <2>1, <2>2 DEF PoolTypes
<1>12. CASE UNCHANGED <<ep, since>> BY <1>1, <1>12 DEF PoolTypes
<1> QED
  BY <1>4, <1>5, <1>6, <1>7, <1>8, <1>9, <1>10, <1>11, <1>12
     DEF Next, pio_usb_host_frame, sof_timer, PassSlot, StartTransaction, SendPacket, CheckConnections, vars,
         Devices, PlugIn, Unplug, Main, pio_usb_host_port_reset_start, pio_usb_host_port_reset_end

LEMMA FrameTypesInit == Init => TypeOK
<1> SUFFICES ASSUME Init PROVE TypeOK
  OBVIOUS
<1>1. 0 \in Roots /\ 0 \in Slots BY FrameAssumption DEF Roots, Slots
<1>2. PortTypes BY DEF Init, PortTypes
<1>3. LoopTypes BY <1>1 DEF Init, LoopTypes, Phase
<1>4. Closed(FALSE) \in Endpoint BY <1>1, FrameAssumption DEF Closed, Endpoint, Kind
<1>5. PoolTypes
  <2>1. 0 \in 0..CounterMod BY FrameAssumption
  <2> QED BY <1>4, <2>1 DEF Init, PoolTypes
<1>6. pp \in Pp
  <2>1. Pinout[0] \in Program BY <1>1, FrameAssumption DEF Roots
  <2>2. <<0, "dp">> \in Pin BY <1>1 DEF Pin
  <2> QED BY <1>1, <2>1, <2>2 DEF Init, configure_fullspeed_host, Pp, Speed
<1> QED BY <1>2, <1>3, <1>5, <1>6, FrameTypes

LEMMA FrameTypesNext == TypeOK /\ [Next]_vars => TypeOK'
BY PortsNext, LoopNext, PoolNext, PpNext, FrameTypesPrime

\* Every variable keeps its type, in particular interval_counter and the registers.
THEOREM FrameTypeCorrect == Spec => []TypeOK
BY FrameTypesInit, FrameTypesNext, PTL DEF Spec

-----------------------------------------------------------------------------
(***************************************************************************)
(* What is sent.  Between two packets the registers are those of the port  *)
(* being served; only a transaction behind a hub changes them, and its end *)
(* sets them back.                                                         *)
(***************************************************************************)
Configured(r, pre) == configure_root_port([need_pre |-> pre], r)

\* What SpokenTo says of the device the flag of the port stands for.
Fits(w, full) ==
    LET speed == IF full THEN "full" ELSE "low"
    IN  /\ w.packet = Understood(speed, w.to, w.need_pre)
        /\ w.listening = Heard(speed, w.to, w.need_pre)
        /\ w.pre = IF w.need_pre THEN Preamble(w.to) ELSE Nothing

LEMMA SameConfiguration ==
    ASSUME NEW p, NEW r PROVE configure_root_port(p, r) = Configured(r, p.need_pre)
BY DEF Configured, configure_root_port, configure_fullspeed_host, configure_lowspeed_host

LEMMA Levels == ASSUME NEW r \in Roots PROVE High(Pinout[r], r) = "dp" /\ High(Other(Pinout[r]), r) = "dm"
                                             /\ Pinout[r] # "SE0"
BY FrameAssumption DEF High, Other, Roots, Program

\* A packet to a device of the port itself.
LEMMA PlainPacket ==
    ASSUME NEW r \in Roots, is_fullspeed[r] \in BOOLEAN,
           pio_usb_bus_usb_transfer(Configured(r, FALSE), r, FALSE)
    PROVE  /\ pp' = Configured(r, FALSE) /\ wire'.on /\ wire'.to = r /\ wire'.need_pre = FALSE
           /\ Fits(wire', is_fullspeed[r])
<1> DEFINE p == Configured(r, FALSE)
           speed == IF is_fullspeed[r] THEN "full" ELSE "low"
<1>1. ~p.need_pre /\ Signal(p) = Understood(speed, r, FALSE) /\ Reception(p) = Heard(speed, r, FALSE)
  <2>1. CASE is_fullspeed[r]
    <3> DEFINE q == configure_fullspeed_host([need_pre |-> FALSE], r)
    <3>1. p = q BY <2>1 DEF Configured, configure_root_port
    <3>2. ~q.need_pre BY DEF configure_fullspeed_host
    <3>3. Signal(q) = Understood("full", r, FALSE)
      BY Levels DEF configure_fullspeed_host, Signal, Understood
    <3>4. Reception(q) = Heard("full", r, FALSE)
      BY DEF configure_fullspeed_host, Reception, Heard
    <3> HIDE DEF p, q
    <3> QED BY <2>1, <3>1, <3>2, <3>3, <3>4
  <2>2. CASE ~is_fullspeed[r]
    <3> DEFINE q == configure_lowspeed_host([need_pre |-> FALSE], r)
    <3>1. p = q BY <2>2 DEF Configured, configure_root_port
    <3>2. ~q.need_pre BY DEF configure_lowspeed_host
    <3>3. Signal(q) = Understood("low", r, FALSE)
      BY Levels DEF configure_lowspeed_host, Signal, Understood
    <3>4. Reception(q) = Heard("low", r, FALSE)
      BY DEF configure_lowspeed_host, Reception, Heard
    <3> HIDE DEF p, q
    <3> QED BY <2>2, <3>1, <3>2, <3>3, <3>4
  <2> QED BY <2>1, <2>2
<1>2. pio_usb_bus_usb_transfer(p, r, FALSE) OBVIOUS
<1> HIDE DEF p
<1>3. pp' = p /\ wire' = [ on |-> TRUE, to |-> r, need_pre |-> FALSE, pre |-> Nothing,
                           packet |-> Signal(p), listening |-> Reception(p) ]
  BY <1>1, <1>2 DEF pio_usb_bus_usb_transfer
<1>4. Fits(wire', is_fullspeed[r])
  BY <1>1, <1>3 DEF Fits
<1> QED BY <1>3, <1>4 DEF p

\* The registers in a transaction behind the hub of port r: as configured, or left by PRE.
HubRegisters(r) ==
    [ low_speed |-> TRUE, need_pre |-> TRUE, fs_tx_program |-> Pinout[r],
      program |-> Pinout[r], first |-> "SE0", tx_div |-> "low", tx_pins |-> r,
      rx_pin |-> <<r, "dp">>, eop_pin |-> <<r, "dp">>, eop_div |-> "low" ]
Behind(p, r) == p \in {configure_fullspeed_host([need_pre |-> TRUE], r), HubRegisters(r)}

\* Registers with the same fields are the same.
LEMMA SameRegisters ==
    ASSUME NEW p \in Pp, NEW q \in Pp,
           p.low_speed = q.low_speed, p.need_pre = q.need_pre, p.fs_tx_program = q.fs_tx_program,
           p.program = q.program, p.first = q.first, p.tx_div = q.tx_div, p.tx_pins = q.tx_pins,
           p.rx_pin = q.rx_pin, p.eop_pin = q.eop_pin, p.eop_div = q.eop_div
    PROVE  p = q
BY DEF Pp

LEMMA HubTypes ==
    ASSUME NEW r \in Roots, NEW pre \in BOOLEAN
    PROVE  configure_fullspeed_host([need_pre |-> pre], r) \in Pp /\ HubRegisters(r) \in Pp
<1>1. Pinout[r] \in Program /\ <<r, "dp">> \in Pin
  BY FrameAssumption DEF Roots, Pin
<1> QED BY <1>1 DEF configure_fullspeed_host, HubRegisters, Pp, Speed

LEMMA HubPacket ==
    ASSUME NEW r \in Roots, NEW p, Behind(p, r), pio_usb_bus_usb_transfer(p, r, TRUE)
    PROVE  /\ Behind(pp', r) /\ wire'.on /\ wire'.to = r /\ wire'.need_pre = TRUE
           /\ Fits(wire', TRUE)
<1> DEFINE q == configure_fullspeed_host([need_pre |-> TRUE], r)
           h == HubRegisters(r)
<1>1. q.need_pre /\ AfterPre(q) = h
  <2>1. q \in Pp /\ h \in Pp BY HubTypes
  <2>2. AfterPre(q) \in Pp BY <2>1, AfterPreType
  <2> QED BY <2>1, <2>2, SameRegisters DEF AfterPre, configure_fullspeed_host, HubRegisters
<1>2. Signal(BeforePre(q)) = Preamble(r)
  BY Levels DEF configure_fullspeed_host, BeforePre, Signal, Preamble
<1>3. h.need_pre /\ AfterPre(h) = h
  <2>1. h \in Pp BY HubTypes
  <2>2. AfterPre(h) \in Pp BY <2>1, AfterPreType
  <2> QED BY <2>1, <2>2, SameRegisters DEF AfterPre, HubRegisters
<1>4. Signal(BeforePre(h)) = Preamble(r)
  BY Levels DEF HubRegisters, BeforePre, Signal, Preamble
<1>5. Signal(h) = Understood("full", r, TRUE)
  BY Levels DEF HubRegisters, Signal, Understood
<1>6. Reception(h) = Heard("full", r, TRUE)
  BY DEF HubRegisters, Reception, Heard
<1>7. p = q \/ p = h BY DEF Behind
<1> HIDE DEF q, h
<1>8. p.need_pre /\ AfterPre(p) = h /\ Signal(BeforePre(p)) = Preamble(r)
  BY <1>1, <1>2, <1>3, <1>4, <1>7
<1>9. pp' = h /\ wire' = [ on |-> TRUE, to |-> r, need_pre |-> TRUE, pre |-> Preamble(r),
                           packet |-> Signal(h), listening |-> Reception(h) ]
  BY <1>8 DEF pio_usb_bus_usb_transfer
<1>10. Fits(wire', TRUE)
  BY <1>5, <1>6, <1>9 DEF Fits
<1>11. Behind(pp', r) BY <1>9 DEF Behind, h
<1> QED BY <1>9, <1>10, <1>11

LEMMA Restored ==
    ASSUME NEW r \in Roots, NEW p, Behind(p, r)
    PROVE  restore_fs_bus([p EXCEPT !.need_pre = FALSE]) = configure_fullspeed_host([need_pre |-> FALSE], r)
<1> DEFINE q == configure_fullspeed_host([need_pre |-> TRUE], r)
           h == HubRegisters(r)
           full == configure_fullspeed_host([need_pre |-> FALSE], r)
<1>1. q \in Pp /\ h \in Pp /\ full \in Pp
  BY HubTypes
<1>2. restore_fs_bus([q EXCEPT !.need_pre = FALSE]) = full
  <2>1. restore_fs_bus([q EXCEPT !.need_pre = FALSE]) \in Pp BY <1>1, RestoredType
  <2> QED BY <1>1, <2>1, SameRegisters DEF configure_fullspeed_host, restore_fs_bus
<1>3. restore_fs_bus([h EXCEPT !.need_pre = FALSE]) = full
  <2>1. restore_fs_bus([h EXCEPT !.need_pre = FALSE]) \in Pp BY <1>1, RestoredType
  <2> QED BY <1>1, <2>1, SameRegisters DEF HubRegisters, configure_fullspeed_host, restore_fs_bus
<1> QED BY <1>2, <1>3 DEF Behind

-----------------------------------------------------------------------------
(***************************************************************************)
(* The invariant of the bus                                                *)
(***************************************************************************)
SpeedKnown == \A r \in Roots : connected[r] /\ attached[r] # "none" => (is_fullspeed[r] <=> attached[r] = "full")

PreBehindHub == \A x \in Slots : ep[x].size /\ ep[x].kind.need_pre /\ Operating(ep[x].root_idx)
                                 => is_fullspeed[ep[x].root_idx]

Serving ==
    /\ phase \in {"slots", "packets"} => Operating(root)
    /\ phase = "packets" => Mine

RegistersSet ==
    /\ phase # "packets" => ~pp.need_pre
    /\ phase = "slots" => pp = Configured(root, FALSE)
    /\ phase = "packets" /\ ep[slot].kind.need_pre => Behind(pp, root)
    /\ phase = "packets" /\ ~ep[slot].kind.need_pre => pp = Configured(root, FALSE)

WireFits ==
    wire.on => /\ phase # "idle" /\ wire.to \in Roots /\ connected[wire.to]
               /\ phase = "sof" => wire.to < root
               /\ wire.need_pre \in BOOLEAN /\ (wire.need_pre => is_fullspeed[wire.to])
               /\ Fits(wire, is_fullspeed[wire.to])

BusInv == TypeOK /\ SpeedKnown /\ PreBehindHub /\ Serving /\ RegistersSet /\ WireFits

\* Where a loop of the frame goes on.
LEMMA NextSlotPhase ==
    ASSUME NextSlot PROVE phase' \in {"ports", "check"} \/ (phase' = "slots" /\ UNCHANGED root /\ slot' = slot + 1)
BY DEF NextSlot, NextPort

\* What a step outside the frame leaves alone.
LEMMA BetweenFrames ==
    ASSUME Main PROVE phase = "idle" /\ UNCHANGED <<attached, connected, is_fullspeed, pp, loop, wire>>
BY DEF Main, pio_usb_host_port_reset_start, pio_usb_host_port_reset_end, pio_usb_host_close_device,
       pio_usb_host_endpoint_close, Submit, pio_usb_host_endpoint_open, port, loop

LEMMA BusInit == Init => BusInv
<1> SUFFICES ASSUME Init PROVE BusInv
  OBVIOUS
<1>1. TypeOK BY FrameTypesInit
<1>2. SpeedKnown BY DEF Init, SpeedKnown
<1>3. PreBehindHub BY DEF Init, PreBehindHub, Closed
<1>4. Serving BY DEF Init, Serving
<1>5. RegistersSet BY DEF Init, RegistersSet, configure_fullspeed_host
<1>6. WireFits BY DEF Init, WireFits, Silence
<1> QED BY <1>1, <1>2, <1>3, <1>4, <1>5, <1>6 DEF BusInv

LEMMA SpeedKnownNext == BusInv /\ [Next]_vars => SpeedKnown'
<1> SUFFICES ASSUME BusInv, [Next]_vars PROVE SpeedKnown'
  OBVIOUS
<1>1. PortTypes /\ SpeedKnown BY FrameTypes DEF BusInv
<1>2. CASE UNCHANGED <<attached, connected, is_fullspeed>>
  BY <1>1, <1>2 DEF SpeedKnown
<1>3. CASE Devices
  BY <1>1, <1>3 DEF Devices, PlugIn, Unplug, port, SpeedKnown, PortTypes
<1>4. CASE SendSof /\ Disconnect
  BY <1>1, <1>4 DEF SendSof, Disconnect, SpeedKnown, PortTypes
<1>5. CASE CheckConnections
  BY <1>1, <1>5 DEF CheckConnections, SpeedKnown, PortTypes
<1>6. CASE SendSof /\ UNCHANGED port
  BY <1>2, <1>6 DEF SendSof, port
<1> QED
  BY <1>2, <1>3, <1>4, <1>5, <1>6, BetweenFrames
     DEF Next, pio_usb_host_frame, sof_timer, SendSof, ServePort, PassSlot, CountDown, StartTransaction,
         SendPacket, EndTransaction, vars, port

LEMMA PreBehindHubNext == BusInv /\ [Next]_vars => PreBehindHub'
<1> SUFFICES ASSUME BusInv, [Next]_vars PROVE PreBehindHub'
  OBVIOUS
<1>1. PortTypes /\ PoolTypes /\ slot \in Slots /\ root \in Roots /\ PreBehindHub
  BY FrameTypes DEF BusInv, LoopTypes
<1>2. \A x \in Slots : ep[x] \in Endpoint /\ ep[x].root_idx \in Roots
  BY <1>1 DEF PoolTypes, Endpoint
<1>3. CASE UNCHANGED <<connected, suspended, is_fullspeed>> /\
           \A x \in Slots : ep'[x].size => ep[x].size /\ ep'[x].kind = ep[x].kind /\ ep'[x].root_idx = ep[x].root_idx
  BY <1>1, <1>3 DEF PreBehindHub, Operating
<1>4. CASE SendSof /\ Disconnect
  BY <1>1, <1>2, <1>4 DEF SendSof, Disconnect, PreBehindHub, Operating, PortTypes, Endpoint
<1>5. CASE CheckConnections
  BY <1>1, <1>2, <1>5 DEF CheckConnections, PreBehindHub, Operating, PortTypes
<1>6. ASSUME NEW r \in Roots, pio_usb_host_port_reset_start(r) PROVE PreBehindHub'
  BY <1>1, <1>2, <1>6 DEF pio_usb_host_port_reset_start, PreBehindHub, Operating, PortTypes
<1>7. ASSUME NEW r \in Roots, pio_usb_host_port_reset_end(r) PROVE PreBehindHub'
  BY <1>1, <1>2, <1>7 DEF pio_usb_host_port_reset_end, PreBehindHub, Operating, PortTypes
<1>8. ASSUME NEW x \in Slots, NEW r \in Roots, NEW kind \in Kinds, pio_usb_host_endpoint_open(x, r, kind)
      PROVE  PreBehindHub'
  <2>1. UNCHANGED <<connected, suspended, is_fullspeed>> /\ Operating(r) /\ (kind.need_pre => is_fullspeed[r])
    BY <1>8 DEF pio_usb_host_endpoint_open, port
  <2>2. ep'[x].kind = kind /\ ep'[x].root_idx = r /\ \A y \in Slots \ {x} : ep'[y] = ep[y]
    BY <1>1, <1>8 DEF pio_usb_host_endpoint_open, PoolTypes
  <2> QED BY <1>1, <2>1, <2>2 DEF PreBehindHub, Operating
<1>9. ASSUME NEW x \in Slots, pio_usb_host_endpoint_close(x) PROVE PreBehindHub'
  BY <1>1, <1>3, <1>9 DEF pio_usb_host_endpoint_close, port, PoolTypes, Closed
<1>10. ASSUME NEW r \in Roots, NEW slots \in SUBSET Slots, pio_usb_host_close_device(r, slots) PROVE PreBehindHub'
  BY <1>1, <1>3, <1>10 DEF pio_usb_host_close_device, port, PoolTypes, Closed
<1>11. ASSUME NEW x \in Slots, NEW pending \in BOOLEAN, Submit(x, pending) PROVE PreBehindHub'
  BY <1>1, <1>2, <1>3, <1>11 DEF Submit, port, PoolTypes, Endpoint
<1>12. CASE CountDown
  BY <1>1, <1>2, <1>3, <1>12 DEF CountDown, port, PoolTypes, Endpoint
<1>13. CASE EndTransaction
  BY <1>1, <1>2, <1>3, <1>13 DEF EndTransaction, port, PoolTypes, Endpoint
<1>14. CASE UNCHANGED <<port, ep>> BY <1>3, <1>14 DEF port
<1> QED
  BY <1>4, <1>5, <1>6, <1>7, <1>8, <1>9, <1>10, <1>11, <1>12, <1>13, <1>14
     DEF Next, pio_usb_host_frame, sof_timer, SendSof, ServePort, PassSlot, StartTransaction, SendPacket, vars,
         Devices, PlugIn, Unplug, Main

LEMMA ServingNext == BusInv /\ [Next]_vars => Serving'
<1> SUFFICES ASSUME BusInv, [Next]_vars PROVE Serving'
  OBVIOUS
<1>1. PoolTypes /\ slot \in Slots /\ Serving
  BY FrameTypes DEF BusInv, LoopTypes
<1> USE DEF Serving, Operating, Mine
<1>2. CASE sof_timer BY <1>2 DEF sof_timer
<1>3. CASE SendSof BY <1>3 DEF SendSof, NextPort
<1>4. CASE ServePort BY <1>4 DEF ServePort, NextPort, port
<1>5. CASE PassSlot \/ CountDown \/ EndTransaction
  BY <1>1, <1>5, NextSlotPhase DEF PassSlot, CountDown, EndTransaction, port
<1>6. CASE StartTransaction BY <1>1, <1>6 DEF StartTransaction, port
<1>7. CASE SendPacket BY <1>1, <1>7 DEF SendPacket, port
<1>8. CASE CheckConnections BY <1>8 DEF CheckConnections
<1>9. CASE Devices \/ UNCHANGED vars BY <1>1, <1>9 DEF Devices, PlugIn, Unplug, vars, loop, port
<1>10. CASE Main BY <1>10, BetweenFrames DEF loop
<1> QED BY <1>2, <1>3, <1>4, <1>5, <1>6, <1>7, <1>8, <1>9, <1>10 DEF Next, pio_usb_host_frame

LEMMA StartedRegisters ==
    ASSUME BusInv, StartTransaction
    PROVE  IF ep[slot].kind.need_pre THEN Behind(pp', root) ELSE pp' = Configured(root, FALSE)
<1> DEFINE pre == ep[slot].kind.need_pre
<1>1. /\ root \in Roots /\ slot \in Slots /\ pp \in Pp /\ PoolTypes
      /\ pp = Configured(root, FALSE) /\ ~pp.need_pre /\ Operating(root) /\ PreBehindHub
  BY FrameTypes DEF BusInv, LoopTypes, StartTransaction, RegistersSet, Serving
<1>2. pre \in BOOLEAN BY <1>1 DEF PoolTypes, Endpoint, Kind
<1>3. pp' = [pp EXCEPT !.need_pre = pp.need_pre \/ pre] BY DEF StartTransaction
<1>4. CASE pre
  <2>1. is_fullspeed[root] BY <1>1, <1>4 DEF StartTransaction, Mine, PreBehindHub
  <2>2. pp = configure_fullspeed_host([need_pre |-> FALSE], root)
    BY <1>1, <2>1 DEF Configured, configure_root_port
  <2> DEFINE q == configure_fullspeed_host([need_pre |-> TRUE], root)
  <2>3. pp' = [pp EXCEPT !.need_pre = TRUE] BY <1>1, <1>3, <1>4
  <2>4. q \in Pp BY <1>1, HubTypes
  <2>5. pp' \in Pp BY <1>1, <2>3 DEF Pp
  <2>6. pp' = q
    <3>1. [configure_fullspeed_host([need_pre |-> FALSE], root) EXCEPT !.need_pre = TRUE] \in Pp
      BY <2>2, <2>3, <2>5
    <3>2. [configure_fullspeed_host([need_pre |-> FALSE], root) EXCEPT !.need_pre = TRUE] = q
      BY <2>4, <3>1, SameRegisters DEF configure_fullspeed_host
    <3> QED BY <2>2, <2>3, <3>2
  <2> QED BY <1>4, <2>6 DEF Behind
<1>5. CASE ~pre
  <2>1. pp' = [pp EXCEPT !.need_pre = FALSE] BY <1>1, <1>3, <1>5, <1>2
  <2>2. pp' = pp
    <3>1. pp.need_pre = FALSE BY <1>1 DEF Pp
    <3> QED BY <1>1, <2>1, <3>1 DEF Pp
  <2> QED BY <1>1, <1>5, <2>2
<1> QED BY <1>4, <1>5

LEMMA ConfiguredFrame == ASSUME UNCHANGED is_fullspeed, NEW r, NEW pre PROVE Configured(r, pre)' = Configured(r, pre)
BY DEF Configured, configure_root_port

LEMMA ConfiguredPre == ASSUME NEW r, NEW pre PROVE Configured(r, pre).need_pre = pre
BY DEF Configured, configure_root_port, configure_fullspeed_host, configure_lowspeed_host

LEMMA RegistersNext == BusInv /\ [Next]_vars => RegistersSet'
<1> SUFFICES ASSUME BusInv, [Next]_vars PROVE RegistersSet'
  OBVIOUS
<1>1. /\ PortTypes /\ PoolTypes /\ slot \in Slots /\ root \in Roots /\ root' \in Roots /\ pp \in Pp
      /\ RegistersSet /\ Serving /\ PreBehindHub
  BY FrameTypes, FrameTypesNext, FrameTypesPrime DEF BusInv, LoopTypes
<1>2. is_fullspeed[root] \in BOOLEAN BY <1>1 DEF PortTypes
<1>3. CASE UNCHANGED <<pp, is_fullspeed, phase, root, slot>> /\ (phase = "packets" => ep'[slot].kind = ep[slot].kind)
  <2>1. Configured(root, FALSE)' = Configured(root, FALSE) BY <1>3, ConfiguredFrame DEF Configured, configure_root_port
  <2> QED BY <1>1, <1>3, <2>1 DEF RegistersSet, Behind
<1>4. CASE sof_timer BY <1>1, <1>4 DEF sof_timer, RegistersSet
<1>5. CASE SendSof
  <2>1. phase = "sof" /\ phase' \in {"sof", "ports"} BY <1>5 DEF SendSof, NextPort
  <2>2. pp.need_pre = FALSE BY <1>1, <2>1 DEF RegistersSet, Pp
  <2>3. configure_root_port(pp, root) = Configured(root, FALSE) BY <2>2, SameConfiguration
  <2>4. pp' = pp \/ pp' = Configured(root, FALSE)
    BY <1>1, <1>2, <1>5, <2>3, PlainPacket DEF SendSof, Disconnect
  <2> QED BY <2>1, <2>2, <2>4, ConfiguredPre DEF RegistersSet
<1>6. CASE ServePort
  <2>1. phase = "ports" /\ UNCHANGED is_fullspeed BY <1>6 DEF ServePort, port
  <2>2. pp.need_pre = FALSE BY <1>1, <2>1 DEF RegistersSet, Pp
  <2>3. configure_root_port(pp, root) = Configured(root, FALSE) BY <2>2, SameConfiguration
  <2>4. CASE phase' = "slots"
    <3>1. pp' = Configured(root, FALSE) /\ root' = root BY <1>6, <2>3, <2>4 DEF ServePort, NextPort
    <3>2. pp' = Configured(root, FALSE)' BY <2>1, <3>1, ConfiguredFrame DEF Configured, configure_root_port
    <3> QED BY <2>4, <3>1, <3>2, ConfiguredPre DEF RegistersSet
  <2>5. CASE phase' # "slots"
    <3>1. pp' = pp /\ phase' \in {"ports", "check"} BY <1>6, <2>5 DEF ServePort, NextPort
    <3> QED BY <2>2, <3>1 DEF RegistersSet
  <2> QED BY <2>4, <2>5
<1>7. ASSUME phase \in {"slots", "packets"}, NextSlot, UNCHANGED is_fullspeed, pp' = Configured(root, FALSE)
      PROVE  RegistersSet'
  <2>1. phase' \in {"ports", "check"} \/ (phase' = "slots" /\ root' = root) BY <1>7, NextSlotPhase
  <2>2. Configured(root, FALSE).need_pre = FALSE BY ConfiguredPre
  <2>3. root' = root => Configured(root, FALSE)' = Configured(root, FALSE)
    BY <1>7 DEF Configured, configure_root_port
  <2> QED BY <1>7, <2>1, <2>2, <2>3 DEF RegistersSet
<1>8. CASE PassSlot \/ CountDown
  BY <1>1, <1>7, <1>8 DEF PassSlot, CountDown, port, RegistersSet
<1>9. CASE StartTransaction
  <2>1. UNCHANGED <<is_fullspeed, root, slot, ep>> /\ phase' = "packets" BY <1>9 DEF StartTransaction, port
  <2>2. Configured(root, FALSE)' = Configured(root, FALSE)
    BY <2>1 DEF Configured, configure_root_port
  <2>3. IF ep[slot].kind.need_pre THEN Behind(pp', root) ELSE pp' = Configured(root, FALSE)
    BY <1>9, StartedRegisters
  <2> QED BY <2>1, <2>2, <2>3 DEF RegistersSet, Behind
<1>10. CASE SendPacket
  <2>1. UNCHANGED <<is_fullspeed, phase, root, slot, ep>> /\ phase = "packets" BY <1>10 DEF SendPacket, port
  <2>2. Configured(root, FALSE)' = Configured(root, FALSE)
    BY <2>1 DEF Configured, configure_root_port
  <2>3. ep[slot].kind.need_pre \in BOOLEAN BY <1>1 DEF PoolTypes, Endpoint, Kind
  <2>4. pio_usb_bus_usb_transfer(pp, root, ep[slot].kind.need_pre) BY <1>10 DEF SendPacket
  <2>5. CASE ep[slot].kind.need_pre
    <3>1. Behind(pp, root) BY <1>1, <2>1, <2>5 DEF RegistersSet
    <3>2. pio_usb_bus_usb_transfer(pp, root, TRUE) BY <2>3, <2>4, <2>5
    <3>3. Behind(pp', root) BY <1>1, <3>1, <3>2, HubPacket
    <3> QED BY <2>1, <2>5, <3>3 DEF RegistersSet, Behind
  <2>6. CASE ~ep[slot].kind.need_pre
    <3>1. pp = Configured(root, FALSE) BY <1>1, <2>1, <2>6 DEF RegistersSet
    <3>2. pio_usb_bus_usb_transfer(Configured(root, FALSE), root, FALSE) BY <2>3, <2>4, <2>6, <3>1
    <3>3. pp' = Configured(root, FALSE) BY <1>1, <1>2, <3>2, PlainPacket
    <3> QED BY <2>1, <2>2, <2>6, <3>3 DEF RegistersSet
  <2> QED BY <2>5, <2>6
<1>11. CASE EndTransaction
  <2>1. phase = "packets" /\ NextSlot /\ UNCHANGED is_fullspeed BY <1>11 DEF EndTransaction, port
  <2>2. CASE ep[slot].kind.need_pre
    <3>1. Behind(pp, root) /\ is_fullspeed[root]
      BY <1>1, <2>1, <2>2 DEF RegistersSet, Serving, PreBehindHub, Mine
    <3>2. pp' = restore_fs_bus([pp EXCEPT !.need_pre = FALSE]) BY <1>11, <2>2 DEF EndTransaction
    <3>3. pp' = configure_fullspeed_host([need_pre |-> FALSE], root) BY <1>1, <3>1, <3>2, Restored
    <3>4. pp' = Configured(root, FALSE) BY <3>1, <3>3 DEF Configured, configure_root_port
    <3> QED BY <1>7, <2>1, <3>4
  <2>3. CASE ~ep[slot].kind.need_pre
    <3>1. pp' = Configured(root, FALSE) BY <1>1, <1>11, <2>1, <2>3 DEF RegistersSet, EndTransaction
    <3> QED BY <1>7, <2>1, <3>1
  <2> QED BY <2>2, <2>3
<1>12. CASE CheckConnections
  BY <1>1, <1>12 DEF CheckConnections, RegistersSet
<1>13. CASE Devices \/ UNCHANGED vars BY <1>3, <1>13 DEF Devices, PlugIn, Unplug, vars, loop, port
<1>14. CASE Main BY <1>3, <1>14, BetweenFrames DEF loop
<1> QED BY <1>4, <1>5, <1>6, <1>8, <1>9, <1>10, <1>11, <1>12, <1>13, <1>14 DEF Next, pio_usb_host_frame

\* A packet that was just sent fits; every other step leaves it, or the frame ends.
LEMMA SentFits ==
    ASSUME BusInv, NEW r \in Roots, NEW pre \in BOOLEAN, UNCHANGED <<connected, is_fullspeed>>,
           connected[r], pre => is_fullspeed[r], phase' # "idle", phase' = "sof" => r < root',
           wire'.on, wire'.to = r, wire'.need_pre = pre, Fits(wire', is_fullspeed[r])
    PROVE  WireFits'
BY DEF WireFits, Fits

LEMMA WireNext == BusInv /\ [Next]_vars => WireFits'
<1> SUFFICES ASSUME BusInv, [Next]_vars PROVE WireFits'
  OBVIOUS
<1>1. /\ PortTypes /\ PoolTypes /\ slot \in Slots /\ root \in Roots /\ pp \in Pp
      /\ RegistersSet /\ Serving /\ PreBehindHub /\ WireFits
  BY FrameTypes DEF BusInv, LoopTypes
<1>2. is_fullspeed[root] \in BOOLEAN BY <1>1 DEF PortTypes
<1>3. CASE /\ UNCHANGED <<wire, connected, is_fullspeed>>
           /\ wire.on => phase' # "idle" /\ (phase' = "sof" => wire.to < root')
  BY <1>1, <1>3 DEF WireFits, Fits
<1>4. CASE sof_timer BY <1>1, <1>4 DEF sof_timer, WireFits
<1>5. CASE SendSof
  <2>1. phase = "sof" /\ (phase' = "sof" => root' = root + 1) /\ phase' \in {"sof", "ports"}
    BY <1>5 DEF SendSof, NextPort
  <2>2. root < root + 1 BY <1>1 DEF Roots
  <2>3. wire.on => wire.to \in Roots /\ wire.to < root /\ wire.to < root + 1
    BY <1>1, <2>1 DEF WireFits, Roots
  <2>4. CASE UNCHANGED <<port, wire>> BY <1>3, <2>1, <2>3, <2>4 DEF port
  <2>5. CASE Disconnect
    <3>1. UNCHANGED <<wire, is_fullspeed>> /\ \A r \in Roots : r < root => connected'[r] = connected[r]
      <4>1. connected' = [connected EXCEPT ![root] = FALSE] /\ UNCHANGED <<wire, is_fullspeed>>
        BY <2>5 DEF Disconnect
      <4>2. \A r \in Roots : r < root => r # root BY <1>1 DEF Roots
      <4> QED BY <1>1, <4>1, <4>2 DEF PortTypes
    <3>2. ASSUME wire.on
          PROVE  /\ wire.to \in Roots /\ connected'[wire.to] /\ (phase' = "sof" => wire.to < root')
                 /\ wire.need_pre \in BOOLEAN /\ (wire.need_pre => is_fullspeed[wire.to])
                 /\ Fits(wire, is_fullspeed[wire.to])
      BY <1>1, <2>1, <2>3, <3>1, <3>2 DEF WireFits
    <3>3. wire' = wire /\ is_fullspeed' = is_fullspeed /\ phase' # "idle" BY <2>1, <3>1
    <3>4. CASE wire.on
      <4>1. Fits(wire, is_fullspeed[wire.to])' BY <3>2, <3>3, <3>4 DEF Fits
      <4> QED BY <3>2, <3>3, <3>4, <4>1 DEF WireFits
    <3>5. CASE ~wire.on BY <3>3, <3>5 DEF WireFits
    <3> QED BY <3>4, <3>5
  <2>6. CASE Operating(root) /\ pio_usb_bus_usb_transfer(configure_root_port(pp, root), root, FALSE) /\ UNCHANGED port
    <3>1. pp.need_pre = FALSE BY <1>1, <2>1 DEF RegistersSet, Pp
    <3>2. pio_usb_bus_usb_transfer(Configured(root, FALSE), root, FALSE) BY <2>6, <3>1, SameConfiguration
    <3>3. wire'.on /\ wire'.to = root /\ wire'.need_pre = FALSE /\ Fits(wire', is_fullspeed[root])
      BY <1>1, <1>2, <3>2, PlainPacket
    <3>4. connected[root] /\ UNCHANGED <<connected, is_fullspeed>> BY <2>6 DEF Operating, port
    <3> QED BY <1>1, <2>1, <2>2, <3>3, <3>4, SentFits
  <2> QED BY <1>5, <2>4, <2>5, <2>6 DEF SendSof
<1>6. CASE ServePort BY <1>1, <1>3, <1>6 DEF ServePort, NextPort, port
<1>7. CASE PassSlot \/ CountDown \/ EndTransaction
  BY <1>3, <1>7, NextSlotPhase DEF PassSlot, CountDown, EndTransaction, port
<1>8. CASE StartTransaction BY <1>3, <1>8 DEF StartTransaction, port
<1>9. CASE SendPacket
  <2>1. UNCHANGED <<connected, is_fullspeed, phase, root>> /\ phase = "packets" BY <1>9 DEF SendPacket, port
  <2>2. ep[slot].kind.need_pre \in BOOLEAN BY <1>1 DEF PoolTypes, Endpoint, Kind
  <2>3. pio_usb_bus_usb_transfer(pp, root, ep[slot].kind.need_pre) BY <1>9 DEF SendPacket
  <2>4. connected[root] BY <1>1, <2>1 DEF Serving, Operating
  <2>5. CASE ep[slot].kind.need_pre
    <3>1. Behind(pp, root) /\ is_fullspeed[root]
      BY <1>1, <2>1, <2>5 DEF RegistersSet, Serving, PreBehindHub, Mine
    <3>2. pio_usb_bus_usb_transfer(pp, root, TRUE) BY <2>2, <2>3, <2>5
    <3>3. wire'.on /\ wire'.to = root /\ wire'.need_pre = TRUE /\ Fits(wire', TRUE)
      BY <1>1, <3>1, <3>2, HubPacket
    <3>4. is_fullspeed[root] = TRUE BY <1>2, <3>1
    <3> QED BY <1>1, <2>1, <2>4, <3>1, <3>3, <3>4, SentFits
  <2>6. CASE ~ep[slot].kind.need_pre
    <3>1. pp = Configured(root, FALSE) BY <1>1, <2>1, <2>6 DEF RegistersSet
    <3>2. pio_usb_bus_usb_transfer(Configured(root, FALSE), root, FALSE) BY <2>2, <2>3, <2>6, <3>1
    <3>3. wire'.on /\ wire'.to = root /\ wire'.need_pre = FALSE /\ Fits(wire', is_fullspeed[root])
      BY <1>1, <1>2, <3>2, PlainPacket
    <3> QED BY <1>1, <2>1, <2>4, <3>3, SentFits
  <2> QED BY <2>5, <2>6
<1>10. CASE CheckConnections BY <1>10 DEF CheckConnections, WireFits, Silence
<1>11. CASE Devices \/ UNCHANGED vars
  BY <1>1, <1>3, <1>11 DEF Devices, PlugIn, Unplug, vars, loop, port, WireFits
<1>12. CASE Main BY <1>1, <1>3, <1>12, BetweenFrames DEF loop, WireFits
<1> QED BY <1>4, <1>5, <1>6, <1>7, <1>8, <1>9, <1>10, <1>11, <1>12 DEF Next, pio_usb_host_frame

LEMMA BusInvariant == Spec => []BusInv
<1>1. BusInv /\ [Next]_vars => BusInv'
  BY FrameTypesNext, SpeedKnownNext, PreBehindHubNext, ServingNext, RegistersNext, WireNext DEF BusInv
<1> QED BY BusInit, <1>1, PTL DEF Spec

\* A device understands every packet sent to it, whatever port and speed the last one was for.
THEOREM AlwaysSpokenTo == Spec => []SpokenTo
<1>1. BusInv => SpokenTo
  <2> SUFFICES ASSUME BusInv, wire.on, attached[wire.to] # "none" PROVE SpokenTo
    BY DEF SpokenTo
  <2>1. wire.to \in Roots /\ connected[wire.to] /\ Fits(wire, is_fullspeed[wire.to]) /\ PortTypes
    BY FrameTypes DEF BusInv, WireFits
  <2>2. is_fullspeed[wire.to] <=> attached[wire.to] = "full"
    BY <2>1 DEF BusInv, SpeedKnown
  <2>3. attached[wire.to] = IF is_fullspeed[wire.to] THEN "full" ELSE "low"
    BY <2>1, <2>2 DEF PortTypes, Speed
  <2> QED BY <2>1, <2>3 DEF Fits, SpokenTo
<1> QED BY <1>1, BusInvariant, PTL

-----------------------------------------------------------------------------
(***************************************************************************)
(* When an endpoint is polled.  What interval_counter still counts and the *)
(* frames since the last transaction make up the interval: less one once   *)
(* the loop has passed the endpoint, in full while it is ahead.            *)
(***************************************************************************)
Ahead(x) == phase \in {"slots", "packets"} /\ ep[x].root_idx = root /\ x >= slot

Past(x) ==
    \/ phase = "check"
    \/ phase = "ports" /\ ep[x].root_idx < root
    \/ phase \in {"slots", "packets"} /\ (ep[x].root_idx < root \/ (ep[x].root_idx = root /\ x < slot))

\* The counter and the frames of an endpoint, before and after it is passed.
Due(e, n) == n + e.interval_counter = Period(e.kind)
Settled(e, n) == \/ n + e.interval_counter = Period(e.kind) - 1
                 \/ e.interval_counter = 0 /\ n = Period(e.kind)
Clock(x) ==
    /\ ~ep[x].kind.periodic => ep[x].interval_counter = 0
    /\ Ahead(x) => Due(ep[x], since[x])
    /\ ~Ahead(x) => Settled(ep[x], since[x])
    /\ Past(x) /\ ep[x].has_transfer /\ Operating(ep[x].root_idx) => since[x] < Period(ep[x].kind)

TimeInv ==
    /\ \A x \in Slots : ep[x].size => Clock(x)
    /\ phase = "packets" => ep[slot].interval_counter = 0

LEMMA EndpointRange ==
    ASSUME PoolTypes, NEW x \in Slots
    PROVE  /\ ep[x].root_idx \in Roots /\ ep[x].kind \in Kind /\ ep[x].interval_counter \in 0..CounterMod-1
           /\ Period(ep[x].kind) \in 1..CounterMod /\ since[x] \in 0..CounterMod
           /\ ep[x].has_transfer \in BOOLEAN /\ ep[x].kind.periodic \in BOOLEAN /\ ep[x].size \in BOOLEAN
<1>1. ep[x] \in Endpoint /\ since[x] \in 0..CounterMod BY DEF PoolTypes
<1>2. ep[x].kind \in Kind BY <1>1 DEF Endpoint
<1>3. Period(ep[x].kind) \in 1..CounterMod BY <1>2, PeriodType
<1> QED BY <1>1, <1>2, <1>3 DEF Endpoint, Kind

\* The step to the next endpoint takes this one, and no other, from ahead to past.
LEMMA PassedOne ==
    ASSUME LoopTypes, phase \in {"slots", "packets"}, NextSlot, NEW x \in Slots, ep[x].root_idx \in Roots,
           ep'[x].root_idx = ep[x].root_idx
    PROVE  /\ Ahead(x)' <=> Ahead(x) /\ x # slot
           /\ Past(x)' => Past(x) \/ (x = slot /\ ep[x].root_idx = root)
<1>1. /\ x \in Nat /\ x < PoolSize /\ slot \in Nat /\ slot < PoolSize /\ PoolSize \in Nat
      /\ root \in Nat /\ root < Ports /\ Ports \in Nat /\ ep[x].root_idx \in Nat /\ ep[x].root_idx < Ports
  BY FrameAssumption DEF LoopTypes, Slots, Roots
<1>2. CASE slot + 1 < PoolSize
  <2>1. phase' = "slots" /\ slot' = slot + 1 /\ root' = root BY <1>2 DEF NextSlot
  <2> QED BY <1>1, <2>1 DEF Ahead, Past
<1>3. CASE ~(slot + 1 < PoolSize)
  <2>1. x <= slot BY <1>1, <1>3
  <2>2. NextPort("ports", "check") BY <1>3 DEF NextSlot
  <2>3. CASE root + 1 < Ports
    <3>1. phase' = "ports" /\ root' = root + 1 BY <2>2, <2>3 DEF NextPort
    <3> QED BY <1>1, <2>1, <3>1 DEF Ahead, Past
  <2>4. CASE ~(root + 1 < Ports)
    <3>1. phase' = "check" BY <2>2, <2>4 DEF NextPort
    <3>2. ep[x].root_idx <= root BY <1>1, <2>4
    <3> QED BY <1>1, <2>1, <3>1, <3>2 DEF Ahead, Past
  <2> QED BY <2>3, <2>4
<1> QED BY <1>2, <1>3

\* An endpoint a step leaves alone and does not pass.
LEMMA ClockKept ==
    ASSUME NEW x \in Slots, Clock(x), UNCHANGED <<ep[x], since[x]>>,
           Ahead(x)' <=> Ahead(x), Past(x)' => Past(x) \/ ~Operating(ep[x].root_idx),
           UNCHANGED <<connected, suspended>>
    PROVE  Clock(x)'
BY DEF Clock, Operating

\* One outside the part of the frame that counts.
LEMMA ClockOutside ==
    ASSUME NEW x \in Slots, Settled(ep[x], since[x]), ~ep[x].kind.periodic => ep[x].interval_counter = 0,
           ep'[x].kind = ep[x].kind, ep'[x].interval_counter = ep[x].interval_counter, since'[x] = since[x],
           ~Ahead(x)', ~Past(x)'
    PROVE  Clock(x)'
BY DEF Clock, Settled, Period

TimeBase == BusInv /\ TimeInv

LEMMA TimeTypes ==
    ASSUME TimeBase
    PROVE  /\ PortTypes /\ LoopTypes /\ PoolTypes /\ Serving /\ slot \in Slots /\ root \in Roots
           /\ TimeInv /\ \A x \in Slots : ep[x].size => Clock(x)
BY FrameTypes DEF TimeBase, BusInv, LoopTypes, TimeInv

LEMMA ServeTime == ASSUME TimeBase, ServePort PROVE TimeInv'
<1>1. PortTypes /\ LoopTypes /\ PoolTypes /\ root \in Roots /\ \A x \in Slots : ep[x].size => Clock(x)
  BY TimeTypes
<1>2. phase = "ports" /\ UNCHANGED <<connected, suspended, ep>> BY DEF ServePort, port
<1>3. phase' # "packets" BY DEF ServePort, NextPort
<1>4. ASSUME NEW x \in Slots, ep[x].size PROVE Clock(x)'
  <2>1. /\ root \in Nat /\ ep[x].root_idx \in Nat /\ ep[x].root_idx < Ports /\ Ports \in Nat
        /\ x >= 0 /\ ep[x].root_idx \in Roots
    BY <1>1, EndpointRange, FrameAssumption DEF Roots, Slots
  <2>2. Clock(x) /\ ~Ahead(x) BY <1>1, <1>2, <1>4 DEF Ahead
  <2>3. CASE ~Operating(root)
    <3>1. NextPort("ports", "check") /\ UNCHANGED since BY <2>3 DEF ServePort
    <3>2. ~Ahead(x)' BY <3>1 DEF NextPort, Ahead
    <3>3. ASSUME Past(x)', ~Past(x) PROVE ep[x].root_idx = root
      <4>1. CASE root + 1 < Ports
        <5>1. phase' = "ports" /\ root' = root + 1 BY <3>1, <4>1 DEF NextPort
        <5> QED BY <1>2, <2>1, <3>3, <5>1 DEF Past
      <4>2. CASE ~(root + 1 < Ports)
        <5>1. ep[x].root_idx <= root BY <2>1, <4>2, <1>1
        <5> QED BY <1>2, <2>1, <3>3, <5>1 DEF Past
      <4> QED BY <4>1, <4>2
    <3> QED BY <1>2, <2>2, <2>3, <3>1, <3>2, <3>3, ClockKept
  <2>4. CASE Operating(root)
    <3>1. phase' = "slots" /\ slot' = 0 /\ root' = root /\ since' = Counted
      BY <2>4 DEF ServePort, NextPort, Operating
    <3>2. CASE ep[x].root_idx = root
      <4>1. Ahead(x)' /\ ~Past(x)' BY <1>2, <2>1, <3>1, <3>2 DEF Ahead, Past, Slots
      <4>2. since'[x] = Least(since[x] + 1, Period(ep[x].kind)) BY <1>4, <3>1, <3>2 DEF Counted
      <4>3. Settled(ep[x], since[x]) /\ (~ep[x].kind.periodic => ep[x].interval_counter = 0)
        BY <2>2 DEF Clock
      <4>4. /\ ep[x].interval_counter \in Nat /\ since[x] \in Nat /\ Period(ep[x].kind) \in Nat
        BY <1>1, EndpointRange, FrameAssumption
      <4>5. since'[x] + ep[x].interval_counter = Period(ep[x].kind)
      <5> DEFINE n == since[x]
                 c == ep[x].interval_counter
                 d == Period(ep[x].kind)
      <5>1. since'[x] = Least(n + 1, d) /\ n \in Nat /\ c \in Nat /\ d \in Nat BY <4>2, <4>4
      <5>2. n + c = d - 1 \/ (c = 0 /\ n = d) BY <4>3 DEF Settled
      <5> HIDE DEF n, c, d
      <5>3. Least(n + 1, d) + c = d BY <5>1, <5>2 DEF Least
      <5> QED BY <5>1, <5>3 DEF c, d
      <4>6. Due(ep[x], since[x])' BY <1>2, <4>5 DEF Due, Period
      <4> QED BY <1>2, <4>1, <4>3, <4>6 DEF Clock
    <3>3. CASE ep[x].root_idx # root
      <4>1. since'[x] = since[x] BY <3>1, <3>3 DEF Counted
      <4>2. ~Ahead(x)' /\ (Past(x)' => Past(x)) BY <1>2, <2>1, <3>1, <3>3 DEF Ahead, Past
      <4> QED BY <1>2, <2>2, <4>1, <4>2, ClockKept
    <3> QED BY <3>2, <3>3
  <2> QED BY <2>3, <2>4
<1> QED BY <1>2, <1>3, <1>4 DEF TimeInv

\* The endpoints a step of the pool's loop does not treat.
LEMMA OthersKept ==
    ASSUME TimeBase, phase \in {"slots", "packets"}, NextSlot, UNCHANGED <<connected, suspended>>,
           NEW x \in Slots, ep[x].size, x # slot \/ ep[x].root_idx # root, UNCHANGED <<ep[x], since[x]>>
    PROVE  Clock(x)'
<1>1. LoopTypes /\ PoolTypes /\ Clock(x) BY TimeTypes
<1>2. ep[x].root_idx \in Roots /\ ep'[x].root_idx = ep[x].root_idx BY <1>1, EndpointRange
<1>3. (Ahead(x)' <=> Ahead(x) /\ x # slot) /\ (Past(x)' => Past(x) \/ (x = slot /\ ep[x].root_idx = root))
  BY <1>1, <1>2, PassedOne
<1>4. (Ahead(x)' <=> Ahead(x)) /\ (Past(x)' => Past(x)) BY <1>3 DEF Ahead
<1> QED BY <1>1, <1>4, ClockKept

\* The endpoint it does treat.
LEMMA TreatedClock ==
    ASSUME TimeBase, phase \in {"slots", "packets"}, NextSlot, UNCHANGED <<connected, suspended>>,
           NEW x \in Slots, x = slot,
           ep'[x].root_idx = ep[x].root_idx, ep'[x].kind = ep[x].kind,
           ~ep[x].kind.periodic => ep'[x].interval_counter = 0,
           Settled(ep'[x], since'[x]),
           ep'[x].has_transfer => since'[x] < Period(ep[x].kind)
    PROVE  Clock(x)'
<1>1. LoopTypes /\ PoolTypes BY TimeTypes
<1>2. ep[x].root_idx \in Roots BY <1>1, EndpointRange
<1>3. ~Ahead(x)' BY <1>1, <1>2, PassedOne
<1> QED BY <1>3 DEF Clock, Settled, Period

LEMMA PassTime == ASSUME TimeBase, PassSlot \/ CountDown \/ EndTransaction PROVE TimeInv'
<1>1. /\ PortTypes /\ LoopTypes /\ PoolTypes /\ Serving /\ TimeInv /\ slot \in Slots /\ root \in Roots
      /\ \A x \in Slots : ep[x].size => Clock(x)
  BY TimeTypes
<1>2. /\ phase \in {"slots", "packets"} /\ NextSlot /\ UNCHANGED <<connected, suspended>> /\ phase' # "packets"
      /\ \A x \in Slots : x # slot => ep'[x] = ep[x] /\ since'[x] = since[x]
  BY <1>1, NextSlotPhase DEF PassSlot, CountDown, EndTransaction, port, PoolTypes
<1>3. ASSUME NEW x \in Slots, ep'[x].size, x # slot PROVE Clock(x)'
  BY <1>2, <1>3, OthersKept
<1>4. ASSUME NEW x \in Slots, x = slot, ~Mine, PassSlot, ep'[x].size PROVE Clock(x)'
  <2>1. UNCHANGED <<ep, since>> /\ (ep[slot].size => ep[slot].root_idx # root)
    BY <1>4 DEF PassSlot, Mine
  <2>2. UNCHANGED <<ep[x], since[x]>> /\ ep[x].size /\ ep[x].root_idx # root BY <1>4, <2>1
  <2> QED BY <1>2, <2>2, OthersKept
<1>5. ASSUME NEW x \in Slots, x = slot, Mine PROVE Clock(x)'
  <2> DEFINE n == since[x]
             c == ep[x].interval_counter
             d == Period(ep[x].kind)
             k == ep[x].kind
  <2>1. /\ c \in 0..CounterMod-1 /\ d \in 1..CounterMod /\ n \in 0..CounterMod /\ k.periodic \in BOOLEAN /\ k \in Kind
        /\ CounterMod \in Nat
    BY <1>1, EndpointRange, FrameAssumption
  <2>2. Ahead(x) /\ Clock(x)
    <3>1. ep[x].size /\ ep[x].root_idx = root BY <1>5 DEF Mine
    <3>2. x >= slot BY <1>5 DEF Slots
    <3> QED BY <1>1, <1>2, <3>1, <3>2 DEF Ahead
  <2>3. n + c = d /\ (~k.periodic => c = 0) BY <2>2 DEF Clock, Due
  <2>4. CASE PassSlot
    <3>1. ep' = ep /\ since' = since /\ ~(k.periodic /\ c > 0) /\ ~ep[x].has_transfer
      BY <1>5, <2>4 DEF PassSlot, Waiting
    <3>2. c = 0 /\ n = d BY <2>1, <2>3, <3>1
    <3>3. ep'[x] = ep[x] /\ since'[x] = since[x] BY <3>1
    <3>4. Settled(ep'[x], since'[x]) BY <3>2, <3>3 DEF Settled
    <3> QED BY <1>2, <1>5, <3>1, <3>2, <3>3, <3>4, TreatedClock
  <2>5. CASE CountDown
    <3>1. /\ ep' = [ep EXCEPT ![x].interval_counter = ep[x].interval_counter - 1]
          /\ since' = since /\ k.periodic /\ c > 0
      BY <1>5, <2>5 DEF CountDown, Waiting
    <3>2. ep[x] \in Endpoint BY <1>1 DEF PoolTypes
    <3>3. /\ ep'[x].root_idx = ep[x].root_idx /\ ep'[x].kind = k /\ ep'[x].interval_counter = c - 1
      BY <1>1, <3>1, <3>2 DEF PoolTypes, Endpoint
    <3>4. n + (c - 1) = d - 1 /\ n < d BY <2>1, <2>3, <3>1
    <3>5. Settled(ep'[x], since'[x]) /\ since'[x] < d BY <3>1, <3>3, <3>4 DEF Settled
    <3> QED BY <1>2, <1>5, <3>1, <3>3, <3>5, TreatedClock
  <2>6. CASE EndTransaction
    <3>1. PICK pending \in BOOLEAN :
             ep' = [ep EXCEPT ![x].has_transfer = pending,
                              ![x].interval_counter =
                                  IF ep[x].kind.periodic THEN NextCounter(ep[x].kind) ELSE @]
      BY <1>5, <2>6 DEF EndTransaction
    <3>2. ep[x] \in Endpoint BY <1>1 DEF PoolTypes
    <3>3. /\ ep'[x].root_idx = ep[x].root_idx /\ ep'[x].kind = k
          /\ ep'[x].interval_counter = IF k.periodic THEN NextCounter(k) ELSE c
      BY <1>1, <3>1, <3>2 DEF PoolTypes, Endpoint
    <3>4. since'[x] = 0 BY <1>1, <1>5, <2>6 DEF EndTransaction, PoolTypes
    <3>5. (IF k.periodic THEN NextCounter(k) ELSE c) = d - 1
      <4>1. k.interval \in 0..CounterMod-1 BY <2>1 DEF Kind
      <4>2. CASE k.periodic BY <2>1, <4>1, <4>2 DEF NextCounter, Period
      <4>3. CASE ~k.periodic
        <5>1. c = 0 BY <2>3, <4>3
        <5>2. d = 1 BY <4>3 DEF Period
        <5> QED BY <4>3, <5>1, <5>2
      <4> QED BY <4>2, <4>3
    <3>6. 0 + (d - 1) = d - 1 /\ 0 < d BY <2>1
    <3>7. Settled(ep'[x], since'[x]) /\ since'[x] < d BY <3>3, <3>4, <3>5, <3>6 DEF Settled
    <3>8. ~k.periodic => ep'[x].interval_counter = 0 BY <2>3, <3>3
    <3> QED BY <1>2, <1>5, <3>3, <3>7, <3>8, TreatedClock
  <2> QED BY <2>4, <2>5, <2>6
<1>6. Mine \/ PassSlot BY <1>1 DEF CountDown, EndTransaction, Serving
<1>7. ASSUME NEW x \in Slots, ep'[x].size PROVE Clock(x)'
  <2>1. CASE x # slot BY <1>3, <1>7, <2>1
  <2>2. CASE x = slot
    <3>1. CASE Mine BY <1>5, <2>2, <3>1
    <3>2. CASE ~Mine BY <1>4, <1>6, <1>7, <2>2, <3>2
    <3> QED BY <3>1, <3>2
  <2> QED BY <2>1, <2>2
<1> QED BY <1>2, <1>7 DEF TimeInv

LEMMA TransactionTime == ASSUME TimeBase, StartTransaction \/ SendPacket PROVE TimeInv'
<1>1. /\ LoopTypes /\ PoolTypes /\ TimeInv /\ slot \in Slots /\ \A x \in Slots : ep[x].size => Clock(x)
  BY TimeTypes
<1>2. /\ phase \in {"slots", "packets"} /\ phase' = "packets" /\ UNCHANGED <<port, ep, root, slot, since>>
  BY DEF StartTransaction, SendPacket
<1>3. ASSUME NEW x \in Slots, ep[x].size PROVE Clock(x)'
  <2>1. (Ahead(x)' <=> Ahead(x)) /\ (Past(x)' <=> Past(x)) BY <1>2 DEF Ahead, Past
  <2> QED BY <1>1, <1>2, <1>3, <2>1, ClockKept DEF port
<1>4. ep[slot].interval_counter = 0
  <2>1. CASE StartTransaction
    <3>1. Mine /\ ~Waiting BY <2>1 DEF StartTransaction
    <3>2. Clock(slot) BY <1>1, <3>1 DEF Mine
    <3>3. ep[slot].interval_counter \in 0..CounterMod-1 BY <1>1, EndpointRange
    <3> QED BY <3>1, <3>2, <3>3, FrameAssumption DEF Waiting, Clock
  <2>2. CASE SendPacket BY <1>1, <2>2 DEF SendPacket, TimeInv
  <2> QED BY <2>1, <2>2
<1> QED BY <1>2, <1>3, <1>4 DEF TimeInv

\* Outside the loop over the pool no endpoint is ahead, before it none is past.
LEMMA OutsideTime ==
    ASSUME TimeBase, phase \notin {"slots", "packets"}, phase' \in {"idle", "sof"} \/ (phase' = "ports" /\ root' = 0),
           \A x \in Slots : ep'[x].size =>
               \/ ep[x].size /\ ep'[x].kind = ep[x].kind /\ ep'[x].interval_counter = ep[x].interval_counter
                  /\ ep'[x].root_idx = ep[x].root_idx /\ since'[x] = since[x]
               \/ ep'[x].interval_counter = 0 /\ since'[x] = Period(ep'[x].kind) /\ phase' = "idle"
    PROVE  TimeInv'
<1>1. PoolTypes /\ \A x \in Slots : ep[x].size => Clock(x) BY TimeTypes
<1>2. ASSUME NEW x \in Slots, ep'[x].size PROVE Clock(x)'
  <2>1. CASE ep[x].size /\ ep'[x].kind = ep[x].kind /\ ep'[x].interval_counter = ep[x].interval_counter
             /\ ep'[x].root_idx = ep[x].root_idx /\ since'[x] = since[x]
    <3>1. ep[x].root_idx \in Nat BY <1>1, EndpointRange DEF Roots
    <3>2. ~Ahead(x) BY DEF Ahead
    <3>3. ~Ahead(x)' /\ ~Past(x)' BY <2>1, <3>1 DEF Ahead, Past
    <3>4. Settled(ep[x], since[x]) /\ (~ep[x].kind.periodic => ep[x].interval_counter = 0)
      BY <1>1, <2>1, <3>2 DEF Clock
    <3> QED BY <2>1, <3>3, <3>4, ClockOutside
  <2>2. CASE ep'[x].interval_counter = 0 /\ since'[x] = Period(ep'[x].kind) /\ phase' = "idle"
    <3>1. ~Ahead(x)' /\ ~Past(x)' BY <2>2 DEF Ahead, Past
    <3> QED BY <2>2, <3>1 DEF Clock, Settled, Period
  <2> QED BY <1>2, <2>1, <2>2
<1> QED BY <1>2 DEF TimeInv

LEMMA TimeNext == TimeBase /\ [Next]_vars => TimeInv'
<1> SUFFICES ASSUME TimeBase, [Next]_vars PROVE TimeInv'
  OBVIOUS
<1>1. PoolTypes /\ TimeInv /\ slot \in Slots /\ root \in Roots BY TimeTypes
<1>2. \A x \in Slots : ep[x] \in Endpoint BY <1>1 DEF PoolTypes
<1>3. CASE sof_timer BY <1>3, OutsideTime DEF sof_timer
<1>4. CASE SendSof
  <2>1. phase = "sof" /\ (phase' = "sof" \/ (phase' = "ports" /\ root' = 0)) /\ UNCHANGED since
    BY <1>4 DEF SendSof, NextPort
  <2>2. CASE UNCHANGED ep BY <2>1, <2>2, OutsideTime
  <2>3. CASE Disconnect
    <3>1. \A x \in Slots : /\ ep'[x].size = ep[x].size /\ ep'[x].kind = ep[x].kind
                           /\ ep'[x].interval_counter = ep[x].interval_counter /\ ep'[x].root_idx = ep[x].root_idx
      BY <1>2, <2>3 DEF Disconnect, Endpoint
    <3> QED BY <2>1, <3>1, OutsideTime
  <2> QED BY <1>4, <2>2, <2>3 DEF SendSof
<1>5. CASE CheckConnections BY <1>5, OutsideTime DEF CheckConnections
<1>6. CASE UNCHANGED <<phase, root, slot, ep, since, connected, suspended>>
  <2>1. \A x \in Slots : (Ahead(x)' <=> Ahead(x)) /\ (Past(x)' <=> Past(x)) BY <1>6 DEF Ahead, Past
  <2>2. ASSUME NEW x \in Slots, ep[x].size PROVE Clock(x)'
    BY <1>1, <1>6, <2>1, <2>2, ClockKept DEF TimeInv
  <2> QED BY <1>1, <1>6, <2>2 DEF TimeInv
<1>7. CASE Main
  <2>1. phase = "idle" /\ phase' = "idle" BY <1>7, BetweenFrames DEF loop
  <2>2. CASE UNCHANGED <<ep, since>> BY <2>1, <2>2, OutsideTime
  <2>3. ASSUME NEW x \in Slots, NEW r \in Roots, NEW kind \in Kinds, pio_usb_host_endpoint_open(x, r, kind)
        PROVE  TimeInv'
    <3>1. /\ ep'[x].interval_counter = 0 /\ ep'[x].kind = kind /\ since'[x] = Period(kind)
          /\ \A y \in Slots \ {x} : ep'[y] = ep[y] /\ since'[y] = since[y]
      BY <1>1, <2>3 DEF pio_usb_host_endpoint_open, PoolTypes
    <3> QED BY <2>1, <3>1, OutsideTime
  <2>4. ASSUME NEW x \in Slots, pio_usb_host_endpoint_close(x) PROVE TimeInv'
    <3>1. ~ep'[x].size /\ \A y \in Slots \ {x} : ep'[y] = ep[y] /\ since'[y] = since[y]
      BY <1>1, <2>4 DEF pio_usb_host_endpoint_close, PoolTypes, Closed
    <3> QED BY <2>1, <3>1, OutsideTime
  <2>5. ASSUME NEW r \in Roots, NEW slots \in SUBSET Slots, pio_usb_host_close_device(r, slots) PROVE TimeInv'
    <3>1. \A y \in Slots : ~ep'[y].size \/ (ep'[y] = ep[y] /\ since'[y] = since[y])
      BY <1>1, <2>5 DEF pio_usb_host_close_device, PoolTypes, Closed
    <3> QED BY <2>1, <3>1, OutsideTime
  <2>6. ASSUME NEW x \in Slots, NEW pending \in BOOLEAN, Submit(x, pending) PROVE TimeInv'
    <3>1. \A y \in Slots : /\ ep'[y].size = ep[y].size /\ ep'[y].kind = ep[y].kind /\ since'[y] = since[y]
                           /\ ep'[y].interval_counter = ep[y].interval_counter /\ ep'[y].root_idx = ep[y].root_idx
      BY <1>1, <1>2, <2>6 DEF Submit, PoolTypes, Endpoint
    <3> QED BY <2>1, <3>1, OutsideTime
  <2> QED BY <1>7, <2>2, <2>3, <2>4, <2>5, <2>6
          DEF Main, pio_usb_host_port_reset_start, pio_usb_host_port_reset_end
<1> QED
  BY <1>3, <1>4, <1>5, <1>6, <1>7, ServeTime, PassTime, TransactionTime
     DEF Next, pio_usb_host_frame, Devices, PlugIn, Unplug, vars, loop, port

\* Every endpoint is polled at its interval, neither sooner nor later, whatever the other
\* endpoints and ports do.
THEOREM AlwaysPolledOnTime == Spec => []PolledOnTime
<1>1. Init => TimeInv BY DEF Init, TimeInv, Closed
<1>2. TimeBase => PolledOnTime
  <2> SUFFICES ASSUME TimeBase PROVE PolledOnTime
    OBVIOUS
  <2>1. PoolTypes /\ Serving /\ TimeInv /\ slot \in Slots /\ \A x \in Slots : ep[x].size => Clock(x)
    BY TimeTypes
  <2>2. ASSUME phase = "packets" PROVE since[slot] = Period(ep[slot].kind)
    <3>1. ep[slot].size /\ ep[slot].root_idx = root BY <2>1, <2>2 DEF Serving, Mine
    <3>2. Clock(slot) /\ Ahead(slot) /\ ep[slot].interval_counter = 0
      BY <2>1, <2>2, <3>1 DEF Ahead, TimeInv, Slots
    <3>3. since[slot] \in 0..CounterMod BY <2>1, EndpointRange
    <3> QED BY <3>2, <3>3, FrameAssumption DEF Clock, Due
  <2>3. ASSUME phase = "check", NEW x \in Slots, ep[x].size, ep[x].has_transfer, Operating(ep[x].root_idx)
        PROVE  since[x] < Period(ep[x].kind)
    BY <2>1, <2>3 DEF Clock, Past
  <2> QED BY <2>2, <2>3 DEF PolledOnTime
<1>3. TimeBase /\ [Next]_vars => TimeInv' BY TimeNext
<1> QED BY <1>1, <1>2, <1>3, BusInvariant, PTL DEF Spec, TimeBase
=============================================================================
