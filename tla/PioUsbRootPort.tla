--------------------------- MODULE PioUsbRootPort ---------------------------
(***************************************************************************)
(* The root port of the PIO USB host and its endpoint pool,                *)
(* src/src/Pico-PIO-USB/src/pio_usb_host.c.                                *)
(*                                                                         *)
(* Two actors share the port and the pool on core 0: the host stack, which *)
(* calls the pio_usb_host_ functions from the main loop, and the frame,    *)
(* pio_usb_host_frame, which a timer interrupt runs every millisecond.     *)
(* The frame may run between any two steps of the main loop; it is never   *)
(* itself interrupted, so it is one action.                                *)
(*                                                                         *)
(* What a transaction comes to is left open here: PioUsbTransfer has it.   *)
(* So is whether an interrupt endpoint is due in a frame                   *)
(* (interval_counter).                                                     *)
(***************************************************************************)
EXTENDS Naturals, Sequences

CONSTANTS
    Pool,           \* slots of pio_usb_ep_pool
    Endpoints,      \* endpoints of the device
    NoEndpoint,     \* size = 0: the slot is free
    MaxEvents       \* bound: a device is not plugged in while so many events wait

ASSUME PoolAssumption == NoEndpoint \notin Endpoints

VARIABLES
    plugged,        \* there is a device
    forced,         \* the host holds the line in SE0
    settling,       \* it has let go of it, and the line is not back yet
    connected, suspended,   \* of the root_port_t
    events,         \* connections and disconnections the host stack has not handled yet
    ep,             \* the pool: [owner, has_transfer, transfer_aborted] of each slot
    pc,             \* where the main loop is in a call of several steps
    slot, still_active,     \* locals of pio_usb_host_endpoint_abort_transfer
    up,             \* the host stack has reset the port and operates the device
    \* history
    xfer,           \* whose transfer a slot has; NoEndpoint once that endpoint alone was closed
    ends,           \* how often the end of a slot's transfer was reported
    bounced         \* contact was lost and found again within one frame

port == <<connected, suspended, events>>
line == <<plugged, forced, settling>>
main == <<pc, slot, still_active, up>>
history == <<xfer, ends, bounced>>
vars == <<line, port, ep, main, history>>

Free == [owner |-> NoEndpoint, has_transfer |-> FALSE, transfer_aborted |-> FALSE]
Open(s) == ep[s].owner # NoEndpoint
Twice == 2      \* bound: ends are counted up to here
Least(a, b) == IF a <= b THEN a ELSE b

Init ==
    /\ plugged = FALSE /\ forced = FALSE /\ settling = FALSE
    /\ connected = FALSE /\ suspended = FALSE /\ events = <<>>
    /\ ep = [s \in Pool |-> Free]
    /\ pc = "idle" /\ slot \in Pool /\ still_active = FALSE /\ up = FALSE
    /\ xfer = [s \in Pool |-> NoEndpoint] /\ ends = [s \in Pool |-> 0] /\ bounced = FALSE

-----------------------------------------------------------------------------
(***************************************************************************)
(* The device                                                              *)
(***************************************************************************)

PlugIn ==
    /\ ~plugged /\ Len(events) < MaxEvents /\ plugged' = TRUE
    /\ UNCHANGED <<forced, settling, port, ep, main, history>>
Unplug ==
    /\ plugged /\ plugged' = FALSE
    /\ UNCHANGED <<forced, settling, port, ep, main, history>>

\* pio_usb_bus_get_line_state: what a sample of the line may read.
Samples(attached) ==
    IF forced \/ ~attached THEN {"SE0"} ELSE IF settling THEN {"SE0", "IDLE"} ELSE {"IDLE"}

-----------------------------------------------------------------------------
(***************************************************************************)
(* The frame, in the timer interrupt                                       *)
(***************************************************************************)

\* connection_check, the line being SE0: every pending transfer ends with an error.
RetireAll ==
    /\ ep' = [s \in Pool |-> IF Open(s) THEN [ep[s] EXCEPT !.has_transfer = FALSE] ELSE ep[s]]
    /\ ends' = [s \in Pool |-> IF Open(s) /\ ep[s].has_transfer
                               THEN Least(ends[s] + 1, Twice) ELSE ends[s]]

\* Fault: an aborted transfer goes on.
CarriedOutAborted == {s \in Pool : Open(s) /\ ep[s].has_transfer}

\* Slots whose transfer a frame carries out, if they are due.
CarriedOut == {s \in Pool : Open(s) /\ ep[s].has_transfer /\ ~ep[s].transfer_aborted}

\* Their transactions: those of "over" end the transfer.
Transactions ==
    \E over \in SUBSET CarriedOut :
        /\ ep' = [s \in Pool |-> IF s \in over THEN [ep[s] EXCEPT !.has_transfer = FALSE] ELSE ep[s]]
        /\ ends' = [s \in Pool |-> IF s \in over THEN Least(ends[s] + 1, Twice) ELSE ends[s]]

\* Fault: the connection is checked in a reset, too.
CheckedAlways == connected

\* The port is served, and its connection checked, only while it is not suspended.
Operating == connected /\ ~suspended

\* Fault: the second if of the handler is an else if.
OneEventOnly(connect, disconnect) ==
    IF connect THEN <<"CONNECT">> ELSE IF disconnect THEN <<"DISCONNECT">> ELSE <<>>

\* __pio_usb_host_irq_handler at the end of a frame, in the order of its ifs; root->event
\* keeps the last of them, the host stack that replaces this handler queues them.
Reported(connect, disconnect) ==
    (IF connect THEN <<"CONNECT">> ELSE <<>>) \o (IF disconnect THEN <<"DISCONNECT">> ELSE <<>>)

\* One frame: the check for a disconnection, the transactions, the check for a connection,
\* the handler.  "again": contact is back before the last check.
pio_usb_host_frame(again) ==
    /\ again => ~plugged
    /\ bounced' = (bounced \/ (again /\ Operating))
    /\ \E sample \in Samples(plugged), last \in Samples(plugged \/ again) :
           LET disconnect == Operating /\ sample = "SE0"
               connect == (disconnect \/ ~connected) /\ last = "IDLE"
           IN /\ IF disconnect THEN RetireAll
                 ELSE IF Operating THEN Transactions ELSE UNCHANGED <<ep, ends>>
              /\ plugged' = (plugged \/ again)
              /\ connected' = (connect \/ (connected /\ ~disconnect))
              /\ suspended' = (connect \/ disconnect \/ suspended)
              /\ events' = events \o Reported(connect, disconnect)
              /\ UNCHANGED <<forced, settling, main, xfer>>

-----------------------------------------------------------------------------
(***************************************************************************)
(* The main loop: the calls of the host stack                              *)
(***************************************************************************)

\* First suspended, then SE0.
ResetSteps ==
    \/ pc = "idle" /\ suspended' = TRUE /\ UNCHANGED forced /\ pc' = "force"
    \/ pc = "force" /\ forced' = TRUE /\ UNCHANGED suspended /\ pc' = "reset"

\* What the stack does next: the events are handled in their order.
Told(e) == events # <<>> /\ Head(events) = e

\* The stack resets the port of a device that has been reported.
pio_usb_host_port_reset_start ==
    /\ ~up /\ ResetSteps
    /\ IF pc = "idle" THEN Told("CONNECT") /\ events' = Tail(events) ELSE UNCHANGED events
    /\ UNCHANGED <<plugged, settling, connected, ep, slot, still_active, up, history>>

\* Fault: the port operates as soon as the line is released.
ResetEndAtOnce ==
    \/ /\ pc = "reset" /\ forced' = FALSE /\ settling' = TRUE /\ suspended' = FALSE
       /\ pc' = "settle" /\ UNCHANGED up
    \/ /\ pc = "settle" /\ settling' = FALSE /\ up' = TRUE /\ pc' = "idle"
       /\ UNCHANGED <<forced, suspended>>

\* The line is released and, 100us later, the port operates.
ResetEndSteps ==
    \/ /\ pc = "reset" /\ forced' = FALSE /\ settling' = TRUE
       /\ pc' = "settle" /\ UNCHANGED <<suspended, up>>
    \/ /\ pc = "settle" /\ settling' = FALSE /\ suspended' = FALSE /\ up' = TRUE
       /\ pc' = "idle" /\ UNCHANGED forced

pio_usb_host_port_reset_end ==
    /\ ResetEndSteps
    /\ UNCHANGED <<plugged, connected, events, ep, slot, still_active, history>>

\* A free slot is configured; has_transfer is not touched.
pio_usb_host_endpoint_open(s, e) ==
    /\ pc = "idle" /\ up
    /\ ~Open(s) /\ \A t \in Pool : ep[t].owner # e
    /\ ep' = [ep EXCEPT ![s].owner = e]
    /\ UNCHANGED <<line, port, main, history>>

\* The slot is free again; nothing else is touched.
pio_usb_host_endpoint_close(s) ==
    /\ pc = "idle" /\ up /\ Open(s)
    /\ ep' = [ep EXCEPT ![s].owner = NoEndpoint]
    /\ xfer' = [xfer EXCEPT ![s] = NoEndpoint]
    /\ UNCHANGED <<line, port, main, ends, bounced>>

\* Fault: a closed slot keeps its transfer.
CloseKeepsTransfer == [s \in Pool |-> [ep[s] EXCEPT !.owner = NoEndpoint]]

ClosedDevice ==
    [s \in Pool |-> IF Open(s) THEN [ep[s] EXCEPT !.owner = NoEndpoint, !.has_transfer = FALSE]
                    ELSE ep[s]]

\* The stack hears of the disconnection: pio_usb_host_close_device.
pio_usb_host_close_device ==
    /\ pc = "idle" /\ Told("DISCONNECT") /\ events' = Tail(events)
    /\ ep' = ClosedDevice /\ up' = FALSE
    /\ UNCHANGED <<line, connected, suspended, pc, slot, still_active, history>>

\* A connection reported while the stack operates a device is not acted upon.
IgnoreConnect ==
    /\ pc = "idle" /\ up /\ Told("CONNECT") /\ events' = Tail(events)
    /\ UNCHANGED <<line, connected, suspended, ep, main, history>>

\* pio_usb_ll_transfer_start: refused while the slot has a transfer.
pio_usb_host_endpoint_transfer(s) ==
    /\ pc = "idle" /\ up /\ Open(s) /\ ~ep[s].has_transfer
    /\ ep' = [ep EXCEPT ![s].has_transfer = TRUE, ![s].transfer_aborted = FALSE]
    /\ xfer' = [xfer EXCEPT ![s] = ep[s].owner] /\ ends' = [ends EXCEPT ![s] = 0]
    /\ UNCHANGED <<line, port, main, bounced>>

\* Its steps up to a change of shared state.  transfer_started is true only inside a frame,
\* so the loop that waits for it never does.
AbortCheck(s) ==
    /\ pc = "idle" /\ up /\ Open(s) /\ ep[s].has_transfer
    /\ slot' = s /\ pc' = "checked"
    /\ UNCHANGED <<line, port, ep, still_active, up, history>>

AbortMark ==
    /\ pc = "checked"
    /\ ep' = [ep EXCEPT ![slot].transfer_aborted = TRUE] /\ pc' = "marked"
    /\ UNCHANGED <<line, port, slot, still_active, up, history>>

AbortLook ==
    /\ pc = "marked"
    /\ still_active' = ep[slot].has_transfer /\ pc' = "looked"
    /\ UNCHANGED <<line, port, ep, slot, up, history>>

\* Fault: the mark stays.
AbortStaysMarked ==
    /\ pc = "looked"
    /\ ep' = [ep EXCEPT ![slot].has_transfer = IF still_active THEN FALSE ELSE @]
    /\ ends' = [ends EXCEPT ![slot] = IF still_active THEN Least(@ + 1, Twice) ELSE @]
    /\ pc' = "idle"
    /\ UNCHANGED <<line, port, slot, still_active, up, xfer, bounced>>

\* An abort that succeeds is an end of the transfer the caller is told of.
AbortEnd ==
    /\ pc = "looked"
    /\ ep' = [ep EXCEPT ![slot].transfer_aborted = FALSE,
                        ![slot].has_transfer = IF still_active THEN FALSE ELSE @]
    /\ ends' = [ends EXCEPT ![slot] = IF still_active THEN Least(@ + 1, Twice) ELSE @]
    /\ pc' = "idle"
    /\ UNCHANGED <<line, port, slot, still_active, up, xfer, bounced>>

Aborting == AbortMark \/ AbortLook \/ AbortEnd
pio_usb_host_endpoint_abort_transfer == Aborting \/ \E s \in Pool : AbortCheck(s)

-----------------------------------------------------------------------------
Main ==
    \/ pio_usb_host_port_reset_start \/ pio_usb_host_port_reset_end
    \/ pio_usb_host_close_device \/ IgnoreConnect \/ pio_usb_host_endpoint_abort_transfer
    \/ \E s \in Pool :
        \/ pio_usb_host_endpoint_close(s) \/ pio_usb_host_endpoint_transfer(s)
        \/ \E e \in Endpoints : pio_usb_host_endpoint_open(s, e)

Next == PlugIn \/ Unplug \/ Main \/ \E again \in BOOLEAN : pio_usb_host_frame(again)

\* The timer fires every millisecond, but nothing makes the contact bounce; the main loop
\* resets and closes when it is told to.
Spec ==
    /\ Init /\ [][Next]_vars
    /\ WF_vars(pio_usb_host_frame(FALSE))
    /\ WF_vars(pio_usb_host_port_reset_start) /\ WF_vars(pio_usb_host_port_reset_end)
    /\ SF_vars(pio_usb_host_close_device) /\ SF_vars(IgnoreConnect)
    /\ WF_vars(Aborting)

-----------------------------------------------------------------------------
(***************************************************************************)
(* Properties                                                              *)
(***************************************************************************)

\* Variables keep their types; only one slot has an endpoint, and only the slot of the
\* running abort is marked.  (_find_ep, transfer_aborted)
TypeOK ==
    /\ plugged \in BOOLEAN /\ forced \in BOOLEAN /\ settling \in BOOLEAN
    /\ connected \in BOOLEAN /\ suspended \in BOOLEAN
    /\ events \in Seq({"CONNECT", "DISCONNECT"})
    /\ ep \in [Pool -> [owner : Endpoints \cup {NoEndpoint}, has_transfer : BOOLEAN,
                        transfer_aborted : BOOLEAN]]
    /\ \A s, t \in Pool : Open(s) /\ ep[s].owner = ep[t].owner => s = t
    /\ \A s \in Pool : ep[s].transfer_aborted => pc \in {"marked", "looked"} /\ s = slot
    /\ pc \in {"idle", "force", "reset", "settle", "checked", "marked", "looked"}
    /\ slot \in Pool /\ still_active \in BOOLEAN /\ up \in BOOLEAN
    /\ xfer \in [Pool -> Endpoints \cup {NoEndpoint}] /\ ends \in [Pool -> 0..Twice] /\ bounced \in BOOLEAN

\* No device is taken for disconnected that is plugged in, in a bus reset above all.
\* (connection_check against pio_usb_host_port_reset_start and _end)
NoFalseDisconnect == [][connected /\ ~connected' => ~plugged]_vars

\* Once a device stays away, no transfer of it stays pending.
\* (connection_check retires, the stack closes the device once
\* it is told: __pio_usb_host_irq_handler, pio_usb_host_close_device)
UnplugRetires == <>[]~plugged => <>[](\A s \in Pool : ~(Open(s) /\ ep[s].has_transfer))

\* A device that stays is found, reset and operated, provided no contact bounced: then the
\* handler reports the connection first, and the port may stay suspended.
\* (the check for a new connection, the order of the ifs of __pio_usb_host_irq_handler)
DeviceNoticed == (<>[]plugged /\ []~bounced) => <>[](connected /\ ~suspended /\ up)

\* While the device stays connected a transfer ends once: it is reported by the handler or
\* taken back by the abort, not both.  (pio_usb_host_endpoint_abort_transfer, the frame)
EndsOnce == [][Operating => \A s \in Pool : ends'[s] > ends[s] => ends[s] = 0]_vars

\* What is pending on an open endpoint was started on that endpoint, also after the device
\* was exchanged; a transfer left behind by closing that endpoint alone is excepted.
\* (has_transfer of pio_usb_ll_configure_endpoint, pio_usb_host_close_device)
OwnTransfer ==
    \A s \in Pool : Open(s) /\ ep[s].has_transfer => xfer[s] \in {ep[s].owner, NoEndpoint}
=============================================================================
