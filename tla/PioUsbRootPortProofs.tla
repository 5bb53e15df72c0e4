------------------------ MODULE PioUsbRootPortProofs ------------------------
(***************************************************************************)
(* Proofs about PioUsbRootPort: what the order of the host stack's steps   *)
(* ensures against a frame that may run between any two of them, for a     *)
(* pool of any size and any number of endpoints.                           *)
(***************************************************************************)
EXTENDS PioUsbRootPort, TLAPS

Flags == /\ plugged \in BOOLEAN /\ forced \in BOOLEAN /\ settling \in BOOLEAN
         /\ connected \in BOOLEAN /\ suspended \in BOOLEAN /\ still_active \in BOOLEAN
         /\ up \in BOOLEAN /\ bounced \in BOOLEAN
SlotType == [owner : Endpoints \cup {NoEndpoint}, has_transfer : BOOLEAN, transfer_aborted : BOOLEAN]
PoolTypes == ep \in [Pool -> SlotType]
Calls == pc \in {"idle", "force", "reset", "settle", "checked", "marked", "looked"} /\ slot \in Pool
Counts == xfer \in [Pool -> Endpoints \cup {NoEndpoint}] /\ ends \in [Pool -> 0..Twice]
Events == events \in Seq({"CONNECT", "DISCONNECT"})

\* One slot at most has an endpoint, and only the running abort marks one.
OneOwner == \A s, t \in Pool : Open(s) /\ ep[s].owner = ep[t].owner => s = t
OneMark == \A s \in Pool : ep[s].transfer_aborted => pc \in {"marked", "looked"} /\ s = slot

\* While the line is not the device's to drive the port is suspended: a frame does not look at it.
LineInv ==
    /\ forced => pc = "reset"
    /\ settling => pc = "settle"
    /\ pc \in {"force", "reset", "settle"} => suspended

\* A pending transfer has not ended, and belongs to the slot's endpoint, or to none.
PendingInv ==
    \A s \in Pool : ep[s].has_transfer => ends[s] = 0 /\ xfer[s] \in {ep[s].owner, NoEndpoint}

\* The slot of the running abort is marked, so that only a disconnection, which suspends the
\* port, takes the transfer from it.
AbortInv ==
    /\ pc \in {"marked", "looked"} => ep[slot].transfer_aborted
    /\ pc = "looked" /\ still_active => ep[slot].has_transfer \/ suspended

IInv == TypeOK /\ LineInv /\ PendingInv /\ AbortInv

LEMMA TypeParts == TypeOK <=> Flags /\ PoolTypes /\ Calls /\ Counts /\ Events /\ OneOwner /\ OneMark
BY DEF TypeOK, Flags, PoolTypes, Calls, Counts, Events, OneOwner, OneMark, SlotType

LEMMA TypePartsNext ==
    TypeOK' <=> Flags' /\ PoolTypes' /\ Calls' /\ Counts' /\ Events' /\ OneOwner' /\ OneMark'
BY DEF TypeOK, Flags, PoolTypes, Calls, Counts, Events, OneOwner, OneMark, SlotType

LEMMA InvInit == Init => IInv
<1> SUFFICES ASSUME Init PROVE IInv OBVIOUS
<1> USE DEF Init
<1>1. Flags BY DEF Flags
<1>2. PoolTypes BY DEF PoolTypes, SlotType, Free
<1>3. Calls /\ Counts /\ Events BY DEF Calls, Counts, Events, Twice
<1>4. OneOwner /\ OneMark BY DEF OneOwner, OneMark, Open, Free
<1>5. LineInv /\ PendingInv /\ AbortInv BY DEF LineInv, PendingInv, AbortInv, Free
<1> QED BY <1>1, <1>2, <1>3, <1>4, <1>5, TypeParts DEF IInv

\* Steps that leave the pool and the running abort alone.
LEMMA PoolKept ==
    ASSUME IInv, UNCHANGED <<ep, xfer, ends, slot, still_active>>, pc' = pc \/ {pc, pc'} \cap {"marked", "looked"} = {},
           suspended => suspended' \/ pc' # "looked"
    PROVE  PoolTypes' /\ Counts' /\ OneOwner' /\ OneMark' /\ PendingInv' /\ AbortInv'
<1> USE DEF IInv
<1>1. PoolTypes /\ Counts /\ OneOwner /\ OneMark BY TypeParts
<1>2. PoolTypes' /\ Counts' BY <1>1 DEF PoolTypes, Counts
<1>3. OneOwner' /\ OneMark' BY <1>1 DEF OneOwner, OneMark, Open
<1>4. PendingInv' BY DEF PendingInv
<1>5. AbortInv' BY DEF AbortInv
<1> QED BY <1>2, <1>3, <1>4, <1>5

LEMMA InvDevice == ASSUME IInv, PlugIn \/ Unplug PROVE IInv'
<1> USE DEF IInv
<1>1. /\ UNCHANGED <<forced, settling, connected, suspended, events, ep, pc, slot, still_active, up, xfer, ends, bounced>>
      /\ plugged' \in BOOLEAN
  BY DEF PlugIn, Unplug, port, main, history
<1>2. PoolTypes' /\ Counts' /\ OneOwner' /\ OneMark' /\ PendingInv' /\ AbortInv' BY <1>1, PoolKept
<1>3. Flags' /\ Calls' /\ Events' BY <1>1, TypeParts DEF Flags, Calls, Events
<1>4. LineInv' BY <1>1 DEF LineInv
<1> QED BY <1>2, <1>3, <1>4, TypePartsNext

\* Taking an event off the queue keeps its type.
LEMMA TailType == ASSUME Events, events # <<>> PROVE Tail(events) \in Seq({"CONNECT", "DISCONNECT"})
BY DEF Events

LEMMA InvReset ==
    ASSUME IInv, pio_usb_host_port_reset_start \/ pio_usb_host_port_reset_end \/ IgnoreConnect
    PROVE  IInv'
<1> USE DEF IInv
<1>1. Flags /\ Calls /\ Events BY TypeParts
<1>2. /\ UNCHANGED <<plugged, connected, ep, slot, still_active, xfer, ends, bounced>>
      /\ \/ events' = events
         \/ events # <<>> /\ events' = Tail(events)
      /\ \/ pc = "idle" /\ suspended' = TRUE /\ UNCHANGED <<forced, settling, up>> /\ pc' = "force"
         \/ pc = "force" /\ forced' = TRUE /\ UNCHANGED <<suspended, settling, up>> /\ pc' = "reset"
         \/ /\ pc = "reset" /\ forced' = FALSE /\ settling' = TRUE /\ UNCHANGED <<suspended, up>>
            /\ pc' = "settle"
         \/ /\ pc = "settle" /\ settling' = FALSE /\ suspended' = FALSE /\ up' = TRUE /\ UNCHANGED forced
            /\ pc' = "idle"
         \/ pc = "idle" /\ UNCHANGED <<suspended, forced, settling, up, pc>>
  <2>1. CASE pio_usb_host_port_reset_start
    BY <2>1 DEF pio_usb_host_port_reset_start, ResetSteps, Told, history
  <2>2. CASE pio_usb_host_port_reset_end
    BY <2>2 DEF pio_usb_host_port_reset_end, ResetEndSteps, history
  <2>3. CASE IgnoreConnect
    BY <2>3 DEF IgnoreConnect, Told, line, main, history
  <2> QED BY <2>1, <2>2, <2>3
<1>3. PoolTypes' /\ Counts' /\ OneOwner' /\ OneMark' /\ PendingInv' /\ AbortInv'
  <2>1. pc' = pc \/ {pc, pc'} \cap {"marked", "looked"} = {} BY <1>2
  <2>2. suspended => suspended' \/ pc' # "looked" BY <1>2
  <2> QED BY <1>2, <2>1, <2>2, PoolKept
<1>4. Flags' /\ Calls' BY <1>1, <1>2 DEF Flags, Calls
<1>5. Events' BY <1>1, <1>2, TailType DEF Events
<1>6. LineInv' BY <1>2 DEF LineInv
<1> QED BY <1>3, <1>4, <1>5, <1>6, TypePartsNext


-----------------------------------------------------------------------------
(***************************************************************************)
(* The pool                                                                *)
(***************************************************************************)
LEMMA InvOpen ==
    ASSUME IInv, NEW s \in Pool, NEW e \in Endpoints, pio_usb_host_endpoint_open(s, e)
    PROVE  IInv'
<1> USE DEF IInv
<1>1. /\ pc = "idle" /\ ep[s].owner = NoEndpoint /\ (\A t \in Pool : ep[t].owner # e)
      /\ ep' = [ep EXCEPT ![s].owner = e]
      /\ UNCHANGED <<plugged, forced, settling, connected, suspended, events, pc, slot, still_active, up, xfer, ends, bounced>>
  BY DEF pio_usb_host_endpoint_open, line, port, main, history, Open
<1>2. Flags /\ PoolTypes /\ Calls /\ Counts /\ Events /\ OneOwner /\ OneMark BY TypeParts
<1>3. PoolTypes' BY <1>1, <1>2 DEF PoolTypes, SlotType
<1>4. /\ ep'[s].owner = e /\ ep'[s].has_transfer = ep[s].has_transfer
      /\ ep'[s].transfer_aborted = ep[s].transfer_aborted
      /\ \A t \in Pool \ {s} : ep'[t] = ep[t]
  BY <1>1, <1>2 DEF PoolTypes, SlotType
<1>5. OneOwner' BY <1>1, <1>2, <1>4 DEF OneOwner, Open
<1>6. OneMark' BY <1>1, <1>2, <1>4 DEF OneMark
<1>7. PendingInv'
  <2>1. ep[s].has_transfer => ends[s] = 0 /\ xfer[s] = NoEndpoint BY <1>1 DEF PendingInv
  <2> QED BY <1>1, <1>4, <2>1 DEF PendingInv
<1>8. LineInv' /\ AbortInv' BY <1>1 DEF LineInv, AbortInv
<1>9. Flags' /\ Calls' /\ Counts' /\ Events' BY <1>1, <1>2 DEF Flags, Calls, Counts, Events
<1> QED BY <1>3, <1>5, <1>6, <1>7, <1>8, <1>9, TypePartsNext

LEMMA InvClose ==
    ASSUME IInv, NEW s \in Pool, pio_usb_host_endpoint_close(s)
    PROVE  IInv'
<1> USE DEF IInv
<1>1. /\ pc = "idle"
      /\ ep' = [ep EXCEPT ![s].owner = NoEndpoint] /\ xfer' = [xfer EXCEPT ![s] = NoEndpoint]
      /\ UNCHANGED <<plugged, forced, settling, connected, suspended, events, pc, slot, still_active, up, ends, bounced>>
  BY DEF pio_usb_host_endpoint_close, line, port, main
<1>2. Flags /\ PoolTypes /\ Calls /\ Counts /\ Events /\ OneOwner /\ OneMark BY TypeParts
<1>3. PoolTypes' BY <1>1, <1>2 DEF PoolTypes, SlotType
<1>4. /\ ep'[s].owner = NoEndpoint /\ ep'[s].has_transfer = ep[s].has_transfer
      /\ ep'[s].transfer_aborted = ep[s].transfer_aborted
      /\ \A t \in Pool \ {s} : ep'[t] = ep[t]
  BY <1>1, <1>2 DEF PoolTypes, SlotType
<1>5. Counts' /\ xfer'[s] = NoEndpoint /\ \A t \in Pool \ {s} : xfer'[t] = xfer[t]
  BY <1>1, <1>2 DEF Counts
<1>6. OneOwner' BY <1>2, <1>4 DEF OneOwner, Open
<1>7. OneMark' BY <1>1, <1>2, <1>4 DEF OneMark
<1>8. PendingInv' BY <1>1, <1>4, <1>5 DEF PendingInv
<1>9. LineInv' /\ AbortInv' BY <1>1 DEF LineInv, AbortInv
<1>10. Flags' /\ Calls' /\ Events' BY <1>1, <1>2 DEF Flags, Calls, Events
<1> QED BY <1>3, <1>5, <1>6, <1>7, <1>8, <1>9, <1>10, TypePartsNext

LEMMA InvTransfer ==
    ASSUME IInv, NEW s \in Pool, pio_usb_host_endpoint_transfer(s)
    PROVE  IInv'
<1> USE DEF IInv
<1>1. /\ pc = "idle"
      /\ ep' = [ep EXCEPT ![s].has_transfer = TRUE, ![s].transfer_aborted = FALSE]
      /\ xfer' = [xfer EXCEPT ![s] = ep[s].owner] /\ ends' = [ends EXCEPT ![s] = 0]
      /\ UNCHANGED <<plugged, forced, settling, connected, suspended, events, pc, slot, still_active, up, bounced>>
  BY DEF pio_usb_host_endpoint_transfer, line, port, main
<1>2. Flags /\ PoolTypes /\ Calls /\ Counts /\ Events /\ OneOwner /\ OneMark BY TypeParts
<1>3. PoolTypes' BY <1>1, <1>2 DEF PoolTypes, SlotType
<1>4. /\ ep'[s].owner = ep[s].owner /\ ep[s].owner \in Endpoints \cup {NoEndpoint}
      /\ ep'[s].has_transfer = TRUE /\ ep'[s].transfer_aborted = FALSE
      /\ \A t \in Pool \ {s} : ep'[t] = ep[t]
  BY <1>1, <1>2 DEF PoolTypes, SlotType
<1>5. /\ Counts' /\ xfer'[s] = ep[s].owner /\ ends'[s] = 0
      /\ \A t \in Pool \ {s} : xfer'[t] = xfer[t] /\ ends'[t] = ends[t]
  BY <1>1, <1>2, <1>4 DEF Counts, Twice
<1>6. OneOwner' BY <1>2, <1>4 DEF OneOwner, Open
<1>7. OneMark' BY <1>1, <1>2, <1>4 DEF OneMark
<1>8. PendingInv' BY <1>4, <1>5 DEF PendingInv
<1>9. LineInv' /\ AbortInv' BY <1>1 DEF LineInv, AbortInv
<1>10. Flags' /\ Calls' /\ Events' BY <1>1, <1>2 DEF Flags, Calls, Events
<1> QED BY <1>3, <1>5, <1>6, <1>7, <1>8, <1>9, <1>10, TypePartsNext

LEMMA InvCloseDevice == ASSUME IInv, pio_usb_host_close_device PROVE IInv'
<1> USE DEF IInv
<1>1. /\ pc = "idle" /\ events # <<>> /\ events' = Tail(events) /\ ep' = ClosedDevice /\ up' = FALSE
      /\ UNCHANGED <<plugged, forced, settling, connected, suspended, pc, slot, still_active, xfer, ends, bounced>>
  BY DEF pio_usb_host_close_device, line, Told, history
<1>2. Flags /\ PoolTypes /\ Calls /\ Counts /\ Events /\ OneOwner /\ OneMark BY TypeParts
<1>3. PoolTypes' BY <1>1, <1>2 DEF PoolTypes, SlotType, ClosedDevice
<1>4. \A s \in Pool : /\ ep'[s].owner = NoEndpoint
                      /\ ep'[s].transfer_aborted = ep[s].transfer_aborted
                      /\ ep'[s].has_transfer => ep[s].has_transfer /\ ep[s].owner = NoEndpoint
  BY <1>1, <1>2 DEF PoolTypes, SlotType, ClosedDevice, Open
<1>5. OneOwner' BY <1>4 DEF OneOwner, Open
<1>6. OneMark' BY <1>1, <1>2, <1>4 DEF OneMark
<1>7. PendingInv' BY <1>1, <1>4 DEF PendingInv
<1>8. LineInv' /\ AbortInv' BY <1>1 DEF LineInv, AbortInv
<1>9. Flags' /\ Calls' /\ Counts' BY <1>1, <1>2 DEF Flags, Calls, Counts
<1>10. Events' BY <1>1, <1>2, TailType DEF Events
<1> QED BY <1>3, <1>5, <1>6, <1>7, <1>8, <1>9, <1>10, TypePartsNext


-----------------------------------------------------------------------------
(***************************************************************************)
(* The abort of a transfer, step by step                                   *)
(***************************************************************************)
LEMMA InvAbortLocal ==
    ASSUME IInv, AbortLook \/ \E s \in Pool : AbortCheck(s)
    PROVE  IInv'
<1> USE DEF IInv
<1>1. /\ UNCHANGED <<plugged, forced, settling, connected, suspended, events, ep, up, xfer, ends, bounced>>
      /\ \/ pc = "marked" /\ pc' = "looked" /\ slot' = slot /\ still_active' = ep[slot].has_transfer
         \/ pc = "idle" /\ pc' = "checked" /\ slot' \in Pool /\ still_active' = still_active
  BY DEF AbortLook, AbortCheck, line, port, history
<1>2. Flags /\ PoolTypes /\ Calls /\ Counts /\ Events /\ OneOwner /\ OneMark BY TypeParts
<1>3. ep[slot].has_transfer \in BOOLEAN BY <1>2 DEF PoolTypes, SlotType, Calls
<1>4. Flags' /\ Calls' BY <1>1, <1>2, <1>3 DEF Flags, Calls
<1>5. PoolTypes' /\ Counts' /\ Events' BY <1>1, <1>2 DEF PoolTypes, Counts, Events
<1>6. OneOwner' /\ OneMark' BY <1>1, <1>2 DEF OneOwner, Open, OneMark
<1>7. PendingInv' /\ LineInv' /\ AbortInv' BY <1>1 DEF PendingInv, LineInv, AbortInv
<1> QED BY <1>4, <1>5, <1>6, <1>7, TypePartsNext

LEMMA InvAbortMark == ASSUME IInv, AbortMark PROVE IInv'
<1> USE DEF IInv
<1>1. /\ pc = "checked" /\ pc' = "marked" /\ ep' = [ep EXCEPT ![slot].transfer_aborted = TRUE]
      /\ UNCHANGED <<plugged, forced, settling, connected, suspended, events, slot, still_active, up, xfer, ends, bounced>>
  BY DEF AbortMark, line, port, history
<1>2. Flags /\ PoolTypes /\ Calls /\ Counts /\ Events /\ OneOwner /\ OneMark BY TypeParts
<1>3. slot \in Pool BY <1>2 DEF Calls
<1>4. PoolTypes' BY <1>1, <1>2 DEF PoolTypes, SlotType
<1>5. /\ ep'[slot].owner = ep[slot].owner /\ ep'[slot].has_transfer = ep[slot].has_transfer
      /\ ep'[slot].transfer_aborted = TRUE
      /\ \A t \in Pool \ {slot} : ep'[t] = ep[t]
  BY <1>1, <1>2, <1>3 DEF PoolTypes, SlotType
<1>6. OneOwner' BY <1>2, <1>5 DEF OneOwner, Open
<1>7. OneMark' BY <1>1, <1>2, <1>5 DEF OneMark
<1>8. PendingInv' BY <1>1, <1>5 DEF PendingInv
<1>9. LineInv' BY <1>1 DEF LineInv
<1>10. AbortInv' BY <1>1, <1>5 DEF AbortInv
<1>11. Flags' /\ Calls' /\ Counts' /\ Events' BY <1>1, <1>2 DEF Flags, Calls, Counts, Events
<1> QED BY <1>4, <1>6, <1>7, <1>8, <1>9, <1>10, <1>11, TypePartsNext

LEMMA CountType == ASSUME NEW n \in 0..Twice PROVE Least(n + 1, Twice) \in 0..Twice
BY DEF Twice, Least

LEMMA InvAbortEnd == ASSUME IInv, AbortEnd PROVE IInv'
<1> USE DEF IInv
<1>1. Flags /\ PoolTypes /\ Calls /\ Counts /\ Events /\ OneOwner /\ OneMark BY TypeParts
<1>2. slot \in Pool BY <1>1 DEF Calls
<1>3. /\ pc = "looked" /\ pc' = "idle"
      /\ UNCHANGED <<plugged, forced, settling, connected, suspended, events, slot, still_active, up, xfer, bounced>>
      /\ ep' = [ep EXCEPT ![slot].transfer_aborted = FALSE,
                          ![slot].has_transfer = IF still_active THEN FALSE ELSE @]
      /\ ends' = [ends EXCEPT ![slot] = IF still_active THEN Least(@ + 1, Twice) ELSE @]
  BY DEF AbortEnd, line, port
<1>4. PoolTypes' /\ Counts'
  <2>1. Least(ends[slot] + 1, Twice) \in 0..Twice BY <1>1, <1>2, CountType DEF Counts
  <2> QED BY <1>1, <1>2, <1>3, <2>1 DEF PoolTypes, SlotType, Counts
<1>5. /\ ep'[slot].owner = ep[slot].owner /\ ep'[slot].transfer_aborted = FALSE
      /\ ep'[slot].has_transfer = (IF still_active THEN FALSE ELSE ep[slot].has_transfer)
      /\ ~still_active => ends'[slot] = ends[slot]
      /\ \A t \in Pool \ {slot} : ep'[t] = ep[t] /\ ends'[t] = ends[t]
  BY <1>1, <1>2, <1>3 DEF PoolTypes, SlotType, Counts
<1>6. OneOwner' BY <1>1, <1>5 DEF OneOwner, Open
<1>7. OneMark' BY <1>1, <1>3, <1>5 DEF OneMark
<1>8. PendingInv' BY <1>3, <1>5 DEF PendingInv
<1>9. LineInv' /\ AbortInv' BY <1>3 DEF LineInv, AbortInv
<1>10. Flags' /\ Calls' /\ Events' BY <1>1, <1>3 DEF Flags, Calls, Events
<1> QED BY <1>4, <1>6, <1>7, <1>8, <1>9, <1>10, TypePartsNext

-----------------------------------------------------------------------------
(***************************************************************************)
(* The frame                                                               *)
(***************************************************************************)

\* Between two steps of the main loop a frame ends transfers, each of them once, and none
\* that is marked unless it suspends the port.
FrameOnPool(disconnect) ==
    \A s \in Pool :
        /\ ep'[s].owner = ep[s].owner /\ ep'[s].transfer_aborted = ep[s].transfer_aborted
        /\ \/ ep'[s] = ep[s] /\ ends'[s] = ends[s]
           \/ /\ ep[s].has_transfer /\ ep'[s].has_transfer = FALSE
              /\ ~ep[s].transfer_aborted \/ disconnect

LEMMA FrameEnds ==
    ASSUME PoolTypes, Counts, NEW disconnect \in BOOLEAN,
           IF disconnect THEN RetireAll ELSE IF Operating THEN Transactions ELSE UNCHANGED <<ep, ends>>
    PROVE  PoolTypes' /\ ends' \in [Pool -> 0..Twice] /\ FrameOnPool(disconnect)
<1>0. \A s \in Pool : Least(ends[s] + 1, Twice) \in 0..Twice BY CountType DEF Counts
<1>1. CASE disconnect
  <2>1. RetireAll BY <1>1
  <2>2. \A s \in Pool : ep'[s] = IF Open(s) THEN [ep[s] EXCEPT !.has_transfer = FALSE] ELSE ep[s]
    BY <2>1 DEF RetireAll
  <2>3. PoolTypes' BY <2>1 DEF RetireAll, PoolTypes, SlotType
  <2>4. ends' \in [Pool -> 0..Twice] BY <1>0, <2>1 DEF RetireAll, Counts
  <2>5. \A s \in Pool : ends'[s] = IF Open(s) /\ ep[s].has_transfer THEN Least(ends[s] + 1, Twice) ELSE ends[s]
    BY <2>1 DEF RetireAll
  <2>6. ASSUME NEW s \in Pool, ~(Open(s) /\ ep[s].has_transfer) PROVE ep'[s] = ep[s]
    BY <2>2, <2>6 DEF PoolTypes, SlotType
  <2>7. ASSUME NEW s \in Pool, Open(s)
        PROVE  /\ ep'[s].has_transfer = FALSE /\ ep'[s].owner = ep[s].owner
               /\ ep'[s].transfer_aborted = ep[s].transfer_aborted
    BY <2>2, <2>7 DEF PoolTypes, SlotType
  <2> QED BY <1>1, <2>3, <2>4, <2>5, <2>6, <2>7 DEF FrameOnPool
<1>2. CASE ~disconnect /\ Operating
  <2>1. PICK over \in SUBSET CarriedOut :
          /\ ep' = [s \in Pool |-> IF s \in over THEN [ep[s] EXCEPT !.has_transfer = FALSE] ELSE ep[s]]
          /\ ends' = [s \in Pool |-> IF s \in over THEN Least(ends[s] + 1, Twice) ELSE ends[s]]
    BY <1>2 DEF Transactions
  <2>2. PoolTypes' BY <2>1 DEF PoolTypes, SlotType
  <2>3. ends' \in [Pool -> 0..Twice] BY <1>0, <2>1 DEF Counts
  <2>4. ASSUME NEW s \in over
        PROVE  /\ s \in Pool /\ ep[s].has_transfer /\ ~ep[s].transfer_aborted
               /\ ep'[s].has_transfer = FALSE /\ ep'[s].owner = ep[s].owner
               /\ ep'[s].transfer_aborted = ep[s].transfer_aborted
    BY <2>1, <2>4 DEF CarriedOut, PoolTypes, SlotType
  <2>5. ASSUME NEW s \in Pool \ over PROVE ep'[s] = ep[s] /\ ends'[s] = ends[s]
    BY <2>1
  <2> QED BY <2>2, <2>3, <2>4, <2>5 DEF FrameOnPool
<1>3. CASE ~disconnect /\ ~Operating
  BY <1>3 DEF FrameOnPool, PoolTypes, Counts
<1> QED BY <1>1, <1>2, <1>3

\* A frame in full: the conditions of pio_usb_host_frame, named.
LEMMA FrameStep ==
    ASSUME NEW again \in BOOLEAN, pio_usb_host_frame(again)
    PROVE  \E disconnect, connect \in BOOLEAN :
             /\ disconnect => Operating /\ "SE0" \in Samples(plugged)
             /\ IF disconnect THEN RetireAll ELSE IF Operating THEN Transactions ELSE UNCHANGED <<ep, ends>>
             /\ plugged' = (plugged \/ again) /\ bounced' = (bounced \/ (again /\ Operating))
             /\ connected' = (connect \/ (connected /\ ~disconnect))
             /\ suspended' = (connect \/ disconnect \/ suspended)
             /\ events' = events \o Reported(connect, disconnect)
             /\ UNCHANGED <<forced, settling, pc, slot, still_active, up, xfer>>
<1>1. PICK sample \in Samples(plugged), last \in Samples(plugged \/ again) :
        LET disconnect == Operating /\ sample = "SE0"
            connect == (disconnect \/ ~connected) /\ last = "IDLE"
        IN /\ IF disconnect THEN RetireAll
              ELSE IF Operating THEN Transactions ELSE UNCHANGED <<ep, ends>>
           /\ plugged' = (plugged \/ again)
           /\ connected' = (connect \/ (connected /\ ~disconnect))
           /\ suspended' = (connect \/ disconnect \/ suspended)
           /\ events' = events \o Reported(connect, disconnect)
           /\ UNCHANGED <<forced, settling, main, xfer>>
  BY DEF pio_usb_host_frame
<1> DEFINE disconnect == Operating /\ sample = "SE0"
           connect == (disconnect \/ ~connected) /\ last = "IDLE"
<1>2. disconnect \in BOOLEAN /\ connect \in BOOLEAN OBVIOUS
<1>3. disconnect => Operating /\ "SE0" \in Samples(plugged) BY <1>1
<1>4. bounced' = (bounced \/ (again /\ Operating)) BY DEF pio_usb_host_frame
<1>5. /\ IF disconnect THEN RetireAll ELSE IF Operating THEN Transactions ELSE UNCHANGED <<ep, ends>>
      /\ plugged' = (plugged \/ again)
      /\ connected' = (connect \/ (connected /\ ~disconnect))
      /\ suspended' = (connect \/ disconnect \/ suspended)
      /\ events' = events \o Reported(connect, disconnect)
      /\ UNCHANGED <<forced, settling, pc, slot, still_active, up, xfer>>
  BY <1>1 DEF main
<1> HIDE DEF disconnect, connect
<1> QED BY <1>2, <1>3, <1>4, <1>5


LEMMA ReportedType ==
    ASSUME NEW connect \in BOOLEAN, NEW disconnect \in BOOLEAN
    PROVE  Reported(connect, disconnect) \in Seq({"CONNECT", "DISCONNECT"})
<1>1. <<>> \in Seq({"CONNECT", "DISCONNECT"}) /\ <<"CONNECT">> \in Seq({"CONNECT", "DISCONNECT"})
      /\ <<"DISCONNECT">> \in Seq({"CONNECT", "DISCONNECT"})
  OBVIOUS
<1> DEFINE first == IF connect THEN <<"CONNECT">> ELSE <<>>
           second == IF disconnect THEN <<"DISCONNECT">> ELSE <<>>
<1>2. first \in Seq({"CONNECT", "DISCONNECT"}) /\ second \in Seq({"CONNECT", "DISCONNECT"})
  BY <1>1
<1>3. Reported(connect, disconnect) = first \o second BY DEF Reported
<1> HIDE DEF first, second
<1> QED BY <1>2, <1>3

LEMMA InvFrame == ASSUME IInv, NEW again \in BOOLEAN, pio_usb_host_frame(again) PROVE IInv'
<1> USE DEF IInv
<1>1. Flags /\ PoolTypes /\ Calls /\ Counts /\ Events /\ OneOwner /\ OneMark BY TypeParts
<1>2. PICK disconnect \in BOOLEAN, connect \in BOOLEAN :
        /\ disconnect => Operating /\ "SE0" \in Samples(plugged)
        /\ IF disconnect THEN RetireAll ELSE IF Operating THEN Transactions ELSE UNCHANGED <<ep, ends>>
        /\ plugged' = (plugged \/ again) /\ bounced' = (bounced \/ (again /\ Operating))
        /\ connected' = (connect \/ (connected /\ ~disconnect))
        /\ suspended' = (connect \/ disconnect \/ suspended)
        /\ events' = events \o Reported(connect, disconnect)
        /\ UNCHANGED <<forced, settling, pc, slot, still_active, up, xfer>>
  BY FrameStep
<1>3. PoolTypes' /\ ends' \in [Pool -> 0..Twice] /\ FrameOnPool(disconnect)
  BY <1>1, <1>2, FrameEnds
<1>4. Flags' BY <1>1, <1>2 DEF Flags
<1>5. Calls' /\ Counts' BY <1>1, <1>2, <1>3 DEF Calls, Counts
<1>6. Events'
  <2>1. Reported(connect, disconnect) \in Seq({"CONNECT", "DISCONNECT"}) BY ReportedType
  <2> QED BY <1>1, <1>2, <2>1 DEF Events
<1>7. OneOwner' BY <1>1, <1>3 DEF OneOwner, Open, FrameOnPool
<1>8. OneMark' BY <1>1, <1>2, <1>3 DEF OneMark, FrameOnPool
<1>9. LineInv' BY <1>2 DEF LineInv
<1>10. PendingInv'
  <2> SUFFICES ASSUME NEW s \in Pool, ep'[s].has_transfer
               PROVE  ends'[s] = 0 /\ xfer'[s] \in {ep'[s].owner, NoEndpoint}
    BY DEF PendingInv
  <2>1. ep'[s] = ep[s] /\ ends'[s] = ends[s] BY <1>3 DEF FrameOnPool
  <2> QED BY <1>2, <2>1 DEF PendingInv
<1>11. AbortInv'
  <2>1. slot \in Pool BY <1>1 DEF Calls
  <2>2. ep'[slot].transfer_aborted = ep[slot].transfer_aborted BY <1>3, <2>1 DEF FrameOnPool
  <2>3. ASSUME pc = "looked", still_active PROVE ep'[slot].has_transfer \/ suspended'
    <3>1. ep[slot].transfer_aborted /\ (ep[slot].has_transfer \/ suspended) BY <2>3 DEF AbortInv
    <3>2. disconnect \/ ep'[slot] = ep[slot] BY <1>3, <2>1, <3>1 DEF FrameOnPool
    <3> QED BY <1>2, <3>1, <3>2
  <2> QED BY <1>2, <2>2, <2>3 DEF AbortInv
<1> QED BY <1>3, <1>4, <1>5, <1>6, <1>7, <1>8, <1>9, <1>10, <1>11, TypePartsNext

-----------------------------------------------------------------------------
LEMMA InvNext == IInv /\ [Next]_vars => IInv'
<1> SUFFICES ASSUME IInv, [Next]_vars PROVE IInv'
  OBVIOUS
<1>1. CASE PlugIn \/ Unplug BY <1>1, InvDevice
<1>2. CASE \E again \in BOOLEAN : pio_usb_host_frame(again) BY <1>2, InvFrame
<1>3. CASE Main
  <2>1. CASE pio_usb_host_endpoint_abort_transfer
    BY <2>1, InvAbortLocal, InvAbortMark, InvAbortEnd DEF pio_usb_host_endpoint_abort_transfer, Aborting
  <2> QED BY <1>3, <2>1, InvReset, InvCloseDevice, InvOpen, InvClose, InvTransfer DEF Main
<1>4. CASE UNCHANGED vars
  <2>1. UNCHANGED <<plugged, forced, settling, connected, suspended, events, ep, pc, slot, still_active, up,
                    xfer, ends, bounced>>
    BY <1>4 DEF vars, line, port, main, history
  <2>2. TypeOK' BY <2>1 DEF IInv, TypeOK, Open
  <2>3. LineInv' /\ PendingInv' /\ AbortInv' BY <2>1 DEF IInv, LineInv, PendingInv, AbortInv
  <2> QED BY <2>2, <2>3 DEF IInv
<1> QED BY <1>1, <1>2, <1>3, <1>4 DEF Next

LEMMA Invariant == Spec => []IInv
BY InvInit, InvNext, PTL DEF Spec

\* Variables keep their types; an endpoint is found in one slot only, and only the slot of the
\* running abort is marked.  (_find_ep, transfer_aborted)
THEOREM PortTypeCorrect == Spec => []TypeOK
<1>1. IInv => TypeOK BY DEF IInv
<1> QED BY <1>1, Invariant, PTL

\* No endpoint inherits the transfer of another: what is pending on it was started on it, also
\* after the device was exchanged; a transfer left by closing one endpoint alone is excepted.
\* (pio_usb_host_close_device, pio_usb_ll_configure_endpoint)
THEOREM TransfersOwned == Spec => []OwnTransfer
<1>1. IInv => OwnTransfer BY DEF IInv, PendingInv, OwnTransfer
<1> QED BY <1>1, Invariant, PTL

\* Only frames and aborts end transfers; the others leave the counts or start anew.
LEMMA StepEnds ==
    ASSUME IInv, Next, ~(\E again \in BOOLEAN : pio_usb_host_frame(again)), ~AbortEnd,
           NEW s \in Pool, ends'[s] > ends[s]
    PROVE  FALSE
<1>1. ends \in [Pool -> Nat] BY DEF IInv, TypeOK, Twice
<1>2. ends' = ends \/ \E t \in Pool : ends' = [ends EXCEPT ![t] = 0]
  BY DEF Next, PlugIn, Unplug, Main, pio_usb_host_port_reset_start, pio_usb_host_port_reset_end,
         pio_usb_host_close_device, IgnoreConnect, pio_usb_host_endpoint_abort_transfer, Aborting,
         AbortMark, AbortLook, AbortCheck, pio_usb_host_endpoint_close, pio_usb_host_endpoint_transfer,
         pio_usb_host_endpoint_open, history
<1>3. ends'[s] = ends[s] \/ ends'[s] = 0 BY <1>1, <1>2
<1> QED BY <1>1, <1>3

\* While the device stays connected, the end of a transfer is reported once: by the handler of
\* the frame or by the abort, whatever the frame does between the abort's steps.
\* (pio_usb_host_endpoint_abort_transfer, pio_usb_host_frame)
THEOREM EndReportedOnce == Spec => EndsOnce
<1>1. ASSUME IInv, [Next]_vars
      PROVE  [Operating => \A s \in Pool : ends'[s] > ends[s] => ends[s] = 0]_vars
  <2> SUFFICES ASSUME Next, Operating, NEW s \in Pool, ends'[s] > ends[s] PROVE ends[s] = 0
    BY <1>1
  <2>1. ends \in [Pool -> Nat] /\ PoolTypes /\ Counts BY <1>1, TypeParts DEF IInv, TypeOK, Twice
  <2>2. CASE \E again \in BOOLEAN : pio_usb_host_frame(again)
    <3>1. PICK disconnect \in BOOLEAN :
            IF disconnect THEN RetireAll ELSE IF Operating THEN Transactions ELSE UNCHANGED <<ep, ends>>
      BY <2>2, FrameStep
    <3>2. (ep'[s] = ep[s] /\ ends'[s] = ends[s]) \/ ep[s].has_transfer
      BY <2>1, <3>1, FrameEnds DEF FrameOnPool
    <3>3. ep[s].has_transfer BY <2>1, <3>2
    <3> QED BY <1>1, <3>3 DEF IInv, PendingInv
  <2>3. CASE AbortEnd
    <3>1. s = slot /\ still_active BY <2>1, <2>3 DEF AbortEnd
    <3>2. ep[s].has_transfer BY <1>1, <2>3, <3>1 DEF IInv, AbortInv, AbortEnd, Operating
    <3> QED BY <1>1, <3>2 DEF IInv, PendingInv
  <2> QED BY <1>1, <2>2, <2>3, StepEnds
<1>2. IInv /\ [Next]_vars => [Operating => \A s \in Pool : ends'[s] > ends[s] => ends[s] = 0]_vars
  BY <1>1
<1> QED BY <1>2, Invariant, PTL DEF Spec, EndsOnce

\* A device that is plugged in is not taken for disconnected, in a bus reset above all: the port
\* is suspended before the host drives the line, and until the line is back.
\* (pio_usb_host_port_reset_start, pio_usb_host_port_reset_end)
THEOREM ResetIsNoDisconnect == Spec => NoFalseDisconnect
<1>1. ASSUME IInv, [Next]_vars PROVE [connected /\ ~connected' => ~plugged]_vars
  <2> SUFFICES ASSUME Next, connected, ~connected' PROVE ~plugged
    BY <1>1
  <2>1. \E again \in BOOLEAN : pio_usb_host_frame(again)
    BY DEF Next, PlugIn, Unplug, Main, pio_usb_host_port_reset_start, pio_usb_host_port_reset_end,
           pio_usb_host_close_device, IgnoreConnect, pio_usb_host_endpoint_abort_transfer, Aborting,
           AbortMark, AbortLook, AbortEnd, AbortCheck, pio_usb_host_endpoint_close,
           pio_usb_host_endpoint_transfer, pio_usb_host_endpoint_open, port
  <2>2. Operating /\ "SE0" \in Samples(plugged)
    BY <2>1, FrameStep
  <2>3. ~forced /\ ~settling BY <1>1, <2>2 DEF IInv, LineInv, Operating
  <2> QED BY <2>2, <2>3 DEF Samples
<1>2. IInv /\ [Next]_vars => [connected /\ ~connected' => ~plugged]_vars
  BY <1>1
<1> QED BY <1>2, Invariant, PTL DEF Spec, NoFalseDisconnect
=============================================================================
