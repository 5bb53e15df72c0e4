---------------------------- MODULE BleHidPeriph ----------------------------
(***************************************************************************)
(* The BLE side of the bridge, src/src/ble_hid_periph.c, as two cores run  *)
(* it.  Core 0 (the USB host) calls ble_hid_periph_start once and          *)
(* ble_hid_periph_send_raw_report for every input report.  Core 1 runs the *)
(* BTstack run loop: callbacks registered by Core 0, then HCI, Security    *)
(* Manager and ATT events, one handler at a time.                          *)
(*                                                                         *)
(* The cores share con_handle, link_encrypted, send_request_pending, the   *)
(* run loop's callback list and report_queue.  Every access to one of them *)
(* is a step of its own, so the two cores interleave at each access; what  *)
(* a handler does between two accesses is folded into the next step.       *)
(* BTstack and the controller are external and modelled from the calls     *)
(* this file makes and the events it handles.                              *)
(***************************************************************************)
EXTENDS Naturals, Sequences, FiniteSets

CONSTANTS
    QueueSize,        \* REPORT_QUEUE_SIZE
    AclBuffers,       \* controller buffers BTstack may fill (MAX_NR_CONTROLLER_ACL_BUFFERS)
    Handles,          \* connection handles the controller hands out
    Invalid,          \* HCI_CON_HANDLE_INVALID
    Peers,            \* BLE hosts, by address
    NoPeer,           \* no host: the zeroed address
    ReportIds,        \* first bytes of the reports USB delivers
    InputIds,         \* report ids with an Input entry in ble_reports
    UseReportIds,     \* use_report_ids
    EmitDuringRequest,\* whether BTstack may emit CAN_SEND_NOW inside the request call
    MaxReports,       \* bound: reports USB delivers
    MaxConnections    \* bound: connections established

ASSUME QueueAssumption == /\ QueueSize \in Nat \ {0}
                          /\ AclBuffers \in Nat \ {0}
                          /\ MaxReports \in Nat
                          /\ MaxConnections \in Nat
ASSUME NameAssumption == /\ Invalid \notin Handles
                         /\ NoPeer \notin Peers
ASSUME MappingAssumption == /\ UseReportIds \in BOOLEAN
                            /\ EmitDuringRequest \in BOOLEAN

VARIABLES
    \* Core 0
    pc0,                  \* where Core 0 is inside ble_hid_periph_send_raw_report
    item0,                \* the report it holds
    received,             \* number of reports USB has delivered
    \* shared by the cores
    ble_initialized,
    con_handle,
    link_encrypted,
    report_queue,
    send_request_pending,
    run_loop,             \* callbacks registered with the BTstack run loop
    \* Core 1
    pc1,                  \* where Core 1 is; "Idle" between two handlers
    item1,                \* the report typing_can_send_now has peeked
    caller,               \* where typing_can_send_now returns to
    current_peer_addr,
    \* BTstack and the controller
    hci_state,
    advertising,
    link,                 \* the connected host, or NoPeer
    closing,              \* gap_disconnect was called on the link
    sm_state, sm_peer,    \* the Security Manager's pairing: how far it is, and with whom
    can_send_requested,   \* a CAN_SEND_NOW event is owed
    acl_free,             \* controller buffers that are free
    bonds,                \* hosts with keys in the LE device database
    \* history
    connections,          \* connections established so far
    encrypted_conn,       \* the last of them that was encrypted
    last_sent,            \* number of the last report notified
    evicted_under_send    \* Core 0 evicted while Core 1 was between peek and remove

core0 == <<pc0, item0, received>>
core1 == <<pc1, item1, caller>>
shared == <<con_handle, link_encrypted>>
stack == <<hci_state, advertising, link, closing, sm_state, sm_peer, bonds, current_peer_addr>>
channel == <<can_send_requested, acl_free>>
history == <<connections, encrypted_conn, last_sent, evicted_under_send>>
vars == <<core0, core1, shared, stack, channel, history,
          ble_initialized, report_queue, send_request_pending, run_loop>>

\* hid_report_t: the report's bytes are its number and its report id.  "conn" is
\* the connection whose handle Core 0 read when it accepted the report.
Item == [seq : 1..MaxReports, id : ReportIds, conn : 0..MaxConnections]
NoItem == [seq |-> 0, id |-> 0, conn |-> 0]

Callback == {"setup", "send_request"}

Pc0 == {"Idle", "CheckEncrypted", "Enqueue", "Evict", "EnqueueAgain", "Exchange", "Register"}
Pc1 == {"Idle", "RequestCanSend", "ClearPending", "Peek", "Notify", "Remove",
        "DiscEncrypted", "DiscFlush", "Advertise",
        "ConnFlush", "ConnHandle", "ConnEncrypted"}

Init ==
    /\ pc0 = "Idle" /\ item0 = NoItem /\ received = 0
    /\ ble_initialized = FALSE
    /\ con_handle = Invalid /\ link_encrypted = FALSE
    /\ report_queue = <<>> /\ send_request_pending = FALSE /\ run_loop = <<>>
    /\ pc1 = "Idle" /\ item1 = NoItem /\ caller = "Idle"
    /\ current_peer_addr = NoPeer
    /\ hci_state = "Off" /\ advertising = FALSE /\ link = NoPeer /\ closing = FALSE
    /\ sm_state = "None" /\ sm_peer = NoPeer /\ can_send_requested = FALSE /\ acl_free = AclBuffers
    /\ bonds \in SUBSET Peers
    /\ connections = 0 /\ encrypted_conn = 0 /\ last_sent = 0
    /\ evicted_under_send = FALSE

-----------------------------------------------------------------------------
(***************************************************************************)
(* queue_t: each call takes the queue's spin lock, so each is one step.    *)
(***************************************************************************)
\* Fault: the length of the queue is not looked at.
NeverFull == FALSE
Full == Len(report_queue) = QueueSize
queue_try_add(item) == report_queue' = IF Full THEN report_queue ELSE Append(report_queue, item)
queue_try_remove == report_queue' = IF report_queue = <<>> THEN <<>> ELSE Tail(report_queue)

(***************************************************************************)
(* Core 0                                                                  *)
(***************************************************************************)

\* The queue is initialised and the set-up of the stack is left to Core 1.
ble_hid_periph_start ==
    /\ ~ble_initialized
    /\ ble_initialized' = TRUE
    /\ report_queue' = <<>>
    /\ run_loop' = Append(run_loop, "setup")
    /\ UNCHANGED <<core0, core1, shared, stack, channel, history, send_request_pending>>

\* A report arrives and con_handle is read: without a connection it is dropped.
SendCheckHandle ==
    /\ pc0 = "Idle" /\ ble_initialized /\ received < MaxReports
    /\ received' = received + 1
    /\ \E id \in ReportIds :
         item0' = IF con_handle = Invalid THEN NoItem
                  ELSE [seq |-> received + 1, id |-> id, conn |-> connections]
    /\ pc0' = IF con_handle = Invalid THEN "Idle" ELSE "CheckEncrypted"
    /\ UNCHANGED <<core1, shared, stack, channel, history,
                   ble_initialized, report_queue, send_request_pending, run_loop>>

SendCheckEncrypted ==
    /\ pc0 = "CheckEncrypted"
    /\ pc0' = IF link_encrypted THEN "Enqueue" ELSE "Idle"
    /\ UNCHANGED <<item0, received, core1, shared, stack, channel, history,
                   ble_initialized, report_queue, send_request_pending, run_loop>>

SendEnqueue ==
    /\ pc0 = "Enqueue"
    /\ queue_try_add(item0)
    /\ pc0' = IF Full THEN "Evict" ELSE "Exchange"
    /\ UNCHANGED <<item0, received, core1, shared, stack, channel, history,
                   ble_initialized, send_request_pending, run_loop>>

\* Fault: nothing is removed from the full queue.
EvictNothing ==
    /\ pc0 = "Evict"
    /\ evicted_under_send' = (evicted_under_send \/ pc1 \in {"Notify", "Remove"})
    /\ pc0' = "EnqueueAgain"
    /\ UNCHANGED <<item0, received, core1, shared, stack, channel,
                   connections, encrypted_conn, last_sent,
                   ble_initialized, report_queue, send_request_pending, run_loop>>

\* The queue was full: the oldest report makes room.
SendEvict ==
    /\ pc0 = "Evict"
    /\ queue_try_remove
    /\ evicted_under_send' = (evicted_under_send \/ pc1 \in {"Notify", "Remove"})
    /\ pc0' = "EnqueueAgain"
    /\ UNCHANGED <<item0, received, core1, shared, stack, channel,
                   connections, encrypted_conn, last_sent,
                   ble_initialized, send_request_pending, run_loop>>

SendEnqueueAgain ==
    /\ pc0 = "EnqueueAgain"
    /\ queue_try_add(item0)
    /\ pc0' = "Exchange"
    /\ UNCHANGED <<item0, received, core1, shared, stack, channel, history,
                   ble_initialized, send_request_pending, run_loop>>

\* Fault: the callback is registered whatever the flag was.
ExchangeIgnored ==
    /\ pc0 = "Exchange"
    /\ send_request_pending' = TRUE
    /\ pc0' = "Register"
    /\ UNCHANGED <<item0, received, core1, shared, stack, channel, history,
                   ble_initialized, report_queue, run_loop>>

\* atomic_exchange(&send_request_pending, true)
SendExchange ==
    /\ pc0 = "Exchange"
    /\ send_request_pending' = TRUE
    /\ pc0' = IF send_request_pending THEN "Idle" ELSE "Register"
    /\ UNCHANGED <<item0, received, core1, shared, stack, channel, history,
                   ble_initialized, report_queue, run_loop>>

SendRegister ==
    /\ pc0 = "Register"
    /\ run_loop' = Append(run_loop, "send_request")
    /\ pc0' = "Idle"
    /\ UNCHANGED <<item0, received, core1, shared, stack, channel, history,
                   ble_initialized, report_queue, send_request_pending>>

ble_hid_periph_send_raw_report ==
    \/ SendCheckEncrypted \/ SendEnqueue \/ SendEvict \/ SendEnqueueAgain
    \/ SendExchange \/ SendRegister


-----------------------------------------------------------------------------
(***************************************************************************)
(* Core 1: callbacks registered by Core 0                                  *)
(***************************************************************************)

\* The run loop takes the first callback off its list and calls it.
\* setup_on_btstack_thread powers the controller on.
RunSetup ==
    /\ pc1 = "Idle" /\ run_loop # <<>> /\ Head(run_loop) = "setup"
    /\ run_loop' = Tail(run_loop)
    /\ hci_state' = "Initializing"
    /\ UNCHANGED <<core0, core1, shared, advertising, link, closing,
                   sm_state, sm_peer, bonds, current_peer_addr,
                   channel, history, ble_initialized, report_queue, send_request_pending>>

RunSendRequest ==
    /\ pc1 = "Idle" /\ run_loop # <<>> /\ Head(run_loop) = "send_request"
    /\ run_loop' = Tail(run_loop)
    /\ pc1' = "RequestCanSend"
    /\ UNCHANGED <<core0, item1, caller, shared, stack, channel, history,
                   ble_initialized, report_queue, send_request_pending>>

\* att_server_request_can_send_now_event owes an event, or (EmitDuringRequest)
\* emits it at once when a controller buffer is free.
RequestCanSend ==
    /\ pc1 = "RequestCanSend"
    /\ \/ /\ con_handle = Invalid
          /\ pc1' = "ClearPending"
          /\ UNCHANGED <<can_send_requested, caller>>
       \/ /\ con_handle # Invalid
          /\ can_send_requested' = TRUE
          /\ pc1' = "ClearPending"
          /\ UNCHANGED caller
       \/ /\ con_handle # Invalid /\ EmitDuringRequest /\ acl_free > 0
          /\ pc1' = "Peek" /\ caller' = "ClearPending"
          /\ UNCHANGED can_send_requested
    /\ UNCHANGED <<core0, item1, shared, stack, acl_free, history,
                   ble_initialized, report_queue, send_request_pending, run_loop>>

\* Fault: the flag is never cleared.
NeverClearPending ==
    /\ pc1 = "ClearPending"
    /\ pc1' = "Idle"
    /\ UNCHANGED <<core0, item1, caller, shared, stack, channel, history,
                   ble_initialized, report_queue, send_request_pending, run_loop>>

\* atomic_store(&send_request_pending, false)
ClearPending ==
    /\ pc1 = "ClearPending"
    /\ send_request_pending' = FALSE
    /\ pc1' = "Idle"
    /\ UNCHANGED <<core0, item1, caller, shared, stack, channel, history,
                   ble_initialized, report_queue, run_loop>>

request_can_send_now_on_btstack_thread == RequestCanSend \/ ClearPending

(***************************************************************************)
(* Core 1: ATT events                                                      *)
(***************************************************************************)

\* ATT_EVENT_CAN_SEND_NOW, once a controller buffer is free.
CanSendNow ==
    /\ pc1 = "Idle" /\ can_send_requested /\ acl_free > 0
    /\ can_send_requested' = FALSE
    /\ pc1' = "Peek" /\ caller' = "Idle"
    /\ UNCHANGED <<core0, item1, shared, stack, acl_free, history,
                   ble_initialized, report_queue, send_request_pending, run_loop>>

\* The input characteristic a report goes to: by its first byte when the
\* descriptor uses report ids, else the one registered under id 0.
Mapped(item) == (IF UseReportIds THEN item.id ELSE 0) \in InputIds

\* queue_try_peek: the loop ends on an empty queue.
Peek ==
    /\ pc1 = "Peek"
    /\ \/ /\ report_queue = <<>>
          /\ pc1' = caller
          /\ UNCHANGED item1
       \/ /\ report_queue # <<>>
          /\ item1' = Head(report_queue)
          /\ pc1' = IF Mapped(item1') THEN "Notify" ELSE "Remove"
    /\ UNCHANGED <<core0, caller, shared, stack, channel, history,
                   ble_initialized, report_queue, send_request_pending, run_loop>>

\* Fault: the report is removed whatever att_server_notify returned.
NotifyStatusIgnored ==
    /\ pc1 = "Notify"
    /\ acl_free' = IF acl_free > 0 THEN acl_free - 1 ELSE 0
    /\ last_sent' = IF acl_free > 0 THEN item1.seq ELSE last_sent
    /\ pc1' = "Remove"
    /\ UNCHANGED <<core0, item1, caller, shared, stack, connections, encrypted_conn,
                   can_send_requested, evicted_under_send,
                   ble_initialized, report_queue, send_request_pending, run_loop>>

\* Fault: no further event is asked for when the controller is full.
NotifyWithoutRetry ==
    /\ pc1 = "Notify"
    /\ acl_free' = IF acl_free > 0 THEN acl_free - 1 ELSE 0
    /\ last_sent' = IF acl_free > 0 THEN item1.seq ELSE last_sent
    /\ pc1' = IF acl_free > 0 THEN "Remove" ELSE caller
    /\ evicted_under_send' = (acl_free > 0 /\ evicted_under_send)
    /\ UNCHANGED <<core0, item1, caller, shared, stack, connections, encrypted_conn,
                   can_send_requested, ble_initialized, report_queue, send_request_pending, run_loop>>

\* att_server_notify succeeds while a controller buffer is free; when it fails,
\* the report stays in the queue and another event is asked for.
Notify ==
    /\ pc1 = "Notify"
    /\ \/ /\ acl_free > 0
          /\ acl_free' = acl_free - 1
          /\ last_sent' = item1.seq
          /\ pc1' = "Remove"
          /\ UNCHANGED <<can_send_requested, evicted_under_send>>
       \/ /\ acl_free = 0
          /\ can_send_requested' = TRUE
          /\ pc1' = caller
          /\ evicted_under_send' = FALSE
          /\ UNCHANGED <<acl_free, last_sent>>
    /\ UNCHANGED <<core0, item1, caller, shared, stack, connections, encrypted_conn,
                   ble_initialized, report_queue, send_request_pending, run_loop>>

\* Fault: a report that was notified stays in the queue.
RemoveNothing ==
    /\ pc1 = "Remove"
    /\ evicted_under_send' = FALSE
    /\ pc1' = "Peek"
    /\ UNCHANGED <<core0, item1, caller, shared, stack, channel,
                   connections, encrypted_conn, last_sent,
                   ble_initialized, report_queue, send_request_pending, run_loop>>

\* queue_try_remove into a dummy: whatever is at the head is dropped.
Remove ==
    /\ pc1 = "Remove"
    /\ queue_try_remove
    /\ evicted_under_send' = FALSE
    /\ pc1' = "Peek"
    /\ UNCHANGED <<core0, item1, caller, shared, stack, channel,
                   connections, encrypted_conn, last_sent,
                   ble_initialized, send_request_pending, run_loop>>

typing_can_send_now == Peek \/ Notify \/ Remove

-----------------------------------------------------------------------------
(***************************************************************************)
(* Core 1: HCI events                                                      *)
(***************************************************************************)

\* Fault: the queue is left as it is.
SkipFlush(next) == pc1' = next /\ UNCHANGED report_queue

\* while (queue_try_remove(&report_queue, &dummy)): one call of the loop, which
\* goes on at "next" once the queue is empty.
EmptyQueue(next) ==
    /\ queue_try_remove
    /\ pc1' = IF report_queue = <<>> THEN next ELSE pc1

\* BTSTACK_EVENT_STATE with HCI_STATE_WORKING.
StackWorking ==
    /\ pc1 = "Idle" /\ hci_state = "Initializing"
    /\ hci_state' = "Working"
    /\ pc1' = "Advertise"
    /\ UNCHANGED <<core0, item1, caller, shared, advertising, link, closing, sm_state, sm_peer, bonds,
                   current_peer_addr, channel, history,
                   ble_initialized, report_queue, send_request_pending, run_loop>>

\* gap_advertisements_enable(1), the end of three handlers.
Advertise ==
    /\ pc1 = "Advertise"
    /\ advertising' = TRUE
    /\ pc1' = "Idle"
    /\ UNCHANGED <<core0, item1, caller, shared, hci_state, link, closing, sm_state, sm_peer, bonds,
                   current_peer_addr, channel, history,
                   ble_initialized, report_queue, send_request_pending, run_loop>>

\* HCI_EVENT_DISCONNECTION_COMPLETE.  BTstack has already freed the connection:
\* its controller buffers come back, a CAN_SEND_NOW owed to it is forgotten, and a
\* pairing under way is going to be reported as failed.
Disconnection ==
    /\ pc1 = "Idle" /\ link # NoPeer
    /\ link' = NoPeer /\ closing' = FALSE
    /\ acl_free' = AclBuffers /\ can_send_requested' = FALSE
    /\ sm_state' = (IF sm_state = "Confirmed" THEN "Aborted" ELSE "None")
    /\ con_handle' = Invalid
    /\ pc1' = "DiscEncrypted"
    /\ UNCHANGED <<core0, sm_peer, item1, caller, link_encrypted, hci_state, advertising, bonds,
                   current_peer_addr, history,
                   ble_initialized, report_queue, send_request_pending, run_loop>>

\* Fault: link_encrypted is left as it was.
DiscStaysEncrypted ==
    /\ pc1 = "DiscEncrypted"
    /\ pc1' = "DiscFlush"
    /\ UNCHANGED <<core0, item1, caller, shared, stack, channel, history,
                   ble_initialized, report_queue, send_request_pending, run_loop>>

DiscEncrypted ==
    /\ pc1 = "DiscEncrypted"
    /\ link_encrypted' = FALSE
    /\ pc1' = "DiscFlush"
    /\ UNCHANGED <<core0, item1, caller, con_handle, stack, channel, history,
                   ble_initialized, report_queue, send_request_pending, run_loop>>

DiscFlush ==
    /\ pc1 = "DiscFlush"
    /\ EmptyQueue("Advertise")
    /\ UNCHANGED <<core0, item1, caller, shared, stack, channel, history,
                   ble_initialized, send_request_pending, run_loop>>

\* Fault: a failed connection does not start advertising again.
FailureWithoutAdvertising ==
    /\ pc1 = "Idle" /\ hci_state = "Working" /\ advertising /\ link = NoPeer
    /\ sm_state # "Aborted" /\ connections < MaxConnections
    /\ advertising' = FALSE
    /\ \/ link' \in Peers /\ pc1' = "ConnFlush"
       \/ link' = NoPeer /\ pc1' = "Idle"
    /\ UNCHANGED <<core0, item1, caller, shared, hci_state, closing, sm_state, sm_peer, bonds,
                   current_peer_addr, channel, history,
                   ble_initialized, report_queue, send_request_pending, run_loop>>

\* LE connection complete, legacy or enhanced: the two handlers are the same.
\* The controller has stopped advertising whatever the status is.
ConnectionComplete ==
    /\ pc1 = "Idle" /\ hci_state = "Working" /\ advertising /\ link = NoPeer
    /\ sm_state # "Aborted" /\ connections < MaxConnections
    /\ advertising' = FALSE
    /\ \/ link' \in Peers /\ pc1' = "ConnFlush"
       \/ link' = NoPeer /\ pc1' = "Advertise"
    /\ UNCHANGED <<core0, item1, caller, shared, hci_state, closing, sm_state, sm_peer, bonds,
                   current_peer_addr, channel, history,
                   ble_initialized, report_queue, send_request_pending, run_loop>>

ConnFlush ==
    /\ pc1 = "ConnFlush"
    /\ EmptyQueue("ConnHandle")
    /\ UNCHANGED <<core0, item1, caller, shared, stack, channel, history,
                   ble_initialized, send_request_pending, run_loop>>

ConnHandle ==
    /\ pc1 = "ConnHandle"
    /\ con_handle' \in Handles
    /\ connections' = connections + 1
    /\ pc1' = "ConnEncrypted"
    /\ UNCHANGED <<core0, item1, caller, link_encrypted, stack, channel, encrypted_conn, last_sent, evicted_under_send,
                   ble_initialized, report_queue, send_request_pending, run_loop>>

\* Fault: the host's address is kept from the first connection.
ConnAddressKept ==
    /\ pc1 = "ConnEncrypted"
    /\ link_encrypted' = FALSE
    /\ current_peer_addr' = IF current_peer_addr = NoPeer THEN link ELSE current_peer_addr
    /\ sm_state' = "Requested" /\ sm_peer' = link
    /\ pc1' = "Idle"
    /\ UNCHANGED <<core0, item1, caller, con_handle, hci_state, advertising, link, closing, bonds,
                   channel, history, ble_initialized, report_queue, send_request_pending, run_loop>>

\* The rest of the handler, up to sm_request_pairing.
ConnEncrypted ==
    /\ pc1 = "ConnEncrypted"
    /\ link_encrypted' = FALSE
    /\ current_peer_addr' = link
    /\ sm_state' = "Requested" /\ sm_peer' = link
    /\ pc1' = "Idle"
    /\ UNCHANGED <<core0, item1, caller, con_handle, hci_state, advertising, link, closing, bonds,
                   channel, history, ble_initialized, report_queue, send_request_pending, run_loop>>

\* HCI_EVENT_ENCRYPTION_CHANGE with success: the host has the keys, from an
\* earlier bonding or from the pairing under way.
EncryptionChange ==
    /\ pc1 = "Idle" /\ link # NoPeer /\ ~closing /\ ~link_encrypted
    /\ link \in bonds \/ sm_state = "Confirmed"
    /\ link_encrypted' = TRUE
    /\ encrypted_conn' = connections
    /\ UNCHANGED <<core0, core1, con_handle, stack, channel, connections, last_sent, evicted_under_send,
                   ble_initialized, report_queue, send_request_pending, run_loop>>

\* The same event with a failure: gap_delete_bonding and gap_disconnect.
EncryptionFailed ==
    /\ pc1 = "Idle" /\ link # NoPeer /\ ~closing /\ ~link_encrypted
    /\ bonds' = bonds \ {current_peer_addr}
    /\ closing' = TRUE
    /\ UNCHANGED <<core0, core1, shared, hci_state, advertising, link, sm_state, sm_peer, current_peer_addr,
                   channel, history, ble_initialized, report_queue, send_request_pending, run_loop>>

\* HCI_EVENT_NUMBER_OF_COMPLETED_PACKETS, handled inside BTstack.
CompletedPackets ==
    /\ pc1 = "Idle" /\ acl_free < AclBuffers
    /\ acl_free' = acl_free + 1
    /\ UNCHANGED <<core0, core1, shared, stack, can_send_requested, history,
                   ble_initialized, report_queue, send_request_pending, run_loop>>

(***************************************************************************)
(* Core 1: Security Manager events                                         *)
(***************************************************************************)

\* Just Works and Numeric Comparison requests are confirmed at once.
PairingConfirm ==
    /\ pc1 = "Idle" /\ sm_state = "Requested" /\ ~closing
    /\ sm_state' = "Confirmed"
    /\ UNCHANGED <<core0, sm_peer, core1, shared, hci_state, advertising, link, closing, bonds,
                   current_peer_addr, channel, history,
                   ble_initialized, report_queue, send_request_pending, run_loop>>

\* SM_EVENT_PAIRING_COMPLETE: BTstack keeps the keys of a success; of a failure
\* the handler deletes what was stored for the address in the event.
PairingComplete ==
    /\ pc1 = "Idle"
    /\ \/ sm_state = "Confirmed" /\ link_encrypted /\ bonds' = bonds \cup {sm_peer}
       \/ sm_state \in {"Confirmed", "Aborted"} /\ bonds' = bonds \ {sm_peer}
    /\ sm_state' = "None"
    /\ UNCHANGED <<core0, sm_peer, core1, shared, hci_state, advertising, link, closing,
                   current_peer_addr, channel, history,
                   ble_initialized, report_queue, send_request_pending, run_loop>>

-----------------------------------------------------------------------------
hci_packet_handler ==
    \/ StackWorking \/ Advertise
    \/ Disconnection \/ DiscEncrypted \/ DiscFlush
    \/ ConnectionComplete \/ ConnFlush \/ ConnHandle \/ ConnEncrypted
    \/ EncryptionChange \/ EncryptionFailed

sm_packet_handler == PairingConfirm \/ PairingComplete

Core0 == ble_hid_periph_start \/ SendCheckHandle \/ ble_hid_periph_send_raw_report
Core1 == \/ RunSetup \/ RunSendRequest \/ request_can_send_now_on_btstack_thread
         \/ CanSendNow \/ typing_can_send_now \/ CompletedPackets
         \/ hci_packet_handler \/ sm_packet_handler

Next == Core0 \/ Core1

\* A handler once entered runs to its end.
HandlerStep ==
    \/ request_can_send_now_on_btstack_thread \/ typing_can_send_now
    \/ Advertise \/ DiscEncrypted \/ DiscFlush \/ ConnFlush \/ ConnHandle \/ ConnEncrypted

\* Both cores keep running, the run loop calls what was registered, the stack
\* starts and emits the events it owes, and the controller sends its buffers.
\* Reports, connections, encryption and pairing come as they please.
Fairness ==
    /\ WF_vars(ble_hid_periph_send_raw_report)
    /\ WF_vars(HandlerStep)
    /\ SF_vars(RunSetup) /\ SF_vars(RunSendRequest) /\ SF_vars(StackWorking)
    /\ SF_vars(CanSendNow) /\ SF_vars(CompletedPackets)

Spec == Init /\ [][Next]_vars
FairSpec == Spec /\ Fairness


-----------------------------------------------------------------------------
(***************************************************************************)
(* Properties                                                              *)
(***************************************************************************)
SMState == {"None", "Requested", "Confirmed", "Aborted"}

ControlTypes ==
    /\ pc0 \in Pc0 /\ pc1 \in Pc1 /\ caller \in {"Idle", "ClearPending"}
    /\ hci_state \in {"Off", "Initializing", "Working"} /\ sm_state \in SMState
FlagTypes ==
    /\ ble_initialized \in BOOLEAN /\ link_encrypted \in BOOLEAN
    /\ send_request_pending \in BOOLEAN /\ advertising \in BOOLEAN /\ closing \in BOOLEAN
    /\ can_send_requested \in BOOLEAN /\ evicted_under_send \in BOOLEAN
NumberTypes ==
    /\ received \in 0..MaxReports /\ last_sent \in 0..MaxReports
    /\ acl_free \in 0..AclBuffers
    /\ connections \in 0..MaxConnections /\ encrypted_conn \in 0..MaxConnections
NameTypes ==
    /\ con_handle \in Handles \cup {Invalid}
    /\ current_peer_addr \in Peers \cup {NoPeer} /\ link \in Peers \cup {NoPeer}
    /\ sm_peer \in Peers \cup {NoPeer} /\ bonds \in SUBSET Peers
ItemTypes == item0 \in Item \cup {NoItem} /\ item1 \in Item \cup {NoItem}
QueueTypes == report_queue \in Seq(Item) /\ Len(report_queue) <= QueueSize
LoopTypes == run_loop \in Seq(Callback)

\* Every variable keeps its type; the queue never outgrows its size and no more
\* controller buffers are filled or returned than there are.
TypeOK ==
    /\ ControlTypes /\ FlagTypes /\ NumberTypes /\ NameTypes
    /\ ItemTypes /\ QueueTypes /\ LoopTypes

Sending == pc0 \in {"Enqueue", "Evict", "EnqueueAgain"}

\* Reports wait in the order they arrived.  A waiting report is newer than the last
\* one notified, except the one whose removal is due, and older than the one Core 0
\* is about to add: whatever Core 0 evicts while Core 1 peeks, notifies and removes,
\* typing_can_send_now sends no report twice and none after a newer one.
InOrder ==
    /\ \A i, j \in DOMAIN report_queue : i < j => report_queue[i].seq < report_queue[j].seq
    /\ \A i \in DOMAIN report_queue :
         /\ report_queue[i].seq >= last_sent
         /\ report_queue[i].seq = last_sent => pc1 = "Remove"
         /\ pc1 \in {"Notify", "Remove"} => report_queue[i].seq >= item1.seq
         /\ Sending => report_queue[i].seq < item0.seq
    /\ pc1 = "Notify" => item1.seq > last_sent
    /\ Sending => last_sent < item0.seq

\* ble_hid_periph_send_raw_report ignores what its second queue_try_add returns:
\* after the eviction there is always room.
RoomAfterEvict == pc0 = "EnqueueAgain" => Len(report_queue) < QueueSize

SendRequests == {i \in DOMAIN run_loop : run_loop[i] = "send_request"}

\* send_request_callback is one list node: it is registered only while it is in no
\* list and not being called, so the run loop's list never holds it twice.
OneRegistration ==
    LET registering == pc0 = "Register"
        calling == \/ pc1 \in {"RequestCanSend", "ClearPending"}
                   \/ pc1 \in {"Peek", "Notify", "Remove"} /\ caller = "ClearPending"
    IN  /\ \A i, j \in SendRequests : i = j
        /\ registering => ~calling /\ SendRequests = {}
        /\ calling => SendRequests = {}
        /\ send_request_pending <=> (registering \/ calling \/ SendRequests # {})

\* While a host is connected and Core 1 is between two handlers, a waiting report
\* has its wake-up: an event is owed, a request is pending, or Core 0 is still on
\* its way to the request.  Holds when BTstack defers CAN_SEND_NOW.
NoStrandedReport ==
    (report_queue # <<>> /\ con_handle # Invalid /\ pc1 = "Idle")
        => can_send_requested \/ send_request_pending \/ pc0 \in {"Evict", "EnqueueAgain", "Exchange"}

\* link_encrypted, read with a valid con_handle, speaks of this connection and not
\* of an earlier one, at every point where Core 0 can read the two.
EncryptedIsCurrent == (con_handle # Invalid /\ link_encrypted) => encrypted_conn = connections

Stale(item) == item.conn # connections

\* The two flushes leave at most one report of an earlier connection for the
\* current one: the one Core 0 held while the link came and went.
AtMostOneStale ==
    con_handle # Invalid => Cardinality({i \in DOMAIN report_queue : Stale(report_queue[i])}) <= 1

\* With the stack working and no host connected the bridge can be found again:
\* each handler that leaves the link down ends in gap_advertisements_enable.
Discoverable == (hci_state = "Working" /\ link = NoPeer /\ pc1 = "Idle") => advertising

\* A failed encryption or pairing deletes the keys of the host it happened with,
\* never those of the other bonded hosts.
BondsOfOthersKept == [][\A p \in bonds \ bonds' : p = sm_peer]_vars

\* Once there is a host to send to, the queue drains or the link goes down.
QueueDrains == (report_queue # <<>>) ~> (report_queue = <<>> \/ con_handle = Invalid)

-----------------------------------------------------------------------------
\* The reports accepted and not yet delivered or given up.
Waiting ==
    LET Held == {report_queue[i] : i \in DOMAIN report_queue}
                \cup (IF Sending THEN {item0} ELSE {})
                \cup (IF pc1 = "Notify" THEN {item1} ELSE {})
    IN  {[seq |-> r.seq, mapped |-> Mapped(r)] : r \in {h \in Held : h.seq > last_sent}}

Channel == INSTANCE ReportChannel WITH
             Capacity <- QueueSize, MaxSeq <- MaxReports,
             chan <- Waiting, last <- last_sent, up <- (con_handle # Invalid),
             overflow <- pc0 \in {"Evict", "EnqueueAgain"} \/ evicted_under_send

\* The two cores together implement the channel: in order, at most once, and no
\* report given up but for want of a connection, of room or of a characteristic.
ImplementsChannel == Channel!Spec

-----------------------------------------------------------------------------
(***************************************************************************)
(* What comments in the code say, and the code does not do                 *)
(***************************************************************************)

\* "If the queue is full, remove the oldest report. ... newer reports contain the
\* current button states": of the waiting reports the newest is not thrown away.
NewestReportKept ==
    [][(Remove /\ report_queue # <<>>) =>
          \/ Head(report_queue) = item1
          \/ Len(report_queue) > 1]_vars
=============================================================================
