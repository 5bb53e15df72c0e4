----------------------------- MODULE UsbHidHost -----------------------------
(***************************************************************************)
(* The USB side of the bridge, src/src/usb_hid_host.c, as the main loop on *)
(* Core 0 runs it: tuh_task calls the TinyUSB callbacks, usb_hid_host_task *)
(* services the SET_IDLE queue and starts the bridge once no interface has *)
(* been mounted for a while.                                               *)
(*                                                                         *)
(* Time is the millisecond clock the code reads, a uint32_t that wraps.    *)
(* TinyUSB and the devices are external: they mount interfaces, deliver    *)
(* reports that were asked for and take one control transfer at a time,    *)
(* theirs or ours.  An interface is named by its slot, the pair of its     *)
(* device address and instance.                                            *)
(***************************************************************************)
EXTENDS ReportDescriptor

CONSTANTS
    Slots,              \* pairs of a device address and an instance
    Unplugged,          \* no device in a slot
    Devices,            \* the report descriptors of devices in each slot; <<>> is a missing one
    MaxInterfaces,      \* MAX_BRIDGED_INTERFACES
    AggregationWait,    \* AGGREGATION_WAIT_MS
    QuietTime,          \* 300 ms
    IdleSpacing,        \* 50 ms
    MaxIdleRetry,       \* 10
    ClockMod,           \* 2^32
    MaxStall,           \* bound: milliseconds an iteration of the main loop takes
    Removable           \* bound: the slots whose device may be taken out while powered, again and again

ASSUME TimeAssumption ==
    /\ AggregationWait \in Nat /\ QuietTime \in Nat /\ IdleSpacing \in Nat
    /\ ClockMod \in Nat /\ MaxStall \in Nat /\ MaxIdleRetry \in Nat \ {0}
    /\ AggregationWait + QuietTime < ClockMod /\ IdleSpacing + MaxStall < ClockMod
Descriptors == UNION {Devices[s] : s \in Slots}

ASSUME SlotAssumption == /\ Descriptors \subseteq Seq(Item) /\ Unplugged \notin Descriptors /\ {"free", "stack"} \cap Slots = {}
                         /\ MaxInterfaces \in Nat

VARIABLES
    mounted_itfs,       \* up to mounted_itfs_count
    bridge_state,
    now,                \* milliseconds since boot
    first_mount_ms,
    last_mount_ms,
    set_idle_busy,
    last_set_idle_ms,
    bridged,            \* how many interfaces start_combined_ble_bridge has merged
    \* TinyUSB and the devices
    plugged,            \* the descriptor of the device in each slot
    armed,              \* slots whose next report was asked for
    control,            \* whose control transfer is under way: "free", "stack", or the slot of ours
    \* history
    stall,              \* milliseconds since usb_hid_host_task last ran
    since_first, since_mount, since_idle, \* milliseconds since, up to the wait that matters
    forwarded,          \* the last report that was forwarded
    emptied             \* slots a device has been taken out of

timers == <<first_mount_ms, last_mount_ms, last_set_idle_ms>>
since == <<since_first, since_mount, since_idle>>
devices == <<plugged, armed, emptied>>
vars == <<mounted_itfs, bridge_state, now, timers, set_idle_busy, bridged,
          devices, control, stall, since, forwarded>>

NothingForwarded == [slot |-> Unplugged, desc |-> <<>>, id |-> 0]

Init ==
    /\ mounted_itfs = <<>> /\ bridge_state = "WaitingFirstDevice"
    /\ now = 0 /\ first_mount_ms = 0 /\ last_mount_ms = 0
    /\ set_idle_busy = FALSE /\ last_set_idle_ms = 0 /\ bridged = 0
    /\ plugged = [s \in Slots |-> Unplugged] /\ armed = {} /\ emptied = {} /\ control = "free"
    /\ stall = 0 /\ since_first = AggregationWait /\ since_mount = QuietTime /\ since_idle = IdleSpacing
    /\ forwarded = NothingForwarded

\* Fault: the clock is compared with the end of the wait.
ReachedDeadline(start, wait) == now >= (start + wait) % ClockMod
\* Fault: the difference is not taken modulo the clock.
ElapsedWithoutWrap(start, wait) == now >= start /\ now - start >= wait
\* now - start >= wait, on uint32_t
Elapsed(start, wait) == (IF now >= start THEN now - start ELSE now + ClockMod - start) >= wait

OneMore(n, max) == IF n < max THEN n + 1 ELSE max

\* A millisecond passes; the main loop is back within MaxStall of them.
Tick ==
    /\ stall < MaxStall
    /\ stall' = stall + 1
    /\ now' = IF now + 1 = ClockMod THEN 0 ELSE now + 1
    /\ since_first' = OneMore(since_first, AggregationWait)
    /\ since_mount' = OneMore(since_mount, QuietTime)
    /\ since_idle' = OneMore(since_idle, IdleSpacing)
    /\ UNCHANGED <<mounted_itfs, bridge_state, timers, set_idle_busy, bridged, devices, control, forwarded>>

-----------------------------------------------------------------------------
(***************************************************************************)
(* TinyUSB callbacks                                                       *)
(***************************************************************************)

Accepted == bridge_state # "Started" /\ Len(mounted_itfs) < MaxInterfaces

StoreInterface(slot, desc) ==
    /\ mounted_itfs' = Append(mounted_itfs, [slot |-> slot, desc |-> desc,
                                             set_idle_pending |-> TRUE, set_idle_retry |-> 0])
    /\ last_mount_ms' = now /\ since_mount' = 0
    /\ IF bridge_state = "WaitingFirstDevice"
       THEN bridge_state' = "Aggregating" /\ first_mount_ms' = now /\ since_first' = 0
       ELSE UNCHANGED <<bridge_state, first_mount_ms, since_first>>

\* Without a descriptor the interface is left alone.  Else it is stored while
\* there is room and the bridge has not started, and asked for its first report.
tuh_hid_mount_cb(slot, desc) ==
    /\ plugged[slot] = Unplugged
    /\ plugged' = [plugged EXCEPT ![slot] = desc]
    /\ \/ desc # <<>> /\ Accepted /\ StoreInterface(slot, desc)
       \/ /\ desc = <<>> \/ ~Accepted
          /\ UNCHANGED <<mounted_itfs, bridge_state, first_mount_ms, last_mount_ms, since_first, since_mount>>
    /\ armed' = IF desc = <<>> THEN armed ELSE armed \cup {slot}
    /\ UNCHANGED <<now, last_set_idle_ms, set_idle_busy, bridged, emptied, control, stall, since_idle, forwarded>>

\* The handler only logs: the interface stays in mounted_itfs.  TinyUSB forgets
\* the transfers of the device, and with a control transfer its completion.
tuh_hid_umount_cb(slot) ==
    /\ plugged[slot] # Unplugged /\ slot \in Removable
    /\ emptied' = emptied \cup {slot}
    /\ plugged' = [plugged EXCEPT ![slot] = Unplugged]
    /\ armed' = armed \ {slot}
    /\ control' = IF control = slot THEN "free" ELSE control
    /\ UNCHANGED <<mounted_itfs, bridge_state, now, timers, set_idle_busy, bridged, stall, since, forwarded>>

First(indices) == CHOOSE i \in indices : \A j \in indices : i <= j
Matching(slot) == {i \in DOMAIN mounted_itfs : mounted_itfs[i].slot = slot}

\* Ids and descriptor that were combined, which nothing changes afterwards.
bridged_descs == [i \in 1..bridged |-> mounted_itfs[i].desc]
bridge == MergeAll(bridged_descs)

\* Fault: an interface's report id is passed on as it came.
SentUnshifted(report) == report.id
\* The first byte handed to the BLE side: the first interface stored for the slot gives it.
SentByte(report) == ForwardedId(bridge.itfs[First(Matching(report.slot))], report.id)

Forward(slot, id) ==
    forwarded' = IF Matching(slot) = {} THEN forwarded
                 ELSE [slot |-> slot, desc |-> plugged[slot], id |-> id]

\* Fault: the next report is only asked for once there is a bridge to forward it.
AskOnceStarted(slot) == armed' = IF bridge_state = "Started" THEN armed ELSE armed \ {slot}
\* tuh_hid_receive_report: granted, as the last report of the slot has just come in.
AskForNext(slot) == armed' = (armed \ {slot}) \cup {slot}

\* A report, or an empty one, arrives; the handler asks for the next.
tuh_hid_report_received_cb(slot, id, empty) ==
    /\ slot \in armed
    /\ \/ bridge_state = "Started" /\ ~empty /\ Forward(slot, id)
       \/ (bridge_state # "Started" \/ empty) /\ UNCHANGED forwarded
    /\ AskForNext(slot)
    /\ UNCHANGED <<mounted_itfs, bridge_state, now, timers, set_idle_busy, bridged, plugged, emptied, control, stall, since>>

\* TinyUSB's own control transfers, while it enumerates a device.
StackControl ==
    /\ \/ control = "free" /\ control' = "stack"
       \/ control = "stack" /\ control' = "free"
    /\ UNCHANGED <<mounted_itfs, bridge_state, now, timers, set_idle_busy, bridged, devices, stall, since, forwarded>>

\* Fault: the completion leaves the flag set.
CompleteStaysBusy ==
    /\ control \in Slots
    /\ control' = "free"
    /\ UNCHANGED <<mounted_itfs, bridge_state, now, timers, set_idle_busy, bridged, devices, stall, since, forwarded>>

\* Our control transfer has ended, well or not.
set_idle_complete_cb ==
    /\ control \in Slots
    /\ control' = "free" /\ set_idle_busy' = FALSE
    /\ UNCHANGED <<mounted_itfs, bridge_state, now, timers, bridged, devices, stall, since, forwarded>>

-----------------------------------------------------------------------------
(***************************************************************************)
(* usb_hid_host_task                                                       *)
(***************************************************************************)
Pending == {i \in DOMAIN mounted_itfs : mounted_itfs[i].set_idle_pending}

\* tuh_control_xfer: refused while a transfer is under way or without a device.
CanSendIdle(slot) == control = "free" /\ plugged[slot] # Unplugged

\* Fault: a refusal is not counted.
SendUncounted(i) ==
    LET sent == CanSendIdle(mounted_itfs[i].slot)
    IN  /\ last_set_idle_ms' = now /\ since_idle' = 0
        /\ mounted_itfs' = [mounted_itfs EXCEPT ![i].set_idle_pending = ~sent]
        /\ set_idle_busy' = sent
        /\ control' = IF sent THEN mounted_itfs[i].slot ELSE control

\* One attempt at the SET_IDLE of interface i: the last refusal gives it up.
send_set_idle(i) ==
    LET itf == mounted_itfs[i]
        sent == CanSendIdle(itf.slot)
        retry == IF sent THEN itf.set_idle_retry ELSE itf.set_idle_retry + 1
    IN  /\ last_set_idle_ms' = now /\ since_idle' = 0
        /\ mounted_itfs' = [mounted_itfs EXCEPT ![i].set_idle_retry = retry,
                                                ![i].set_idle_pending = ~sent /\ retry < MaxIdleRetry]
        /\ set_idle_busy' = sent
        /\ control' = IF sent THEN itf.slot ELSE control

\* Fault: the flag is not looked at.
IdleNeverBusy == Elapsed(last_set_idle_ms, IdleSpacing) /\ Pending # {}
IdleDue == ~set_idle_busy /\ Elapsed(last_set_idle_ms, IdleSpacing) /\ Pending # {}

\* The interfaces are served in the order they were mounted, one at a time.
service_set_idle_queue ==
    \/ IdleDue /\ send_set_idle(First(Pending))
    \/ ~IdleDue /\ UNCHANGED <<mounted_itfs, set_idle_busy, last_set_idle_ms, control, since_idle>>

WindowElapsed == /\ bridge_state = "Aggregating"
                 /\ Elapsed(first_mount_ms, AggregationWait) /\ Elapsed(last_mount_ms, QuietTime)

\* What the bridge is started with: all that is mounted by then.
start_combined_ble_bridge ==
    /\ bridge_state' = "Started"
    /\ bridged' = Len(mounted_itfs)

usb_hid_host_task ==
    /\ service_set_idle_queue
    /\ \/ WindowElapsed /\ start_combined_ble_bridge
       \/ ~WindowElapsed /\ UNCHANGED <<bridge_state, bridged>>
    /\ stall' = 0
    /\ UNCHANGED <<now, first_mount_ms, last_mount_ms, devices, since_first, since_mount, forwarded>>

-----------------------------------------------------------------------------
Mount == \E s \in Slots : \E d \in Devices[s] : tuh_hid_mount_cb(s, d)
Umount == \E s \in Slots : tuh_hid_umount_cb(s)
ReportFrom(slot) == slot \in armed /\ \E id \in InputIdsOf(plugged[slot]) : tuh_hid_report_received_cb(slot, id, FALSE)
EmptyReport == \E s \in armed : tuh_hid_report_received_cb(s, 0, TRUE)
Report == EmptyReport \/ \E s \in Slots : ReportFrom(s)

Next == Tick \/ Mount \/ Umount \/ Report \/ StackControl \/ set_idle_complete_cb \/ usb_hid_host_task

\* The main loop runs, time passes and TinyUSB ends the transfers it accepted.
Fairness == WF_vars(usb_hid_host_task) /\ WF_vars(Tick) /\ WF_vars(set_idle_complete_cb)

Spec == Init /\ [][Next]_vars
FairSpec == Spec /\ Fairness

-----------------------------------------------------------------------------
(***************************************************************************)
(* Properties                                                              *)
(***************************************************************************)
Interface == [slot : Slots, desc : Descriptors, set_idle_pending : BOOLEAN, set_idle_retry : 0..MaxIdleRetry]

\* Every variable keeps its type, and no more interfaces are stored than there is room for.
TypeOK ==
    /\ mounted_itfs \in Seq(Interface) /\ Len(mounted_itfs) <= MaxInterfaces
    /\ bridge_state \in {"WaitingFirstDevice", "Aggregating", "Started"}
    /\ {now, first_mount_ms, last_mount_ms, last_set_idle_ms} \subseteq 0..ClockMod-1
    /\ set_idle_busy \in BOOLEAN /\ bridged \in 0..Len(mounted_itfs)
    /\ plugged \in [Slots -> Descriptors \cup {Unplugged}]
    /\ armed \in SUBSET Slots /\ emptied \in SUBSET Slots /\ control \in Slots \cup {"free", "stack"}
    /\ stall \in 0..MaxStall
    /\ since_first \in 0..AggregationWait /\ since_mount \in 0..QuietTime /\ since_idle \in 0..IdleSpacing

\* The bridge starts neither before AGGREGATION_WAIT_MS after the first mount nor
\* less than 300 ms after the last, also when the clock wraps in the meantime.
StartsAfterWindow ==
    [][bridge_state' # bridge_state /\ bridge_state' = "Started"
         => since_first >= AggregationWait /\ since_mount >= QuietTime]_vars

\* An attempt at SET_IDLE is made with no earlier one of ours under way, whose request
\* buffer it would overwrite, and no sooner than 50 ms after the last attempt.
IdleSequential ==
    [][(Len(mounted_itfs') = Len(mounted_itfs) /\ mounted_itfs' # mounted_itfs)
         => control \notin Slots /\ since_idle >= IdleSpacing]_vars

\* A report handed to the BLE side carries an id under which the interface it came from,
\* and only this, has declared an input report, as long as no limit is met.  Excepted are
\* the reports from a slot that was emptied while powered and then given to a device with
\* another descriptor. (tuh_hid_report_received_cb, get_bridge_entry)
ForwardedHome ==
    LET i == First(Matching(forwarded.slot))
        items == bridge.combined.items
        byte == SentByte(forwarded)
    IN  (/\ forwarded # NothingForwarded
         /\ forwarded.slot \notin emptied \/ mounted_itfs[i].desc = forwarded.desc
         /\ WithinLimits(bridged_descs, items))
            => EntryFor(Parsed(items), byte) # 0 /\ Declarers(items, byte) = {i}

\* Once an interface has been mounted the bridge starts, however many more follow.
BridgeStarts == (mounted_itfs # <<>>) ~> (bridge_state = "Started")

\* The device was removed in the middle of our transfer: set_idle_busy stays.
IdleLost == emptied # {} /\ set_idle_busy /\ control \notin Slots

\* Each interface is sent its SET_IDLE or given up, unless a device is removed during its own.
\* (service_set_idle_queue; set_idle_busy is cleared by the completion alone)
IdleServed ==
    \A i \in 1..MaxInterfaces :
        (i \in Pending) ~> ((i \in DOMAIN mounted_itfs /\ i \notin Pending) \/ IdleLost)

\* A stored interface whose device stays and keeps sending what it is asked for is forwarded
\* again and again, however many reports came before the start and however many are empty.
\* (each path of tuh_hid_mount_cb and tuh_hid_report_received_cb asks for the next report)
EveryDeviceHeard ==
    \A s \in Slots :
        (/\ WF_vars(ReportFrom(s))
         /\ <>[](bridge_state = "Started" /\ Matching(s) # {} /\ plugged[s] \notin {Unplugged, <<>>}))
            => []<>(forwarded.slot = s)
=============================================================================
