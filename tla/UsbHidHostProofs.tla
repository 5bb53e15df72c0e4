-------------------------- MODULE UsbHidHostProofs --------------------------
(***************************************************************************)
(* Proofs about UsbHidHost: the waits of the aggregation window and of the *)
(* SET_IDLE queue are kept on a clock that wraps, for every wait, clock    *)
(* width and number of interfaces; what is forwarded carries the id of its *)
(* interface, whatever the descriptors, as long as its slot keeps its      *)
(* device or gets one like it.                                             *)
(***************************************************************************)
EXTENDS UsbHidHost, ReportDescriptorProofs

\* What the code takes for the time since start: now - start on uint32_t.
Age(start) == IF now >= start THEN now - start ELSE now + ClockMod - start

\* Until a wait is over the clock shows how much of it has passed; later, the clock having
\* wrapped, it may show less.
WaitInv ==
    /\ since_first < AggregationWait => Age(first_mount_ms) = since_first
    /\ since_mount < QuietTime => Age(last_mount_ms) = since_mount
    /\ since_idle < IdleSpacing => Age(last_set_idle_ms) = since_idle

\* Our transfer is under way only while set_idle_busy is set.
BusyInv == control \in Slots => set_idle_busy

\* A SET_IDLE that is still to be sent has an attempt left.
RetryInv == \A i \in Pending : mounted_itfs[i].set_idle_retry < MaxIdleRetry

IInv == TypeOK /\ WaitInv /\ BusyInv /\ RetryInv

-----------------------------------------------------------------------------
(***************************************************************************)
(* The clock                                                               *)
(***************************************************************************)

\* A wait counts as over when the age on the clock has reached it.
LEMMA ElapsedIsAge == ASSUME NEW start, NEW wait PROVE Elapsed(start, wait) <=> Age(start) >= wait
BY DEF Elapsed, Age

\* A millisecond on, the age of a running wait is one more.
LEMMA TickAges ==
    ASSUME ClockMod \in Nat, now \in 0..ClockMod-1, NEW start \in 0..ClockMod-1,
           NEW wait \in Nat, wait < ClockMod, NEW waited \in 0..wait,
           waited < wait => Age(start) = waited,
           now' = (IF now + 1 = ClockMod THEN 0 ELSE now + 1)
    PROVE  /\ OneMore(waited, wait) \in 0..wait
           /\ OneMore(waited, wait) < wait =>
                 (IF now' >= start THEN now' - start ELSE now' + ClockMod - start) = OneMore(waited, wait)
BY DEF OneMore, Age

LEMMA AgeNow == ASSUME now \in Nat PROVE Age(now) = 0
BY DEF Age

\* A set of indices has a first one.
LEMMA FirstExists == ASSUME NEW S \in SUBSET Nat, S # {} PROVE First(S) \in S
<1> DEFINE R == OpToRel(<, Nat)
<1>1. PICK n \in S : \A m \in S : ~(<<m, n>> \in R)
  BY NatLessThanWellFounded, WFMin
<1>2. ASSUME NEW m \in S PROVE n <= m
  <2>1. m \in Nat /\ n \in Nat OBVIOUS
  <2>2. ~(<<m, n>> \in OpToRel(<, Nat)) BY <1>1 DEF R
  <2>3. ~(m < n) BY <2>1, <2>2 DEF OpToRel
  <2> HIDE DEF R
  <2> QED BY <2>1, <2>3
<1> QED BY <1>2 DEF First

-----------------------------------------------------------------------------
(***************************************************************************)
(* The parts of TypeOK                                                     *)
(***************************************************************************)
MountTypes == mounted_itfs \in Seq(Interface) /\ Len(mounted_itfs) <= MaxInterfaces
StateTypes ==
    /\ bridge_state \in {"WaitingFirstDevice", "Aggregating", "Started"}
    /\ set_idle_busy \in BOOLEAN /\ bridged \in 0..Len(mounted_itfs)
TimeTypes ==
    /\ now \in 0..ClockMod-1 /\ first_mount_ms \in 0..ClockMod-1
    /\ last_mount_ms \in 0..ClockMod-1 /\ last_set_idle_ms \in 0..ClockMod-1
    /\ stall \in 0..MaxStall
    /\ since_first \in 0..AggregationWait /\ since_mount \in 0..QuietTime /\ since_idle \in 0..IdleSpacing
DeviceTypes ==
    /\ plugged \in [Slots -> Descriptors \cup {Unplugged}]
    /\ armed \in SUBSET Slots /\ emptied \in SUBSET Slots /\ control \in Slots \cup {"free", "stack"}

LEMMA TypeParts == TypeOK <=> MountTypes /\ StateTypes /\ TimeTypes /\ DeviceTypes
BY DEF TypeOK, MountTypes, StateTypes, TimeTypes, DeviceTypes

LEMMA TypePartsNext == TypeOK' <=> MountTypes' /\ StateTypes' /\ TimeTypes' /\ DeviceTypes'
BY DEF TypeOK, MountTypes, StateTypes, TimeTypes, DeviceTypes

LEMMA InvInit == Init => IInv
<1> SUFFICES ASSUME Init PROVE IInv OBVIOUS
<1> USE DEF Init
<1>1. MountTypes
  <2>1. mounted_itfs \in Seq(Interface) OBVIOUS
  <2> QED BY <2>1, SlotAssumption DEF MountTypes
<1>2. StateTypes
  <2>1. bridged \in 0..Len(mounted_itfs)
    <3>1. Len(mounted_itfs) = 0 /\ bridged = 0 OBVIOUS
    <3> QED BY ONLY <3>1
  <2>2. set_idle_busy \in BOOLEAN /\ bridge_state = "WaitingFirstDevice" OBVIOUS
  <2> QED BY ONLY <2>1, <2>2 DEF StateTypes
<1>3. TimeTypes BY TimeAssumption DEF TimeTypes
<1>4. DeviceTypes BY SlotAssumption DEF DeviceTypes
<1>5. WaitInv BY TimeAssumption DEF WaitInv
<1>6. BusyInv BY SlotAssumption DEF BusyInv
<1>7. RetryInv BY DEF RetryInv, Pending
<1> QED BY <1>1, <1>2, <1>3, <1>4, <1>5, <1>6, <1>7, TypeParts DEF IInv

LEMMA InvTick == ASSUME IInv, Tick PROVE IInv'
<1> USE DEF IInv
<1>1. /\ stall < MaxStall /\ stall' = stall + 1
      /\ now' = (IF now + 1 = ClockMod THEN 0 ELSE now + 1)
      /\ since_first' = OneMore(since_first, AggregationWait)
      /\ since_mount' = OneMore(since_mount, QuietTime)
      /\ since_idle' = OneMore(since_idle, IdleSpacing)
      /\ UNCHANGED <<mounted_itfs, bridge_state, first_mount_ms, last_mount_ms, last_set_idle_ms, set_idle_busy,
                     bridged, plugged, armed, emptied, control>>
  BY DEF Tick, timers, devices
<1>2. MountTypes /\ StateTypes /\ TimeTypes /\ DeviceTypes BY TypeParts
<1>3. /\ ClockMod \in Nat /\ AggregationWait \in Nat /\ QuietTime \in Nat /\ IdleSpacing \in Nat /\ MaxStall \in Nat
      /\ AggregationWait < ClockMod /\ QuietTime < ClockMod /\ IdleSpacing < ClockMod
  BY TimeAssumption
<1>4. now' \in 0..ClockMod-1 /\ stall' \in 0..MaxStall BY <1>1, <1>2, <1>3 DEF TimeTypes
<1>5. since_first' \in 0..AggregationWait /\ (since_first' < AggregationWait => Age(first_mount_ms)' = since_first')
  BY <1>1, <1>2, <1>3, TickAges DEF TimeTypes, WaitInv, Age
<1>6. since_mount' \in 0..QuietTime /\ (since_mount' < QuietTime => Age(last_mount_ms)' = since_mount')
  BY <1>1, <1>2, <1>3, TickAges DEF TimeTypes, WaitInv, Age
<1>7. since_idle' \in 0..IdleSpacing /\ (since_idle' < IdleSpacing => Age(last_set_idle_ms)' = since_idle')
  BY <1>1, <1>2, <1>3, TickAges DEF TimeTypes, WaitInv, Age
<1>8. TimeTypes' BY <1>1, <1>2, <1>4, <1>5, <1>6, <1>7 DEF TimeTypes
<1>9. WaitInv' BY <1>5, <1>6, <1>7 DEF WaitInv
<1>10. MountTypes' /\ StateTypes' /\ DeviceTypes' BY <1>1, <1>2 DEF MountTypes, StateTypes, DeviceTypes
<1>11. BusyInv' /\ RetryInv' BY <1>1 DEF BusyInv, RetryInv, Pending
<1> QED BY <1>8, <1>9, <1>10, <1>11, TypePartsNext

-----------------------------------------------------------------------------
(***************************************************************************)
(* TinyUSB's callbacks                                                     *)
(***************************************************************************)
LEMMA InvMount ==
    ASSUME IInv, NEW s \in Slots, NEW d \in Descriptors, tuh_hid_mount_cb(s, d)
    PROVE  IInv'
<1> USE DEF IInv
<1>1. MountTypes /\ StateTypes /\ TimeTypes /\ DeviceTypes BY TypeParts
<1>2. /\ plugged' = [plugged EXCEPT ![s] = d]
      /\ armed' = IF d = <<>> THEN armed ELSE armed \cup {s}
      /\ UNCHANGED <<now, last_set_idle_ms, set_idle_busy, bridged, emptied, control, stall, since_idle>>
  BY DEF tuh_hid_mount_cb
<1>3. DeviceTypes' BY <1>1, <1>2 DEF DeviceTypes
<1>4. BusyInv' BY <1>2 DEF BusyInv
<1>5. CASE Accepted /\ StoreInterface(s, d)
  <2> DEFINE itf == [slot |-> s, desc |-> d, set_idle_pending |-> TRUE, set_idle_retry |-> 0]
  <2>1. itf \in Interface BY TimeAssumption DEF Interface
  <2>2. mounted_itfs' = Append(mounted_itfs, itf) /\ Len(mounted_itfs) < MaxInterfaces
    BY <1>5 DEF StoreInterface, Accepted
  <2>3. /\ last_mount_ms' = now /\ since_mount' = 0
        /\ \/ bridge_state' = "Aggregating" /\ first_mount_ms' = now /\ since_first' = 0
           \/ UNCHANGED <<bridge_state, first_mount_ms, since_first>>
    BY <1>5 DEF StoreInterface
  <2> HIDE DEF itf
  <2>4. /\ mounted_itfs' \in Seq(Interface) /\ Len(mounted_itfs') = Len(mounted_itfs) + 1
        /\ \A i \in 1..Len(mounted_itfs) : mounted_itfs'[i] = mounted_itfs[i]
        /\ mounted_itfs'[Len(mounted_itfs) + 1] = itf
        /\ Len(mounted_itfs) \in Nat
    BY <1>1, <2>1, <2>2, AppendProperties, LenProperties DEF MountTypes
  <2>5. MountTypes' BY <2>2, <2>4, SlotAssumption DEF MountTypes
  <2>6. StateTypes' BY <1>1, <1>2, <2>3, <2>4 DEF StateTypes
  <2>7. TimeTypes' BY <1>1, <1>2, <2>3, TimeAssumption DEF TimeTypes
  <2>8. WaitInv'
    <3>1. Age(last_mount_ms)' = since_mount' BY <1>1, <1>2, <2>3 DEF Age, TimeTypes
    <3>2. since_first' < AggregationWait => Age(first_mount_ms)' = since_first'
      BY <1>1, <1>2, <2>3 DEF Age, TimeTypes, WaitInv
    <3>3. since_idle' < IdleSpacing => Age(last_set_idle_ms)' = since_idle'
      BY <1>1, <1>2 DEF Age, WaitInv
    <3> QED BY <3>1, <3>2, <3>3 DEF WaitInv
  <2>9. RetryInv'
    <3> SUFFICES ASSUME NEW i \in Pending' PROVE mounted_itfs'[i].set_idle_retry < MaxIdleRetry
      BY DEF RetryInv
    <3>1. i \in 1..Len(mounted_itfs) + 1 /\ mounted_itfs'[i].set_idle_pending
      BY <2>4 DEF Pending
    <3>2. CASE i = Len(mounted_itfs) + 1
      BY <2>4, <3>2, TimeAssumption DEF itf
    <3>3. CASE i \in 1..Len(mounted_itfs)
      <4>1. i \in Pending BY <1>1, <2>4, <3>1, <3>3 DEF Pending, MountTypes
      <4> QED BY <2>4, <3>3, <4>1 DEF RetryInv
    <3> QED BY <2>4, <3>1, <3>2, <3>3
  <2> QED BY <1>3, <1>4, <2>5, <2>6, <2>7, <2>8, <2>9, TypePartsNext
<1>6. CASE UNCHANGED <<mounted_itfs, bridge_state, first_mount_ms, last_mount_ms, since_first, since_mount>>
  <2>1. MountTypes' /\ StateTypes' BY <1>1, <1>2, <1>6 DEF MountTypes, StateTypes
  <2>2. TimeTypes' BY <1>1, <1>2, <1>6 DEF TimeTypes
  <2>3. WaitInv' BY <1>2, <1>6 DEF WaitInv, Age
  <2>4. RetryInv' BY <1>6 DEF RetryInv, Pending
  <2> QED BY <1>3, <1>4, <2>1, <2>2, <2>3, <2>4, TypePartsNext
<1> QED BY <1>5, <1>6 DEF tuh_hid_mount_cb

\* Callbacks that leave the interfaces, the bridge and the times alone.
LEMMA InvCallback ==
    ASSUME IInv, UNCHANGED <<mounted_itfs, bridge_state, now, timers, bridged, stall, since>>,
           set_idle_busy' \in BOOLEAN, DeviceTypes', BusyInv'
    PROVE  IInv'
<1> USE DEF IInv
<1>1. MountTypes /\ StateTypes /\ TimeTypes BY TypeParts
<1>2. MountTypes' BY <1>1 DEF MountTypes
<1>3. StateTypes' BY <1>1 DEF StateTypes
<1>4. TimeTypes' BY <1>1 DEF TimeTypes, timers, since
<1>5. WaitInv' BY DEF WaitInv, Age, timers, since
<1>6. RetryInv' BY DEF RetryInv, Pending
<1> QED BY <1>2, <1>3, <1>4, <1>5, <1>6, TypePartsNext

LEMMA InvUmount == ASSUME IInv, NEW s \in Slots, tuh_hid_umount_cb(s) PROVE IInv'
<1>1. DeviceTypes /\ StateTypes BY TypeParts DEF IInv
<1>2. /\ emptied' = emptied \cup {s}
      /\ plugged' = [plugged EXCEPT ![s] = Unplugged] /\ armed' = armed \ {s}
      /\ control' = (IF control = s THEN "free" ELSE control) /\ set_idle_busy' = set_idle_busy
      /\ UNCHANGED <<mounted_itfs, bridge_state, now, timers, bridged, stall, since>>
  BY DEF tuh_hid_umount_cb
<1>3. DeviceTypes' BY <1>1, <1>2, SlotAssumption DEF DeviceTypes
<1>4. BusyInv' BY <1>2, SlotAssumption DEF IInv, BusyInv
<1> QED BY <1>1, <1>2, <1>3, <1>4, InvCallback DEF StateTypes

LEMMA InvReport ==
    ASSUME IInv, NEW s \in Slots, NEW id, NEW empty, tuh_hid_report_received_cb(s, id, empty)
    PROVE  IInv'
<1>1. DeviceTypes /\ StateTypes BY TypeParts DEF IInv
<1>2. /\ armed' = (armed \ {s}) \cup {s}
      /\ UNCHANGED <<mounted_itfs, bridge_state, now, timers, set_idle_busy, bridged, plugged, emptied, control, stall, since>>
  BY DEF tuh_hid_report_received_cb, AskForNext
<1>3. DeviceTypes' BY <1>1, <1>2 DEF DeviceTypes
<1>4. BusyInv' BY <1>2 DEF IInv, BusyInv
<1> QED BY <1>1, <1>2, <1>3, <1>4, InvCallback DEF StateTypes

LEMMA InvControl == ASSUME IInv, StackControl \/ set_idle_complete_cb PROVE IInv'
<1>1. DeviceTypes /\ StateTypes BY TypeParts DEF IInv
<1>2. /\ control' \in {"free", "stack"}
      /\ UNCHANGED <<mounted_itfs, bridge_state, now, timers, bridged, plugged, armed, emptied, stall, since>>
      /\ set_idle_busy' \in BOOLEAN
  BY <1>1 DEF StackControl, set_idle_complete_cb, devices, StateTypes
<1>3. DeviceTypes' BY <1>1, <1>2 DEF DeviceTypes
<1>4. BusyInv' BY <1>2, SlotAssumption DEF BusyInv
<1> QED BY <1>2, <1>3, <1>4, InvCallback


-----------------------------------------------------------------------------
(***************************************************************************)
(* usb_hid_host_task                                                       *)
(***************************************************************************)
LEMMA PendingIndices == ASSUME MountTypes PROVE Pending \subseteq 1..Len(mounted_itfs) /\ Pending \subseteq Nat
<1>1. mounted_itfs \in Seq(Interface) BY DEF MountTypes
<1>2. DOMAIN mounted_itfs = 1..Len(mounted_itfs) BY <1>1
<1> QED BY <1>2 DEF Pending

\* What an attempt at the SET_IDLE of interface i makes of it.
Attempted(i) ==
    LET sent == CanSendIdle(mounted_itfs[i].slot)
        retry == IF sent THEN mounted_itfs[i].set_idle_retry ELSE mounted_itfs[i].set_idle_retry + 1
    IN  [mounted_itfs[i] EXCEPT !.set_idle_retry = retry,
                                !.set_idle_pending = ~sent /\ retry < MaxIdleRetry]

\* An attempt counts a refusal, and leaves an interface pending only with an attempt left.
LEMMA AttemptedType ==
    ASSUME MountTypes, NEW i \in 1..Len(mounted_itfs), mounted_itfs[i].set_idle_retry < MaxIdleRetry
    PROVE  /\ Attempted(i) \in Interface
           /\ Attempted(i).slot = mounted_itfs[i].slot /\ Attempted(i).desc = mounted_itfs[i].desc
           /\ Attempted(i).set_idle_pending => Attempted(i).set_idle_retry < MaxIdleRetry
<1> DEFINE sent == CanSendIdle(mounted_itfs[i].slot)
           n == mounted_itfs[i].set_idle_retry
           retry == IF sent THEN n ELSE n + 1
           pending == ~sent /\ retry < MaxIdleRetry
<1>1. mounted_itfs[i] \in Interface BY DEF MountTypes
<1>2. n \in 0..MaxIdleRetry /\ n < MaxIdleRetry /\ MaxIdleRetry \in Nat BY <1>1, TimeAssumption DEF Interface
<1>3. Attempted(i) = [mounted_itfs[i] EXCEPT !.set_idle_retry = retry, !.set_idle_pending = pending]
  BY DEF Attempted
<1> HIDE DEF sent, n
<1>4. retry \in 0..MaxIdleRetry BY <1>2
<1>5. pending \in BOOLEAN /\ (pending => retry < MaxIdleRetry) OBVIOUS
<1> HIDE DEF retry, pending
<1>6. /\ Attempted(i).set_idle_retry = retry /\ Attempted(i).set_idle_pending = pending
      /\ Attempted(i).slot = mounted_itfs[i].slot /\ Attempted(i).desc = mounted_itfs[i].desc
  BY <1>1, <1>3 DEF Interface
<1>7. Attempted(i) \in Interface BY <1>1, <1>3, <1>4, <1>5 DEF Interface
<1> QED BY <1>5, <1>6, <1>7

\* An attempt changes the interface it is made for and no other.
LEMMA AttemptChanges ==
    ASSUME MountTypes, NEW i \in 1..Len(mounted_itfs), send_set_idle(i)
    PROVE  /\ mounted_itfs' = [mounted_itfs EXCEPT ![i] = Attempted(i)]
           /\ last_set_idle_ms' = now /\ since_idle' = 0
           /\ \/ set_idle_busy' = TRUE /\ control' = mounted_itfs[i].slot
              \/ set_idle_busy' = FALSE /\ control' = control
BY DEF send_set_idle, Attempted, CanSendIdle

\* An interface stays that of its device, whatever becomes of its SET_IDLE.
SameInterface(j) ==
    mounted_itfs'[j].slot = mounted_itfs[j].slot /\ mounted_itfs'[j].desc = mounted_itfs[j].desc

LEMMA QueueServed ==
    ASSUME IInv, service_set_idle_queue,
           UNCHANGED <<plugged, armed, emptied>>
    PROVE  /\ MountTypes' /\ RetryInv' /\ BusyInv' /\ DeviceTypes' /\ set_idle_busy' \in BOOLEAN
           /\ Len(mounted_itfs') = Len(mounted_itfs)
           /\ \A j \in 1..Len(mounted_itfs) : SameInterface(j)
           /\ \/ last_set_idle_ms' = now /\ since_idle' = 0
              \/ UNCHANGED <<last_set_idle_ms, since_idle>>
<1> USE DEF IInv
<1>1. MountTypes /\ StateTypes /\ DeviceTypes BY TypeParts
<1>2. CASE IdleDue /\ send_set_idle(First(Pending))
  <2> DEFINE i == First(Pending)
  <2>1. i \in Pending BY <1>1, <1>2, PendingIndices, FirstExists DEF IdleDue
  <2>2. i \in 1..Len(mounted_itfs) /\ mounted_itfs[i].set_idle_retry < MaxIdleRetry
    BY <1>1, <2>1, PendingIndices DEF RetryInv
  <2>3. ~set_idle_busy /\ send_set_idle(i) BY <1>2 DEF IdleDue
  <2> HIDE DEF i
  <2>4. /\ mounted_itfs' = [mounted_itfs EXCEPT ![i] = Attempted(i)]
        /\ last_set_idle_ms' = now /\ since_idle' = 0
        /\ \/ set_idle_busy' = TRUE /\ control' = mounted_itfs[i].slot
           \/ set_idle_busy' = FALSE /\ control' = control
    BY <1>1, <2>2, <2>3, AttemptChanges
  <2>5. /\ Attempted(i) \in Interface
        /\ Attempted(i).slot = mounted_itfs[i].slot /\ Attempted(i).desc = mounted_itfs[i].desc
        /\ Attempted(i).set_idle_pending => Attempted(i).set_idle_retry < MaxIdleRetry
    BY <1>1, <2>2, AttemptedType
  <2>6. /\ mounted_itfs' \in Seq(Interface) /\ Len(mounted_itfs') = Len(mounted_itfs)
        /\ \A j \in 1..Len(mounted_itfs) : mounted_itfs'[j] = IF j = i THEN Attempted(i) ELSE mounted_itfs[j]
    BY <1>1, <2>2, <2>4, <2>5, ExceptSeq DEF MountTypes
  <2>7. MountTypes' BY <1>1, <2>6 DEF MountTypes
  <2>8. RetryInv'
    <3> SUFFICES ASSUME NEW j \in Pending' PROVE mounted_itfs'[j].set_idle_retry < MaxIdleRetry
      BY DEF RetryInv
    <3>1. j \in 1..Len(mounted_itfs) /\ mounted_itfs'[j].set_idle_pending
      BY <2>6 DEF Pending
    <3>2. CASE j = i BY <2>5, <2>6, <3>1, <3>2
    <3>3. CASE j # i
      <4>1. j \in Pending BY <1>1, <2>6, <3>1, <3>3 DEF Pending, MountTypes
      <4> QED BY <2>6, <3>1, <3>3, <4>1 DEF RetryInv
    <3> QED BY <3>2, <3>3
  <2>9. mounted_itfs[i].slot \in Slots
    <3>1. mounted_itfs[i] \in Interface BY <1>1, <2>2 DEF MountTypes
    <3> QED BY <3>1 DEF Interface
  <2>10. control' \in Slots \cup {"free", "stack"} BY <1>1, <2>4, <2>9 DEF DeviceTypes
  <2>11. BusyInv' BY <2>3, <2>4 DEF BusyInv
  <2>12. DeviceTypes' BY <1>1, <2>10 DEF DeviceTypes
  <2>13. set_idle_busy' \in BOOLEAN BY <2>4
  <2>14. \A j \in 1..Len(mounted_itfs) : SameInterface(j) BY <2>5, <2>6 DEF SameInterface
  <2> QED BY <2>4, <2>6, <2>7, <2>8, <2>11, <2>12, <2>13, <2>14
<1>3. CASE UNCHANGED <<mounted_itfs, set_idle_busy, last_set_idle_ms, control, since_idle>>
  <2>1. MountTypes' BY <1>1, <1>3 DEF MountTypes
  <2>2. RetryInv' BY <1>3 DEF RetryInv, Pending
  <2>3. BusyInv' BY <1>3 DEF BusyInv
  <2>4. DeviceTypes' BY <1>1, <1>3 DEF DeviceTypes
  <2>5. set_idle_busy' \in BOOLEAN BY <1>1, <1>3 DEF StateTypes
  <2>6. \A j \in 1..Len(mounted_itfs) : SameInterface(j) BY <1>3 DEF SameInterface
  <2> QED BY <1>3, <2>1, <2>2, <2>3, <2>4, <2>5, <2>6
<1> QED BY <1>2, <1>3 DEF service_set_idle_queue

LEMMA InvTask == ASSUME IInv, usb_hid_host_task PROVE IInv'
<1> USE DEF IInv
<1>1. MountTypes /\ StateTypes /\ TimeTypes BY TypeParts
<1>2. /\ service_set_idle_queue /\ stall' = 0
      /\ UNCHANGED <<now, first_mount_ms, last_mount_ms, plugged, armed, emptied, since_first, since_mount>>
      /\ \/ bridge_state' = "Started" /\ bridged' = Len(mounted_itfs)
         \/ UNCHANGED <<bridge_state, bridged>>
  BY DEF usb_hid_host_task, start_combined_ble_bridge, devices
<1>3. /\ MountTypes' /\ RetryInv' /\ BusyInv' /\ DeviceTypes' /\ set_idle_busy' \in BOOLEAN
      /\ Len(mounted_itfs') = Len(mounted_itfs)
      /\ \/ last_set_idle_ms' = now /\ since_idle' = 0
         \/ UNCHANGED <<last_set_idle_ms, since_idle>>
  BY <1>2, QueueServed
<1>4. StateTypes'
  <2>1. Len(mounted_itfs) \in Nat BY <1>1 DEF MountTypes
  <2>2. bridged' \in 0..Len(mounted_itfs')
    <3>1. bridged \in 0..Len(mounted_itfs) BY <1>1 DEF StateTypes
    <3>2. bridged' = Len(mounted_itfs) \/ bridged' = bridged BY <1>2
    <3>3. Len(mounted_itfs') = Len(mounted_itfs) BY <1>3
    <3> QED BY ONLY <2>1, <3>1, <3>2, <3>3
  <2>3. bridge_state' \in {"WaitingFirstDevice", "Aggregating", "Started"} BY <1>1, <1>2 DEF StateTypes
  <2> QED BY <1>3, <2>2, <2>3 DEF StateTypes
<1>5. TimeTypes'
  <2>1. last_set_idle_ms' \in 0..ClockMod-1 /\ since_idle' \in 0..IdleSpacing
    BY <1>1, <1>3, TimeAssumption DEF TimeTypes
  <2>2. stall' \in 0..MaxStall BY <1>2, TimeAssumption
  <2> QED BY <1>1, <1>2, <2>1, <2>2 DEF TimeTypes
<1>6. WaitInv'
  <2>1. /\ since_first' < AggregationWait => Age(first_mount_ms)' = since_first'
        /\ since_mount' < QuietTime => Age(last_mount_ms)' = since_mount'
    BY <1>2 DEF WaitInv, Age
  <2>2. since_idle' < IdleSpacing => Age(last_set_idle_ms)' = since_idle'
    <3>1. CASE last_set_idle_ms' = now /\ since_idle' = 0
      BY <1>1, <1>2, <3>1 DEF Age, TimeTypes
    <3>2. CASE UNCHANGED <<last_set_idle_ms, since_idle>>
      BY <1>2, <3>2 DEF Age, WaitInv
    <3> QED BY <1>3, <3>1, <3>2
  <2> QED BY <2>1, <2>2 DEF WaitInv
<1> QED BY <1>3, <1>4, <1>5, <1>6, TypePartsNext


LEMMA InvNext == IInv /\ [Next]_vars => IInv'
<1> SUFFICES ASSUME IInv, [Next]_vars PROVE IInv' OBVIOUS
<1>1. CASE Tick BY <1>1, InvTick
<1>2. CASE Mount BY <1>2, InvMount DEF Mount, Descriptors
<1>3. CASE Umount BY <1>3, InvUmount DEF Umount
<1>4. CASE Report
  <2>1. armed \subseteq Slots BY TypeParts DEF IInv, DeviceTypes
  <2>2. CASE EmptyReport BY <2>1, <2>2, InvReport DEF EmptyReport
  <2>3. CASE \E s \in Slots : ReportFrom(s) BY <2>3, InvReport DEF ReportFrom
  <2> QED BY <1>4, <2>2, <2>3 DEF Report
<1>5. CASE StackControl \/ set_idle_complete_cb BY <1>5, InvControl
<1>6. CASE usb_hid_host_task BY <1>6, InvTask
<1>7. CASE UNCHANGED vars
  <2>1. DeviceTypes /\ StateTypes BY TypeParts DEF IInv
  <2>2. UNCHANGED <<mounted_itfs, bridge_state, now, timers, bridged, stall, since>> BY <1>7 DEF vars
  <2>3. DeviceTypes' BY <1>7, <2>1 DEF vars, devices, DeviceTypes
  <2>4. set_idle_busy' \in BOOLEAN BY <1>7, <2>1 DEF vars, StateTypes
  <2>5. BusyInv' BY <1>7 DEF vars, IInv, BusyInv
  <2> QED BY <2>2, <2>3, <2>4, <2>5, InvCallback
<1> QED BY <1>1, <1>2, <1>3, <1>4, <1>5, <1>6, <1>7 DEF Next

\* The invariant the theorems rest on.
LEMMA Invariant == Spec => []IInv
BY InvInit, InvNext, PTL DEF Spec

-----------------------------------------------------------------------------
(***************************************************************************)
(* What the proofs are for                                                 *)
(***************************************************************************)

\* Every variable keeps its type: never more interfaces are stored than there is room for, and
\* an interface is refused its SET_IDLE at most as often as the retries allow.
\* (tuh_hid_mount_cb, send_set_idle)
THEOREM HostTypeCorrect == Spec => []TypeOK
BY Invariant, PTL DEF IInv

\* The bridge starts neither before the aggregation window is over nor while interfaces still
\* come in, whatever the waits and wherever the clock wraps. (usb_hid_host_task)
THEOREM BridgeWaits == Spec => StartsAfterWindow
<1>1. IInv /\ [Next]_vars =>
        [bridge_state' # bridge_state /\ bridge_state' = "Started"
           => since_first >= AggregationWait /\ since_mount >= QuietTime]_vars
  <2> SUFFICES ASSUME IInv, Next, bridge_state' # bridge_state, bridge_state' = "Started"
               PROVE  since_first >= AggregationWait /\ since_mount >= QuietTime
    OBVIOUS
  <2>1. WindowElapsed
    <3>1. usb_hid_host_task
      BY DEF Next, Tick, Mount, tuh_hid_mount_cb, StoreInterface, Umount, tuh_hid_umount_cb, Report, ReportFrom,
             EmptyReport, tuh_hid_report_received_cb, StackControl, set_idle_complete_cb
    <3> QED BY <3>1 DEF usb_hid_host_task
  <2>2. Age(first_mount_ms) >= AggregationWait /\ Age(last_mount_ms) >= QuietTime
    BY <2>1, ElapsedIsAge DEF WindowElapsed
  <2>3. TimeTypes /\ WaitInv BY TypeParts DEF IInv
  <2>4. AggregationWait \in Nat /\ QuietTime \in Nat BY TimeAssumption
  <2> QED BY <2>2, <2>3, <2>4 DEF TimeTypes, WaitInv
<1> QED BY <1>1, Invariant, PTL DEF Spec, StartsAfterWindow

\* A SET_IDLE is attempted only with no earlier one of ours under way, whose request buffer
\* it would overwrite, and no sooner than the spacing after the last attempt.
\* (service_set_idle_queue, send_set_idle)
THEOREM IdleOneAtATime == Spec => IdleSequential
<1>1. IInv /\ [Next]_vars =>
        [(Len(mounted_itfs') = Len(mounted_itfs) /\ mounted_itfs' # mounted_itfs)
           => control \notin Slots /\ since_idle >= IdleSpacing]_vars
  <2> SUFFICES ASSUME IInv, Next, Len(mounted_itfs') = Len(mounted_itfs), mounted_itfs' # mounted_itfs
               PROVE  control \notin Slots /\ since_idle >= IdleSpacing
    OBVIOUS
  <2>1. TimeTypes /\ MountTypes /\ WaitInv /\ BusyInv BY TypeParts DEF IInv
  <2>2. IdleDue
    <3>1. ~Mount
      <4> SUFFICES ASSUME NEW s \in Slots, NEW d \in Devices[s], tuh_hid_mount_cb(s, d) PROVE FALSE
        BY DEF Mount
      <4> DEFINE itf == [slot |-> s, desc |-> d, set_idle_pending |-> TRUE, set_idle_retry |-> 0]
      <4>1. mounted_itfs' = Append(mounted_itfs, itf) BY DEF tuh_hid_mount_cb, StoreInterface
      <4> HIDE DEF itf
      <4>2. Len(mounted_itfs') = Len(mounted_itfs) + 1 /\ Len(mounted_itfs) \in Nat
        BY <2>1, <4>1 DEF MountTypes
      <4> QED BY <4>2
    <3>2. usb_hid_host_task
      BY <3>1 DEF Next, Tick, Umount, tuh_hid_umount_cb, Report, ReportFrom, EmptyReport,
                  tuh_hid_report_received_cb, StackControl, set_idle_complete_cb
    <3> QED BY <3>2 DEF usb_hid_host_task, service_set_idle_queue
  <2>3. control \notin Slots BY <2>1, <2>2 DEF IdleDue, BusyInv
  <2>4. Age(last_set_idle_ms) >= IdleSpacing BY <2>2, ElapsedIsAge DEF IdleDue
  <2>5. since_idle >= IdleSpacing BY <2>1, <2>4, TimeAssumption DEF TimeTypes, WaitInv
  <2> QED BY <2>3, <2>5
<1> QED BY <1>1, Invariant, PTL DEF Spec, IdleSequential


-----------------------------------------------------------------------------
(***************************************************************************)
(* What is forwarded                                                       *)
(***************************************************************************)
\* The interfaces of a slot that was never emptied are those of the device in it.
SlotsKept ==
    \A s \in Slots \ emptied :
        /\ plugged[s] = Unplugged => Matching(s) = {}
        /\ \A i \in Matching(s) : mounted_itfs[i].desc = plugged[s]

\* Once the bridge has started all the interfaces are in it and no more are stored; what was forwarded
\* came from one of them and carries an id the device has declared, the device the interface was stored
\* for if the slot was never emptied.
HomeInv ==
    /\ bridge_state = "Started" => bridged = Len(mounted_itfs)
    /\ SlotsKept
    /\ forwarded # NothingForwarded =>
         /\ bridge_state = "Started" /\ Matching(forwarded.slot) # {} /\ forwarded.id \in InputIdsOf(forwarded.desc)
         /\ forwarded.slot \notin emptied =>
              \A i \in Matching(forwarded.slot) : mounted_itfs[i].desc = forwarded.desc

\* Steps that store no interface and forward nothing; a slot that is not emptied changes only while
\* no interface is stored for it.
LEMMA HomeKept ==
    ASSUME MountTypes, HomeInv, forwarded' = forwarded,
           mounted_itfs' \in Seq(Interface), Len(mounted_itfs') = Len(mounted_itfs),
           \A j \in 1..Len(mounted_itfs) : SameInterface(j),
           emptied \subseteq emptied',
           \A s \in Slots \ emptied' : plugged'[s] = plugged[s] \/ Matching(s) = {},
           \/ UNCHANGED <<bridge_state, bridged>>
           \/ bridge_state' = "Started" /\ bridged' = Len(mounted_itfs)
    PROVE  HomeInv'
<1>1. DOMAIN mounted_itfs = 1..Len(mounted_itfs) /\ DOMAIN mounted_itfs' = 1..Len(mounted_itfs)
  BY DEF MountTypes
<1>2. \A slot : Matching(slot)' = Matching(slot) BY <1>1 DEF Matching, SameInterface
<1>3. \A slot : \A i \in Matching(slot) : mounted_itfs'[i].desc = mounted_itfs[i].desc
  BY <1>1 DEF Matching, SameInterface
<1>4. SlotsKept'
  <2> SUFFICES ASSUME NEW s \in Slots \ emptied'
               PROVE  /\ plugged'[s] = Unplugged => Matching(s)' = {}
                      /\ \A i \in Matching(s)' : mounted_itfs'[i].desc = plugged'[s]
    BY DEF SlotsKept
  <2>1. /\ plugged[s] = Unplugged => Matching(s) = {}
        /\ \A i \in Matching(s) : mounted_itfs[i].desc = plugged[s]
    BY DEF HomeInv, SlotsKept
  <2>2. Matching(s)' = Matching(s) BY <1>2
  <2>3. plugged'[s] = plugged[s] \/ Matching(s) = {} OBVIOUS
  <2> QED BY <1>3, <2>1, <2>2, <2>3
<1>5. ASSUME forwarded # NothingForwarded
      PROVE  /\ Matching(forwarded.slot)' # {} /\ forwarded.id \in InputIdsOf(forwarded.desc)
             /\ forwarded.slot \notin emptied' =>
                  \A i \in Matching(forwarded.slot)' : mounted_itfs'[i].desc = forwarded.desc
  <2>1. Matching(forwarded.slot)' = Matching(forwarded.slot) BY <1>1 DEF Matching, SameInterface
  <2> QED BY <1>3, <1>5, <2>1 DEF HomeInv
<1>6. bridge_state' = "Started" => bridged' = Len(mounted_itfs') BY DEF HomeInv
<1>7. forwarded # NothingForwarded => bridge_state' = "Started" BY DEF HomeInv
<1> QED BY <1>4, <1>5, <1>6, <1>7 DEF HomeInv

LEMMA HomeMount ==
    ASSUME IInv, HomeInv, NEW s \in Slots, NEW d \in Descriptors, tuh_hid_mount_cb(s, d)
    PROVE  HomeInv'
<1>1. MountTypes /\ DeviceTypes BY TypeParts DEF IInv
<1>2. /\ forwarded' = forwarded /\ bridged' = bridged /\ emptied' = emptied
      /\ plugged[s] = Unplugged /\ plugged' = [plugged EXCEPT ![s] = d]
  BY DEF tuh_hid_mount_cb
<1>3. plugged'[s] = d /\ \A t \in Slots \ {s} : plugged'[t] = plugged[t]
  BY <1>1, <1>2 DEF DeviceTypes
<1>4. s \notin emptied => Matching(s) = {} BY <1>2 DEF HomeInv, SlotsKept
<1>5. CASE Accepted /\ StoreInterface(s, d)
  <2> DEFINE itf == [slot |-> s, desc |-> d, set_idle_pending |-> TRUE, set_idle_retry |-> 0]
             n == Len(mounted_itfs)
  <2>1. bridge_state # "Started" BY <1>5 DEF Accepted
  <2>2. bridge_state' # "Started" BY <1>5, <2>1 DEF StoreInterface
  <2>3. forwarded = NothingForwarded BY <2>1 DEF HomeInv
  <2>4. mounted_itfs' = Append(mounted_itfs, itf) BY <1>5 DEF StoreInterface
  <2>5. itf.slot = s /\ itf.desc = d OBVIOUS
  <2>6. itf \in Interface BY TimeAssumption DEF Interface
  <2> HIDE DEF itf
  <2>7. /\ n \in Nat /\ DOMAIN mounted_itfs = 1..n /\ DOMAIN mounted_itfs' = 1..(n + 1)
        /\ \A j \in 1..n : mounted_itfs'[j] = mounted_itfs[j]
        /\ mounted_itfs'[n + 1] = itf
    BY <1>1, <2>4, <2>6, AppendProperties, LenProperties DEF MountTypes
  <2> HIDE DEF n
  <2>8. SlotsKept'
    <3> SUFFICES ASSUME NEW t \in Slots \ emptied
                 PROVE  /\ plugged'[t] = Unplugged => Matching(t)' = {}
                        /\ \A i \in Matching(t)' : mounted_itfs'[i].desc = plugged'[t]
      BY <1>2 DEF SlotsKept
    <3>1. CASE t = s
      <4>1. plugged'[t] # Unplugged BY <1>3, <3>1, SlotAssumption
      <4>2. ASSUME NEW i \in Matching(t)' PROVE i = n + 1
        <5>1. i \in 1..(n + 1) /\ mounted_itfs'[i].slot = t BY <2>7, <4>2 DEF Matching
        <5>2. i \in 1..n => i \in Matching(t) BY <2>7, <5>1 DEF Matching
        <5> QED BY <1>4, <2>7, <3>1, <5>1, <5>2
      <4> QED BY <1>3, <2>5, <2>7, <3>1, <4>1, <4>2
    <3>2. CASE t # s
      <4>1. Matching(t)' = Matching(t)
        <5>1. \A i \in 1..(n + 1) : i \in 1..n \/ i = n + 1 BY <2>7
        <5>2. 1..n \subseteq 1..(n + 1) BY <2>7
        <5> QED BY <2>5, <2>7, <3>2, <5>1, <5>2 DEF Matching
      <4>2. \A i \in Matching(t) : mounted_itfs'[i] = mounted_itfs[i] BY <2>7 DEF Matching
      <4>3. plugged'[t] = plugged[t] BY <1>3, <3>2
      <4> QED BY <4>1, <4>2, <4>3 DEF HomeInv, SlotsKept
    <3> QED BY <3>1, <3>2
  <2> QED BY <1>2, <2>2, <2>3, <2>8 DEF HomeInv, NothingForwarded
<1>6. CASE UNCHANGED <<mounted_itfs, bridge_state>>
  <2>1. \A t \in Slots \ emptied' : plugged'[t] = plugged[t] \/ Matching(t) = {} BY <1>2, <1>3, <1>4
  <2>2. \A j \in 1..Len(mounted_itfs) : SameInterface(j) BY <1>6 DEF SameInterface
  <2> QED BY <1>1, <1>2, <1>6, <2>1, <2>2, HomeKept DEF MountTypes
<1> QED BY <1>5, <1>6 DEF tuh_hid_mount_cb

\* A device is taken out: of its slot nothing is said from then on.
LEMMA HomeUmount == ASSUME IInv, HomeInv, NEW s \in Slots, tuh_hid_umount_cb(s) PROVE HomeInv'
<1>1. MountTypes /\ DeviceTypes BY TypeParts DEF IInv
<1>2. /\ emptied' = emptied \cup {s} /\ plugged' = [plugged EXCEPT ![s] = Unplugged]
      /\ UNCHANGED <<mounted_itfs, bridge_state, bridged, forwarded>>
  BY DEF tuh_hid_umount_cb
<1>3. \A t \in Slots \ emptied' : plugged'[t] = plugged[t] BY <1>1, <1>2 DEF DeviceTypes
<1>4. \A j \in 1..Len(mounted_itfs) : SameInterface(j) BY <1>2 DEF SameInterface
<1> QED BY <1>1, <1>2, <1>3, <1>4, HomeKept DEF MountTypes

\* A report that counts is one the device has declared.
LEMMA HomeReport ==
    ASSUME IInv, HomeInv, NEW s \in Slots, NEW id, NEW empty, tuh_hid_report_received_cb(s, id, empty),
           ~empty => id \in InputIdsOf(plugged[s])
    PROVE  HomeInv'
<1>1. MountTypes BY TypeParts DEF IInv
<1>2. UNCHANGED <<mounted_itfs, bridge_state, bridged, plugged, emptied>> BY DEF tuh_hid_report_received_cb
<1>3. CASE forwarded' = forwarded
  <2>1. \A j \in 1..Len(mounted_itfs) : SameInterface(j) BY <1>2 DEF SameInterface
  <2> QED BY <1>1, <1>2, <1>3, <2>1, HomeKept DEF MountTypes
<1>4. CASE forwarded' # forwarded
  <2>1. bridge_state = "Started" /\ ~empty /\ Matching(s) # {}
        /\ forwarded' = [slot |-> s, desc |-> plugged[s], id |-> id]
    BY <1>4 DEF tuh_hid_report_received_cb, Forward
  <2>2. \A slot : Matching(slot)' = Matching(slot) BY <1>2 DEF Matching
  <2>3. forwarded'.slot = s /\ forwarded'.id = id /\ forwarded'.desc = plugged[s] BY <2>1
  <2>4. Matching(forwarded.slot)' = Matching(s) BY <1>2, <2>3 DEF Matching
  <2>5. s \notin emptied => \A i \in Matching(s) : mounted_itfs[i].desc = plugged[s] BY DEF HomeInv, SlotsKept
  <2>6. SlotsKept' BY <1>2, <2>2 DEF HomeInv, SlotsKept
  <2>7. bridge_state' = "Started" /\ bridged' = Len(mounted_itfs') BY <1>2, <2>1 DEF HomeInv
  <2> QED BY <1>2, <2>1, <2>3, <2>4, <2>5, <2>6, <2>7 DEF HomeInv
<1> QED BY <1>3, <1>4

LEMMA HomeTask == ASSUME IInv, HomeInv, usb_hid_host_task PROVE HomeInv'
<1>1. MountTypes BY TypeParts DEF IInv
<1>2. /\ service_set_idle_queue /\ forwarded' = forwarded
      /\ UNCHANGED <<plugged, armed, emptied>>
      /\ \/ bridge_state' = "Started" /\ bridged' = Len(mounted_itfs)
         \/ UNCHANGED <<bridge_state, bridged>>
  BY DEF usb_hid_host_task, start_combined_ble_bridge, devices
<1>3. /\ MountTypes' /\ Len(mounted_itfs') = Len(mounted_itfs)
      /\ \A j \in 1..Len(mounted_itfs) : SameInterface(j)
  BY <1>2, QueueServed
<1>4. mounted_itfs' \in Seq(Interface) BY <1>3 DEF MountTypes
<1> QED BY <1>1, <1>2, <1>3, <1>4, HomeKept

LEMMA HomeNext == IInv /\ HomeInv /\ [Next]_vars => HomeInv'
<1> SUFFICES ASSUME IInv, HomeInv, [Next]_vars PROVE HomeInv' OBVIOUS
<1>0. MountTypes /\ DeviceTypes BY TypeParts DEF IInv
<1>1. CASE Mount BY <1>1, HomeMount DEF Mount, Descriptors
<1>2. CASE Report
  <2>1. CASE EmptyReport BY <1>0, <2>1, HomeReport DEF EmptyReport, DeviceTypes
  <2>2. CASE \E s \in Slots : ReportFrom(s) BY <2>2, HomeReport DEF ReportFrom
  <2> QED BY <1>2, <2>1, <2>2 DEF Report
<1>3. CASE usb_hid_host_task BY <1>3, HomeTask
<1>4. CASE Umount BY <1>4, HomeUmount DEF Umount
<1>5. CASE Tick \/ StackControl \/ set_idle_complete_cb \/ UNCHANGED vars
  <2>1. UNCHANGED <<mounted_itfs, bridge_state, bridged, forwarded, plugged, emptied>>
    BY <1>5 DEF Tick, StackControl, set_idle_complete_cb, vars, devices
  <2>2. \A j \in 1..Len(mounted_itfs) : SameInterface(j) BY <2>1 DEF SameInterface
  <2> QED BY <1>0, <2>1, <2>2, HomeKept DEF MountTypes
<1> QED BY <1>1, <1>2, <1>3, <1>4, <1>5 DEF Next

LEMMA HomeInvariant == Spec => []HomeInv
<1>1. Init => HomeInv BY DEF Init, HomeInv, SlotsKept, Matching
<1> QED BY <1>1, HomeNext, Invariant, PTL DEF Spec

\* As long as no limit is met, a report handed to the BLE side carries an id under which the interface
\* it came from, and only this, has declared an input report, for any number of interfaces and any
\* descriptors: a report from a slot that was never emptied, or that was given to a device with the
\* same descriptor again. (tuh_hid_report_received_cb, get_bridge_entry)
THEOREM ReportsKeepTheirInterface == Spec => []ForwardedHome
<1>1. IInv /\ HomeInv => ForwardedHome
  <2> DEFINE i == First(Matching(forwarded.slot))
             items == bridge.combined.items
             n == Len(mounted_itfs)
  <2> SUFFICES ASSUME IInv, HomeInv, forwarded # NothingForwarded, WithinLimits(bridged_descs, items),
                      forwarded.slot \notin emptied \/ mounted_itfs[i].desc = forwarded.desc
               PROVE  /\ EntryFor(Parsed(items), SentByte(forwarded)) # 0
                      /\ Declarers(items, SentByte(forwarded)) = {i}
    BY DEF ForwardedHome
  <2>1. /\ bridged = n /\ Matching(forwarded.slot) # {}
        /\ forwarded.id \in InputIdsOf(forwarded.desc)
    BY DEF HomeInv
  <2>2. mounted_itfs \in Seq(Interface) /\ n \in Nat BY TypeParts DEF IInv, MountTypes
  <2>3. Matching(forwarded.slot) \subseteq 1..n /\ Matching(forwarded.slot) \in SUBSET Nat
    BY <2>2 DEF Matching
  <2>4. i \in Matching(forwarded.slot) /\ i \in 1..n BY <2>1, <2>3, FirstExists
  <2>5. bridged_descs \in Descs /\ DOMAIN bridged_descs = 1..n /\ bridged_descs[i] = forwarded.desc
    <3>1. \A k \in 1..n : mounted_itfs[k].desc \in Seq(Item)
      <4>1. \A k \in 1..n : mounted_itfs[k] \in Interface BY <2>2
      <4> QED BY <4>1, SlotAssumption DEF Interface
    <3>2. bridged_descs = [k \in 1..n |-> mounted_itfs[k].desc] BY <2>1 DEF bridged_descs
    <3>3. mounted_itfs[i].desc = forwarded.desc BY <2>4 DEF HomeInv
    <3> HIDE DEF n, i
    <3>4. bridged_descs \in [1..n -> Seq(Item)] BY <3>1, <3>2
    <3>5. bridged_descs \in Seq(Seq(Item)) BY <2>2, <3>4, IsASeq
    <3> QED BY <2>4, <3>2, <3>3, <3>5 DEF Descs, i
  <2> HIDE DEF i, n
  <2>6. i \in DOMAIN bridged_descs /\ forwarded.id \in InputIdsOf(bridged_descs[i]) BY <2>1, <2>4, <2>5
  <2>7. WithinLimits(bridged_descs, MergeAll(bridged_descs).combined.items) BY DEF bridge
  <2>8. SentByte(forwarded) = ForwardedId(MergeAll(bridged_descs).itfs[i], forwarded.id) BY DEF SentByte, bridge, i
  <2>9. /\ Declarers(items, SentByte(forwarded)) = {i}
        /\ Parsed(items) \in ParseType
        /\ EntryFor(Parsed(items), SentByte(forwarded)) \in DOMAIN Parsed(items).ble_reports
    <3>1. items = MergeAll(bridged_descs).combined.items BY DEF bridge
    <3> DEFINE descs == bridged_descs
               id == forwarded.id
    <3>2. descs \in Descs /\ i \in DOMAIN descs /\ id \in InputIdsOf(descs[i])
          /\ WithinLimits(descs, MergeAll(descs).combined.items)
      BY <2>5, <2>6, <2>7
    <3> HIDE DEF items, descs, id
    <3>3. LET merged == MergeAll(descs)
              all == merged.combined.items
              byte == ForwardedId(merged.itfs[i], id)
          IN  /\ Declarers(all, byte) = {i}
              /\ Parsed(all) \in ParseType
              /\ EntryFor(Parsed(all), byte) \in DOMAIN Parsed(all).ble_reports
      BY <3>2, ReportHome
    <3>4. SentByte(forwarded) = ForwardedId(MergeAll(descs).itfs[i], id) BY <2>8 DEF descs, id
    <3>5. items = MergeAll(descs).combined.items BY <3>1 DEF descs
    <3> QED BY <3>3, <3>4, <3>5
  <2>10. 0 \notin DOMAIN Parsed(items).ble_reports BY <2>9 DEF ParseType
  <2> QED BY <2>9, <2>10
<1> QED BY <1>1, Invariant, HomeInvariant, PTL
=============================================================================
